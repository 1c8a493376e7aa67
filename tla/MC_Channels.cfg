\* Two connections of one account, on two workers, and one of another; three commands.
CONSTANTS
    a1 = a1
    a2 = a2
    c1 = c1
    c2 = c2
    c3 = c3
    w1 = w1
    w2 = w2
    n1 = n1
    n2 = n2
    k1 = k1
    k2 = k2
    k3 = k3
    Accts = {a1, a2}
    Conns = {c1, c2, c3}
    AcctOf <- TwoAndOne
    Worker <- RoundRobin
    Names = {n1, n2}
    Chans = {k1, k2, k3}
    LoadedName <- LoadedN1
    LoadedMembers <- WithA1
    Renames <- RenameN1
    Hooked = TRUE
    MaxCommands = 3
    Null = Null
    Absent = Absent
SPECIFICATION FairSpec
INVARIANTS MembersOnce ChannelsBacked AlwaysOnline
PROPERTY PartReaches
CHECK_DEADLOCK FALSE
