\* Three names, pages of two rows, three ends of the process and one failing statement.
CONSTANTS
    admin = admin
    u1 = u1
    u2 = u2
    s1 = s1
    s2 = s2
    c1 = c1
    c2 = c2
    Users = {admin, u1, u2}
    Admin = admin
    Servers = {s1, s2}
    Chans = {c1, c2}
    NoFile = NoFile
    Configs <- TwoFiles
    PageSize = 2
    MaxRestarts = 3
    MaxFailures = 1
SPECIFICATION Spec
INVARIANTS ConfigApplied  EveryoneHolds
PROPERTIES StartIdempotent StartsUp
CHECK_DEADLOCK FALSE
