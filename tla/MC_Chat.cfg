\* Three connections of two accounts on two workers, two messages, one change.
CONSTANTS
    c1 = c1
    c2 = c2
    c3 = c3
    a1 = a1
    a2 = a2
    w1 = w1
    w2 = w2
    Conns = {c1, c2, c3}
    Accts = {a1, a2}
    AccountOf <- Accounts
    WorkerOf <- Workers
    Members = {a1, a2}
    Room = Room
    ServerCaps <- Caps
    Joining = {c2}
    InitialCaps <- CapChoices
    CapLines <- CapRequests
    Modes = {"n", "k", "l", "b"}
    ArgModes = {"k", "l", "b"}
    DefaultModes = {"n"}
    ModeLines <- ModeRequests
    Hooks = {"none", "cancel", "fail"}
    MaxMessages = 2
    MaxChanges = 1
SPECIFICATION Spec
INVARIANTS DeliveredExactly
PROPERTIES Answered
CHECK_DEADLOCK FALSE
