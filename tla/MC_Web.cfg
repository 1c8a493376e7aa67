\* Two threads, one address, an account and a guest; seconds of two ticks.
CONSTANTS
    t1 = t1
    t2 = t2
    Threads = {t1, t2}
    Addrs = {"10.0.0.1"}
    Accounts = {"alice"}
    Guests = {"guest"}
    Tokens <- OneToken
    Names = {"file"}
    Sizes = {2}
    Ticks = 2
    MaxRequests = 2
    Window = 1
    Ttl = 1
    MaxTime = 3
    MaxJobs = 5
SPECIFICATION Spec
INVARIANTS RateFair SessionsSlide FilesFresh
SYMMETRY Pool
CHECK_DEADLOCK FALSE
