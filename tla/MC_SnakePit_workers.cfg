\* Two interpreters, one module, two workers, one administrator, three calls, two changes.
CONSTANTS
    worker1 = worker1
    worker2 = worker2
    Nobody = Nobody
    Count = 2
    ModuleOrder <- OneModule
    Exclusive = {}
    Handles <- OneHandles
    NickChange = "nick"
    Untyped = {}
    Callers <- TwoWorkers
    Admins = {"admin1"}
    Does = {"pass", "rename", "loop"}
    MayFail = TRUE
    MaxCalls = 3
    MaxChanges = 2
SPECIFICATION Spec
PROPERTIES CallsReturn
CHECK_DEADLOCK FALSE
