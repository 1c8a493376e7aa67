\* Two interpreters, two modules, one worker, two administrators, two calls, two changes.
CONSTANTS
    worker1 = worker1
    worker2 = worker2
    Nobody = Nobody
    Count = 2
    ModuleOrder <- TwoModules
    Exclusive = {"only"}
    Handles <- TwoHandles
    NickChange = "nick"
    Untyped = {"tags"}
    Callers = {worker1}
    Admins = {"admin1", "admin2"}
    Does = {"edit", "cancel", "tag", "rename", "nothing", "raise"}
    MayFail = TRUE
    MaxCalls = 2
    MaxChanges = 2
SPECIFICATION Spec
INVARIANTS TableHonest CalmCallsHeard
CHECK_DEADLOCK FALSE
