SPECIFICATION Spec
CONSTANTS
    Event = {e1, e2, e3}
    Kinds = {"account_http"}
    Task = task
    Manual = {}
    Days = {}
    PageSize = 1
    CacheSize = 2
    Overlap = 2
    MaxDelay = 1
    MaxPull = 0
    MaxTime = 3
    MaxFaults = 0
SYMMETRY Symmetry
CHECK_DEADLOCK FALSE
INVARIANT
    HttpCursorHonest
