SPECIFICATION OneSpec
CONSTANTS
    Event = {e1, e2}
    Kinds = {"file", "account_http", "account_db", "parasitic"}
    Task = task
    Manual = {m1}
    Days = {1}
    PageSize = 1
    CacheSize = 2
    Overlap = 3
    MaxDelay = 1
    MaxPull = 1
    MaxTime = 5
    MaxFaults = 1
SYMMETRY Symmetry
CHECK_DEADLOCK FALSE
INVARIANTS
    TypeOK
    StoredOnce
    PullComplete
    CursorHonest
