SPECIFICATION MonitorsSpec
CONSTANTS
    MaxFiles = 3
    MaxLines = 2
    Limit = 1
    MaxKept = 2
    Inode = {i1, i2, i3}
    Reuse = FALSE
    MaxFaults = 1
    Event = {e1}
    Loop = {l1, l2}
    MaxTime = 2
    MaxFailures = 2
CHECK_DEADLOCK FALSE
INVARIANTS
    TypeOK
    MonitorTypeOK
    CommitBeforeCheckpoint
    NoGaps
    NoGap
PROPERTIES
    LinesArrive
    EventFound
