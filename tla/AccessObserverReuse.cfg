SPECIFICATION Spec
CONSTANTS
    MaxFiles = 3
    MaxLines = 2
    Limit = 1
    MaxKept = 2
    Inode = {i1, i2}
    Reuse = TRUE
    MaxFaults = 2
SYMMETRY Symmetry
CHECK_DEADLOCK FALSE
INVARIANTS
    CommitBeforeCheckpoint
