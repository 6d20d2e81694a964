SPECIFICATION MonitorSpec
CONSTANTS
    Event = {e1, e2}
    Loop = {l1}
    MaxTime = 2
    MaxFailures = 0
SYMMETRY Symmetry
CHECK_DEADLOCK FALSE
INVARIANT
    HandledReported
