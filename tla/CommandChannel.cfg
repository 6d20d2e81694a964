SPECIFICATION OneSpec
CONSTANTS
    Cmd = {c1, c2}
    Stream = {s1, s2}
    MaxFaults = 1
    Beat = Beat
    NoCmd = NoCmd
    NoStream = NoStream
CHECK_DEADLOCK FALSE
INVARIANTS
    TypeOK
    AtMostOnce
    RowTellsTheTruth
    OneLiveReceiver
PROPERTIES
    SettledDelivers
    StatusHeals
    DeliverySpec
