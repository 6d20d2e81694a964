\* Steps 2 and 3 in a row: three alerts at any of four distances, and graphs
\* from elsewhere.  An analysis ends: deadlock is not an error.
SPECIFICATION OneSpec
CHECK_DEADLOCK FALSE
CONSTANTS
    Alert <- MCAlert
    Gap <- MCGap
    MaxEvents = 3
    None = None
    Node <- MCNode
    GivenGraph <- MCGivenGraph
    MaxPart = 3
    MaxFallback = 2
    MaxPrompt = 3
    MaxRoutes = 1
    Source <- MCSource
    Untimed <- MCUntimed
    Config <- MCConfig
    Width <- MCWidth
    Hour = 2
    Hours = 1
    Day = 2
    Zone = 1
    MaxTime = 3
    Record <- MCRecord
    Honeyfile <- MCHoneyfile
    MaxReports = 2
    ShownRow <- MCRow
    MaxShown = 4
INVARIANTS
    StepTypes
    BuiltGraphsStayWhole
    RequiredStaysReachable
    SecondPassAccepts
    NarrativeHonest
    CollectedWhole
    ActorsConnected
    EvidenceJoins
