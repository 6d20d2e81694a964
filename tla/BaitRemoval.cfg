SPECIFICATION OneSpec
CHECK_DEADLOCK FALSE
CONSTANTS
 Alert <- MCAlert
 Puller = {t, u}
 Window = 2
 Place = {"x"}
 None = None
 MaxBatch = 2
 MaxRows = 4
 MaxFaults = 2
 Operator = {o, q}
 Reader = {r}
 Dir = {d, e}
 Default = d
 Windows <- MCWindows
 MaxAlerts = 1
 PerType = 1
 MaxRuns = 2
 MaxFile = 2
 Seedless = {1}
 Untagged = {1}
 Container = {"container", "other"}
 Request = {b1, b2}
 Unborn = Unborn
 Missing = Missing
 TornDocument = TornDocument
 Agent = {"a"}
 Deployment <- MCDeployment
 MaxLog = 3
 MaxReplay = 2
 MaxId = 2
 MaxTime = 1
 MaxVersion = 2
 MaxStarts = 3
 MaxToken = 2
INVARIANT
 RemovedIsGone
