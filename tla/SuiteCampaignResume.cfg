SPECIFICATION Spec
CONSTANTS
    Task = {t1, t2}
    PassAt = 2
    Settings = {s1}
    Runtime = {v1, v2}
    NoManifest = NoManifest
    TornManifest = TornManifest
    NoSummary = NoSummary
    RunMode = "frozen"
    Workers = 1
    TasksPerProcess = 4
    InfraRetries = 0
    MaxPoolRebuilds = 1
    RunAllModes = {FALSE}
    MaxStarts = 2
    MaxAppendErrors = 0
CHECK_DEADLOCK FALSE
SYMMETRY TaskSymmetry
INVARIANTS  OneConfiguration
PROPERTIES FinishedRunAudits CompleteIsFinal
