SPECIFICATION FairSpec
CONSTANTS
    Task = {t1, t2}
    PassAt = 1
    Settings = {s1}
    Runtime = {v1}
    NoManifest = NoManifest
    TornManifest = TornManifest
    NoSummary = NoSummary
    RunMode = "evolve"
    Workers = 2
    TasksPerProcess = 1
    InfraRetries = 1
    MaxPoolRebuilds = 1
    RunAllModes = {FALSE}
    MaxStarts = 2
    MaxAppendErrors = 1
CHECK_DEADLOCK FALSE
INVARIANT NoEpisodeVanishes
PROPERTIES SuiteTerminates ImplementsLedger
