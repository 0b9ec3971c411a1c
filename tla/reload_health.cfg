\* A backend is swapped for another and back, with failures all along.
SPECIFICATION FairReloadSpec
CONSTANTS
    a = a
    b = b
    Addr = {a, b}
    Task = {}
    Checker = {1, 2, 3}
    Configs <- SwapConfigs
    NumWorkers = 1
    ConnLimit = NoLimit
    NoLimit = NoLimit
    UsizeMod = 2
    MaxObj = 3
    Files <- SwapFiles
    Malformed = Malformed
    RuleMissing = RuleMissing
    MaxEdits = 2
INVARIANTS
    ReloadTypeOK
    NoEditLost
    AllMonitored
PROPERTIES
    LastEditApplied
    Recovers
    DownIsDetected
