\* solo_shutdown may fall between any two steps of the workio thread.
SPECIFICATION ExitSpec
CONSTANTS
    Tpls = {t1, t2, t3, t4}
    Jobs = {1, 2, 3, 4}
    Miners = {m1}
    None = none
    Ring = 2
    IdMod = 4
    RefreshAge = 1
    HardMax = 2
    AllocFails = FALSE
    MaxExtra = 2
    MaxTip = 1
    MaxCookie = 0
    MaxFound = 1
    Overlap = TRUE
INVARIANTS NothingFreedTouched
CHECK_DEADLOCK FALSE
