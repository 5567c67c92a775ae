\* The node restarts before a block is submitted.
SPECIFICATION Spec
CONSTANTS
    Tpls = {t1, t2, t3, t4}
    Jobs = {1, 2, 3, 4, 5}
    Miners = {m1}
    None = none
    Ring = 3
    IdMod = 6
    RefreshAge = 1
    HardMax = 2
    AllocFails = TRUE
    MaxExtra = 3
    MaxTip = 1
    MaxCookie = 1
    MaxFound = 1
PROPERTIES GivesUpInformed
