\* The node restarts with a new cookie and its tip moves, while calls and
\* allocations fail.
SPECIFICATION FairSpec
CONSTANTS
    Tpls = {t1, t2, t3, t4}
    Jobs = {1, 2, 3}
    Miners = {}
    None = none
    Ring = 2
    IdMod = 4
    RefreshAge = 1
    HardMax = 1
    AllocFails = TRUE
    MaxExtra = 2
    MaxTip = 1
    MaxCookie = 1
    MaxFound = 0
PROPERTIES Served FollowsTip
