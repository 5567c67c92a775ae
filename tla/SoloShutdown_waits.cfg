\* solo_shutdown falls into a wait of the workio thread: for a command, for
\* getblocktemplate, submitblock or getbestblockhash.
SPECIFICATION ExitSpec
CONSTANTS
    Tpls = {t1, t2, t3, t4}
    Jobs = {1, 2, 3, 4}
    Miners = {m1}
    None = none
    Ring = 2
    IdMod = 4
    RefreshAge = 1
    HardMax = 2
    AllocFails = FALSE
    MaxExtra = 2
    MaxTip = 1
    MaxCookie = 0
    MaxFound = 1
    Overlap = FALSE
INVARIANTS NothingFreedTouched CountsSettle
CHECK_DEADLOCK FALSE
