\* The template registry while blocks are submitted, templates refreshed, and
\* fetches and allocations fail.
SPECIFICATION Spec
CONSTANTS
    Tpls = {t1, t2, t3, t4}
    Jobs = {1, 2, 3, 4, 5}
    Miners = {m1}
    None = none
    Ring = 3
    IdMod = 6
    RefreshAge = 1
    HardMax = 1
    AllocFails = FALSE
    MaxExtra = 2
    MaxTip = 1
    MaxCookie = 0
    MaxFound = 1
INVARIANTS NoUseAfterFree RefsExact NoDrift RecentKept UniqueExtra CountsOnlyKept
PROPERTIES MovesOn
