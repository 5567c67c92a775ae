\* Two stratum pools, switched by the API and by the stratum thread.
SPECIFICATION FairSpec
CONSTANTS
    Pools = {p1, p2}
    First = p1
    None = none
    Handles = {1, 2, 3, 4, 5}
    Switchers = {api, stratum}
    StratumThread = stratum
    MaxSwitches = 2
INVARIANTS TypeOK CalmSwitchLands CalmWorkIsCurrent
PROPERTIES Follows CalmSwitchEnds
CHECK_DEADLOCK FALSE
