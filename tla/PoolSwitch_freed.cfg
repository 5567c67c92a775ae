\* One switch, at any time.
SPECIFICATION Spec
CONSTANTS
    Pools = {p1, p2}
    First = p1
    None = none
    Handles = {1, 2, 3, 4, 5}
    Switchers = {api, stratum}
    StratumThread = stratum
    MaxSwitches = 1
INVARIANTS SurvivesSwitch
