\* Two miner threads with one pool and a limit.
SPECIFICATION FairSpec
CONSTANTS
    Miners = {0, 1}
    First = 0
    Api = api
    IO = io
    Null = null
    None = none
    Configs <- LimitConfigs
    MaxSwitches = 1
    MaxSubmits = 1
PROPERTIES Exits
\* A limit ends the process.
CHECK_DEADLOCK FALSE
