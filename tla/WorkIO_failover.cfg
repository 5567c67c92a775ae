\* Two miner threads with two pools and failover.
SPECIFICATION FairSpec
CONSTANTS
    Miners = {0, 1}
    First = 0
    Api = api
    IO = io
    Null = null
    None = none
    Configs <- FailoverConfigs
    MaxSwitches = 1
    MaxSubmits = 1
PROPERTIES Answered
\* The run ends in a deadlock of the threads.
CHECK_DEADLOCK FALSE
