\* Two miner threads with one or two pools, switched by hand or not.
SPECIFICATION FairSpec
CONSTANTS
    Miners = {0, 1}
    First = 0
    Api = api
    IO = io
    Null = null
    None = none
    Configs <- PassConfigs
    MaxSwitches = 1
    MaxSubmits = 1
INVARIANTS OneAnswerEach
PROPERTIES AnsweredAlone MinersSurvive WorkioEnds
\* A limit ends the process.
CHECK_DEADLOCK FALSE
