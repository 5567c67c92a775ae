\* Two miner threads in solo mode, or one on a stratum pool or a getwork node.
SPECIFICATION LoopsSpec
CONSTANTS
    N = 2
    MaxNonce = 8
    EndSlack = 2
    LowWater = 1
    TailSlack = 1
    Spans = {1, 9}
    Throughput = 2
    Source = "solo"
    Governor = FALSE
    Rejecting = {1}
    Headers = {h1, h2, h3, h4}
    PoolHeaders = {h1, h2, h3}
    Blank = blank
    MaxHeight = 1
    MaxQueue = 2
INVARIANTS BeforeEnd InShare Once OnlySpent
PROPERTIES LeavesOld
