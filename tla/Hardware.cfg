\* Two cards, one of which gets hot; both may fail to answer, and the thread of
\* the cool one meets limits of conditional mining.
SPECIFICATION FairSpec
CONSTANTS
    N = 2
    Configured = {0}
    Default = 4
    MinThroughput = 1
    CoolTicks = 2
    Heated = {1}
    Failing = {0, 1}
    NotThrottled = none
    MaxLoops = 2
    Conditional = {0}
INVARIANTS NothingLost
PROPERTIES RestoreOnlyCool Restores SampledAgain EndsUnlessMissed
CHECK_DEADLOCK FALSE
