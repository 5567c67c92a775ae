\* Conditional mining frees the kernel of a throttled thread.
SPECIFICATION Spec
CONSTANTS
    N = 2
    Configured = {0}
    Default = 4
    MinThroughput = 1
    CoolTicks = 2
    Heated = {1}
    Failing = {0, 1}
    NotThrottled = none
    MaxLoops = 2
    Conditional = {1}
INVARIANTS BuffersSuffice
CHECK_DEADLOCK FALSE
