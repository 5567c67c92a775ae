\* Two poppers race (miner thread 0 and pool_switch share one queue), with
\* freezing and spurious wake-ups.
SPECIFICATION FairSpec
CONSTANTS
    Poppers = {p1, p2}
    Data = {work, NULL}
    MaxPush = 3
    SpuriousWakeups = TRUE
    CanFreeze = TRUE
INVARIANTS NothingLost NoLostWakeup
PROPERTIES EveryEntryTaken IsChannel
