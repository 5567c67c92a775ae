\* One miner thread, a pool that is lost once or gives a new xnonce1.
SPECIFICATION Spec
CONSTANTS
    Miners = {m1}
    MaxJob = 2
    HeightOf <- Heights
    NTimeOf <- NTimes
    Xnonce1s = {1, 2}
    MaxXnonce2 = 1
    Diffs = {1, 2}
    Nonces = {0, 5}
    MaxConns = 2
    MaxSubmits = 2
PROPERTIES NoShareTwice DueDiff HeadersDiffer
CONSTRAINT OnePurpose
\* A process that used a freed job is gone.
CHECK_DEADLOCK FALSE
