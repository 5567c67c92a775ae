\* A miner thread makes work while the connection breaks.
SPECIFICATION Spec
CONSTANTS
    Miners = {m1}
    MaxJob = 1
    HeightOf <- Heights
    NTimeOf <- NTimes
    Xnonce1s = {1}
    MaxXnonce2 = 1
    Diffs = {1}
    Nonces = {5}
    MaxConns = 2
    MaxSubmits = 1
INVARIANTS NeverWithoutJob
CHECK_DEADLOCK FALSE
