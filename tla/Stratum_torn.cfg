\* A notify comes while a miner thread makes work.
SPECIFICATION Spec
CONSTANTS
    Miners = {m1}
    MaxJob = 2
    HeightOf <- Heights
    NTimeOf <- NTimes
    Xnonce1s = {1}
    MaxXnonce2 = 2
    Diffs = {1, 2}
    Nonces = {5}
    MaxConns = 1
    MaxSubmits = 1
PROPERTIES AlwaysDueDiff
CHECK_DEADLOCK FALSE
