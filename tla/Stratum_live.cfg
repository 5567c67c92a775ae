\* One miner thread that finds two shares; xnonce2 wraps at once.
SPECIFICATION FairSpec
CONSTANTS
    Miners = {m1}
    MaxJob = 2
    HeightOf <- Heights
    NTimeOf <- NTimes
    Xnonce1s = {1}
    MaxXnonce2 = 0
    Diffs = {1}
    Nonces = {5}
    MaxConns = 2
    MaxSubmits = 2
PROPERTIES Installs Reconnects Settled
\* A process that used a freed job is gone.
CHECK_DEADLOCK FALSE
