\* The thermal governor raises the restart flags during a solo scan.
SPECIFICATION Spec
CONSTANTS
    N = 2
    MaxNonce = 8
    EndSlack = 2
    LowWater = 1
    TailSlack = 1
    Spans = {1, 9}
    Throughput = 2
    Source = "solo"
    Governor = TRUE
    Rejecting = {}
    Headers = {h1, h2, h3, h4}
    Blank = blank
    MaxHeight = 1
    MaxQueue = 2
INVARIANTS DropsOnlySpent
SYMMETRY HeaderSymmetry
