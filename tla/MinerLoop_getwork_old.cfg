\* A block arrives while a getwork thread scans.
SPECIFICATION Spec
CONSTANTS
    N = 2
    MaxNonce = 8
    EndSlack = 2
    LowWater = 1
    TailSlack = 1
    Spans = {1, 9}
    Throughput = 2
    Source = "getwork"
    Governor = FALSE
    Rejecting = {}
    Headers = {h1, h2, h3, h4}
    Blank = blank
    MaxHeight = 3
    MaxQueue = 2
INVARIANTS OldBlocksDiscarded
SYMMETRY HeaderSymmetry
