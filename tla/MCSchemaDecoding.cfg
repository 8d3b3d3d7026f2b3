SPECIFICATION MCSpec
CONSTANTS
    \* Decoding: three transactions, two connections or relation caches lost.
    Shapes <- MCShapes
    NumTx = 3
    Adjacent = FALSE
    MaxCached = 2
    QueueCap = 1
    MaxBreaks = 2
    \* The slot: four positions, two failures between any two calls.
    t1 = t1
    t2 = t2
    Tables = {t1, t2}
    Recreate = TRUE
    MaxLsn = 4
    MaxFaults = 2
INVARIANTS
     NoDecodeFailure EndpointsRetained
     CheckpointOfThisSlot
SYMMETRY Symmetry
CHECK_DEADLOCK FALSE
