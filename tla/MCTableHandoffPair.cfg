\* Two tables share one permit; workers may fail for good.
SPECIFICATION FairSpec
CONSTANTS
    Tables <- TwoTables
    NumTx = 1
    Changes <- SharedChange
    MaxWorkers = 1
    MaxAttempts = 0
    Faults <- ManualFaults
INVARIANTS
    NoGap
PROPERTIES
    TableSettles
