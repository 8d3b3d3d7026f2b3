\* A worker error that cannot be stored.
SPECIFICATION FairSpec
CONSTANTS
    Tables <- OneTable
    NumTx = 1
    Changes <- OneChange
    MaxWorkers = 1
    MaxAttempts = 0
    Faults <- UnpersistedFaults
PROPERTIES
    CatchupWaitEnds
\* The stall itself is what the property is about.
CHECK_DEADLOCK FALSE
