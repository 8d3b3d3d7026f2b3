\* Liveness of the handoff of one table: its worker fails and is retried.
SPECIFICATION FairSpec
CONSTANTS
    Tables <- OneTable
    NumTx = 2
    Changes <- TwoChanges
    MaxWorkers = 1
    MaxAttempts = 1
    Faults <- WorkerFaults
PROPERTIES
    CatchupWaitEnds
    TableSettles
