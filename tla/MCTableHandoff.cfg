\* Safety of the handoff of one table through every failure.
SPECIFICATION Spec
CONSTANTS
    Tables <- OneTable
    NumTx = 3
    Changes <- OneTableChanges
    MaxWorkers = 1
    MaxAttempts = 1
    Faults <- AllFaults
INVARIANTS
    NoGap
    NoStaleReplay
    DecoderAvailable
