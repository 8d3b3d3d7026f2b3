SPECIFICATION Spec
CONSTANTS
    NumTx = 2
    Rows = 1
    MaxLsn = 5
    CommitLsn <- MCCommitLsn
    EndLsn <- MCEndLsn
    Owned <- MCOwned
INVARIANTS
    TypeOK
    NothingDropped
    NoLoss
    SyncDoneIsGapFree
    WaitingWorkIsArmed
    CarriedCommitSettles
