SPECIFICATION FairSpec
CONSTANTS
    NumTx = 1
    Rows = 1
    MaxLsn = 3
    CommitLsn <- MCCommitLsn
    EndLsn <- MCEndLsn
    Owned <- MCOwned
PROPERTIES
    
    ShutdownEnds
    CatchupEnds
