SPECIFICATION MCSpec
CONSTANTS
    \* The copy: two workers, two partitions of two batches, or an empty table.
    Workers = {w1, w2}
    Parts = {p1, p2}
    Batches = 2
    MaxAttempts = 2
    MaxFaults = 2
    \* The plan: every size of two leaf tables.
    Leaves = {l1, l2}
    MaxBlocks = 5
    MaxRows = 9
    MaxConnections = 3
    PerWorker = 2
    RowsPerPartition = 2
    MaxPartitions = 5
    \* The stream: batches of at most two of three items, three transitions.
    Streams = {s1}
    NumItems = 3
    MaxBatch = 2
    MaxFlips = 3
    \* The governor: an apply loop and two copies, limits below the host's.
    Producers = {"apply", "copy1", "copy2"}
    HostTotal = 24
    Limits = {8, 16}
    RatioDen = 2
    MaxTarget = 5
    MaxRevision = 3
INVARIANTS
    CopyIsExact EveryBlockOnce NothingHeldBack BudgetFollowsCapacity
PROPERTIES
    CopyEnds PausedStreamResumes BufferIsFlushed
CHECK_DEADLOCK FALSE
