\* Two tables: multi-table transactions, resets and history chains; a long
\* schema history of one of them; and the in-memory store.
CONSTANTS
    t1 = t1
    t2 = t2
    Tables = {t1, t2}
    States = {"init", "ready"}
    InitState = "init"
    Lsns = {1}
    Snapshots = {1, 2, 3}
    Metas = {"applied"}
    Absent = Absent
    MaxCached = 2
    MaxRows = 4
    MaxHistory = 2
SPECIFICATION MCSpec
INVARIANTS RowChains CacheCoherent LatestSchemaCached
SYMMETRY Symmetry
PROPERTIES StoresImplementContract
CHECK_DEADLOCK FALSE
