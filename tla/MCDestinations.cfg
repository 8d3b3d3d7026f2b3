SPECIFICATION MCSpec
CONSTANTS
  MaxFaults = 2
  \* BigQuery: two copies, rows around a truncate and a schema change.
  Source <- MCSource
  MaxSequence = 2
  MaxAttempts = 2
  OverlappingRetries = {}
  \* DuckLake: a reset, and tasks that outlive the attempt that sent them.
  LakeSource <- MCLakeSource
  MaxResets = 1
  \* Maintenance: two runs of the controller and leases that expire.
  MaxTime = 2
  Lease = 1
  MaxRuns = 2
  MaxAppends = 1
  MaxOutages = 1
  ControllerWaits = TRUE
INVARIANTS
  RowsAccounted ViewIsCurrent WritesFitTheTable
   
PROPERTIES
   MaintenanceRuns WritesResume
CHECK_DEADLOCK FALSE
