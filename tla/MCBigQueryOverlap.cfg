\* A copy is retried while a write of the attempt before it still runs.
SPECIFICATION MCSpec
CONSTANTS
  MaxFaults = 1
  Source <- MCSource
  MaxSequence = 3
  MaxAttempts = 2
  OverlappingRetries = {"copy"}
  LakeSource <- MCLakeSource
  MaxResets = 0
  MaxTime = 0
  Lease = 1
  MaxRuns = 0
  MaxAppends = 0
  MaxOutages = 1
  ControllerWaits = TRUE
INVARIANTS RowsAccounted
CHECK_DEADLOCK FALSE
