---------------------------- MODULE MCDestinations ----------------------------
(***************************************************************************)
(* The destinations in one instance: a table in BigQuery, a table in       *)
(* DuckLake, and the gates between DuckLake's writes and its maintenance.  *)
(* The parts share no state; in a behaviour one of them moves.             *)
(***************************************************************************)
EXTENDS BigQueryDestination

CONSTANTS
  LakeSource, MaxResets,
  MaxTime, Lease, MaxRuns, MaxAppends, MaxOutages, ControllerWaits

ASSUME LakeAssumption ==
  /\ LakeSource \in Seq({"row", "truncate", "relation"})
  /\ MaxFaults \in Nat /\ MaxResets \in Nat

ASSUME LeaseAssumption == Lease \in Nat

VARIABLES
  part,
  lake, epoch, lakeMeta, cache, slot, lakeRun, lakeCopy, lakeWorker, lakeFaults,
  now, gate, waiters, stream, copy, host, watcher, state, pools, pauseFaults

lakeVars == <<lake, epoch, lakeMeta, cache, slot, lakeRun, lakeCopy, lakeWorker, lakeFaults>>
pauseVars == <<now, gate, waiters, stream, copy, host, watcher, state, pools, pauseFaults>>

Lake == INSTANCE DuckLakeReplay WITH
  Source <- LakeSource, OverlappingRetries <- {"stream"},
  meta <- lakeMeta, run <- lakeRun, copy <- lakeCopy, worker <- lakeWorker, faults <- lakeFaults

Pause == INSTANCE MaintenancePause WITH MaxFaults <- MaxOutages, faults <- pauseFaults

MCSource == <<"row", "row", "truncate", "row", "relation", "row">>
MCLakeSource == <<"row", "relation", "row">>

MCInit ==
  /\ part \in {"bigquery", "ducklake", "maintenance"}
  /\ Init /\ Lake!Init /\ Pause!Init
  /\ part # "ducklake" => ~lakeCopy.buffered

MCNext ==
  \/ part = "bigquery" /\ Next /\ UNCHANGED <<part, lakeVars, pauseVars>>
  \/ part = "ducklake" /\ Lake!Next /\ UNCHANGED <<part, vars, pauseVars>>
  \/ part = "maintenance" /\ Pause!Next /\ UNCHANGED <<part, vars, lakeVars>>

\* The fairness of DuckLakeReplay and of MaintenancePause.
MCFairness ==
  /\ \A x \in {"cur", "old"} : WF_lakeVars(part = "ducklake" /\ Lake!TaskStep(x))
  /\ WF_lakeVars(part = "ducklake" /\ Lake!WorkerStep)
  /\ WF_pauseVars(part = "maintenance" /\ Pause!Tick)
  /\ \A g \in Pause!Gates : WF_pauseVars(part = "maintenance" /\ Pause!Grant(g))
  /\ WF_pauseVars(part = "maintenance" /\ Pause!StreamStep)
  /\ WF_pauseVars(part = "maintenance" /\ Pause!CopyStep)
  /\ WF_pauseVars(part = "maintenance" /\ Pause!HostStep)
  /\ WF_pauseVars(part = "maintenance" /\ Pause!WatcherStep)

MCSpec == MCInit /\ [][MCNext]_<<part, vars, lakeVars, pauseVars>> /\ MCFairness

--------------------------------------------------------------------------------
\* A copied DuckLake table holds every row of the source at one position, and
\* each of them once (apply_table_batch_with_retry, read_table_replay_cursor).
AppliedOnce == Lake!AppliedOnce

\* Once faults stop, a DuckLake table reaches the end of the source
\* (prepare_tables_after_restart, ensure_table_ready_for_streaming_schema).
CatchesUp == part = "ducklake" => Lake!CatchesUp

\* Host maintenance that waits gets its turn, however long a write sequence
\* goes on (CheckpointLease::yield_to_waiting_maintenance).
MaintenanceRuns == Pause!MaintenanceRuns

\* A write that waits for the gate gets it, store or no store
\* (release_expired_pause_if_needed).
WritesResume == Pause!WritesResume

\* No write runs on connections opened before a run that changed the lake
\* underneath them (HeldPause::pool_refresh_required).
FreshPools == Pause!FreshPools
================================================================================
