---------------------------- MODULE MaintenancePause ----------------------------
(***************************************************************************)
(* DuckLake maintenance and the foreground writes it excludes.             *)
(*                                                                         *)
(* Writes share the checkpoint gate and copy sessions share the session    *)
(* gate; maintenance takes both alone, the session gate first.  Two run    *)
(* maintenance: the host, inside the process, and a controller outside,    *)
(* through a pause lease that the watcher polls, quiesces for, reports on  *)
(* and ends.  After a controller's run the pools' connections are stale.   *)
(***************************************************************************)
EXTENDS Integers, FiniteSets, Sequences, SequencesExt, FiniteSetsExt

CONSTANTS
  MaxTime,      \* bound: the clock
  Lease,        \* the length of a pause lease
  MaxRuns,      \* bound: runs of the controller
  MaxAppends,   \* bound: appends of one copy session
  MaxFaults,    \* bound: outages of the store and failing pool refreshes
  ControllerWaits  \* whether the controller starts a run, or deletes the
                   \* state, only once the replicator reports Running

VARIABLES
  now,
  gate,      \* the two tokio RwLocks: who is in, who is queued
  waiters,   \* checkpoint_waiters
  stream,    \* the streaming writer: its pc
  copy,      \* the copy worker: its pc and the appends left
  host,      \* run_maintenance: its pc
  watcher,   \* run_external_maintenance_watcher: its pc and pauses
  state,     \* ExternalMaintenanceState in the coordination store
  pools,     \* the connection pools
  faults

vars == <<now, gate, waiters, stream, copy, host, watcher, state, pools, faults>>

--------------------------------------------------------------------------------
Gates == {"session", "checkpoint"}
Actors == {"stream", "copy", "host", "watcher"}
Exclusive == {"host", "watcher"}
Times == 0 .. MaxTime
NoPause == [run |-> 0, expires |-> 0]
Pauses == [run : 0 .. MaxRuns, expires : Times]
NotHeld == [run |-> 0, expires |-> 0, reported |-> FALSE, refresh |-> FALSE]

TypeOK ==
  /\ now \in Times
  /\ \A g \in Gates : gate[g].in \subseteq Actors /\ ToSet(gate[g].queue) \subseteq Actors
  /\ waiters \in 0 .. MaxRuns + 1
  /\ stream \in {"idle", "waiting", "batch"}
  /\ copy.pc \in {"idle", "opening", "open", "waiting", "appending"}
  /\ host \in {"idle", "session", "checkpoint", "running", "done"}
  /\ watcher.pc \in {"poll", "reconcile", "session", "checkpoint", "release", "report"}
  /\ watcher.pause \in Pauses
  /\ state.pause \in Pauses /\ state.successful \subseteq 1 .. MaxRuns
  /\ pools \in {"fresh", "stale", "none"}
  /\ faults \in 0 .. MaxFaults

Init ==
  /\ now = 0
  /\ gate = [g \in Gates |-> [in |-> {}, queue |-> <<>>]]
  /\ waiters = 0
  /\ stream = "idle"
  /\ copy = [pc |-> "idle", left |-> MaxAppends]
  /\ host = "idle"
  /\ watcher = [pc |-> "poll", pause |-> NoPause, held |-> NotHeld, refresh |-> FALSE]
  /\ state = [up |-> TRUE, exists |-> TRUE, pause |-> NoPause, runs |-> 0, successful |-> {},
              status |-> [state |-> "Running", run |-> 0]]
  /\ pools = "fresh"
  /\ faults = 0

Tick == now < MaxTime /\ now' = now + 1
        /\ UNCHANGED <<gate, waiters, stream, copy, host, watcher, state, pools, faults>>

--------------------------------------------------------------------------------
(* The gates: fair locks, entered at once when free and nobody waits,       *)
(* granted from the front of their queues otherwise                        *)

In(g, a) == a \in gate[g].in
CanEnter(g, a) == IF a \in Exclusive THEN gate[g].in = {} ELSE gate[g].in \cap Exclusive = {}
Queued(g, a) ==
  IF gate[g].queue = <<>> /\ CanEnter(g, a) THEN [gate EXCEPT ![g].in = @ \cup {a}]
  ELSE [gate EXCEPT ![g].queue = Append(@, a)]
Left(gs, a) == [g \in Gates |-> IF g \in gs THEN [gate[g] EXCEPT !.in = @ \ {a}] ELSE gate[g]]

Grant(g) ==
  LET a == Head(gate[g].queue)
  IN  /\ gate[g].queue # <<>>
      /\ CanEnter(g, a)
      /\ gate' = [gate EXCEPT ![g] = [in |-> @.in \cup {a}, queue |-> Tail(@.queue)]]
      /\ UNCHANGED <<now, waiters, stream, copy, host, watcher, state, pools, faults>>

--------------------------------------------------------------------------------
(* Foreground: a sequence of streaming batches and a buffered table copy *)

\* Variant: a write sequence keeps its gate until its last batch.
NeverYields == FALSE

\* yield_to_waiting_maintenance.
ShouldYield == waiters # 0

\* While nobody waits, one committed batch follows another under the gate.
StreamStep ==
  /\ \/ stream = "idle" /\ stream' = "waiting" /\ gate' = Queued("checkpoint", "stream")
     \/ stream = "waiting" /\ In("checkpoint", "stream") /\ stream' = "batch" /\ UNCHANGED gate
     \/ /\ stream = "batch" /\ ShouldYield
        /\ stream' = "waiting"
        /\ gate' = [Left({"checkpoint"}, "stream")
                      EXCEPT !["checkpoint"].queue = Append(@, "stream")]
  /\ UNCHANGED <<now, waiters, copy, host, watcher, state, pools, faults>>

\* The sequence has no further batch.
StreamEnds ==
  /\ stream = "batch" /\ stream' = "idle"
  /\ gate' = Left({"checkpoint"}, "stream")
  /\ UNCHANGED <<now, waiters, copy, host, watcher, state, pools, faults>>

\* A session lives until its copy's barrier; each append enters the checkpoint
\* gate for the table's settings.
CopyStep ==
  /\ \/ /\ copy.pc = "idle" /\ copy.left > 0
        /\ copy' = [copy EXCEPT !.pc = "opening"] /\ gate' = Queued("session", "copy")
     \/ /\ copy.pc = "opening" /\ In("session", "copy")
        /\ copy' = [copy EXCEPT !.pc = "open"] /\ UNCHANGED gate
     \/ /\ copy.pc = "open" /\ copy.left > 0
        /\ copy' = [copy EXCEPT !.pc = "waiting"] /\ gate' = Queued("checkpoint", "copy")
     \/ /\ copy.pc = "waiting" /\ In("checkpoint", "copy")
        /\ copy' = [copy EXCEPT !.pc = "appending"] /\ UNCHANGED gate
     \/ /\ copy.pc = "appending"
        /\ copy' = [pc |-> "open", left |-> copy.left - 1]
        /\ gate' = Left({"checkpoint"}, "copy")
     \/ /\ copy.pc = "open" /\ copy.left = 0
        /\ copy' = [copy EXCEPT !.pc = "idle"] /\ gate' = Left({"session"}, "copy")
  /\ UNCHANGED <<now, waiters, stream, host, watcher, state, pools, faults>>

--------------------------------------------------------------------------------
(* acquire_external_maintenance_pause, for the host *)

HostStep ==
  /\ \/ host = "idle" /\ host' = "session" /\ gate' = Queued("session", "host") /\ UNCHANGED waiters
     \/ /\ host = "session" /\ In("session", "host")
        /\ host' = "checkpoint"
        /\ waiters' = waiters + 1
        /\ gate' = Queued("checkpoint", "host")
     \/ /\ host = "checkpoint" /\ In("checkpoint", "host")
        /\ host' = "running"
        /\ waiters' = waiters - 1
        /\ UNCHANGED gate
     \/ host = "running" /\ host' = "done" /\ gate' = Left(Gates, "host") /\ UNCHANGED waiters
  /\ UNCHANGED <<now, stream, copy, watcher, state, pools, faults>>

--------------------------------------------------------------------------------
(* The controller, outside the repository: leases, runs and their results *)

ControllerReady == ControllerWaits => state.status.state = "Running"

\* The clock outlives every lease.
RequestPause ==
  /\ state.exists /\ state.runs < MaxRuns /\ ControllerReady
  /\ now + Lease <= MaxTime
  /\ state' = [state EXCEPT !.runs = @ + 1,
                            !.pause = [run |-> state.runs + 1, expires |-> now + Lease]]
  /\ UNCHANGED <<now, gate, waiters, stream, copy, host, watcher, pools, faults>>

\* The run does its work within its lease, once the replicator is quiesced for
\* it; the result is recorded and the lease cleared at once.
RunSucceeds ==
  /\ state.exists /\ state.pause.run # 0 /\ now < state.pause.expires
  /\ state.status = [state |-> "Quiesced", run |-> state.pause.run]
  /\ state' = [state EXCEPT !.successful = @ \cup {state.pause.run}, !.pause = NoPause]
  /\ pools' = IF pools = "none" THEN pools ELSE "stale"
  /\ UNCHANGED <<now, gate, waiters, stream, copy, host, watcher, faults>>

StateDeleted ==
  /\ state.exists /\ ControllerReady
  /\ state' = [state EXCEPT !.exists = FALSE]
  /\ UNCHANGED <<now, gate, waiters, stream, copy, host, watcher, pools, faults>>

--------------------------------------------------------------------------------
(* The watcher *)

Holds == watcher.held # NotHeld

\* bounded_active_pause_request: the lease in force.
bounded_active_pause_request == state.pause.run # 0 /\ state.pause.expires > now

\* A report is lost while the store cannot be reached; the watcher goes on.
Report(status, run) ==
  state' = IF state.up THEN [state EXCEPT !.status = [state |-> status, run |-> run]] ELSE state

StoreGoesDown ==
  /\ state.up /\ faults < MaxFaults
  /\ state' = [state EXCEPT !.up = FALSE]
  /\ faults' = faults + 1
  /\ UNCHANGED <<now, gate, waiters, stream, copy, host, watcher, pools>>

StoreReturns ==
  /\ ~state.up
  /\ state' = [state EXCEPT !.up = TRUE]
  /\ UNCHANGED <<now, gate, waiters, stream, copy, host, watcher, pools, faults>>

\* successful_maintenance_run.
RefreshNeeded == watcher.held.refresh \/ watcher.held.run \in state.successful

\* One load of the state.  A pause that is no longer in force is released; one
\* of another run replaces the pause held.
Poll ==
  /\ watcher.pc = "poll" /\ state.up
  /\ \/ /\ state.exists /\ bounded_active_pause_request
        /\ watcher.held.run # state.pause.run
        /\ watcher' = [watcher EXCEPT
             !.pc = IF Holds THEN "release" ELSE "reconcile",
             !.pause = state.pause, !.held.refresh = Holds /\ RefreshNeeded]
     \/ /\ Holds /\ ~(state.exists /\ bounded_active_pause_request)
        /\ watcher' = [watcher EXCEPT !.pc = "release", !.pause = NoPause,
             !.held.refresh = IF state.exists THEN RefreshNeeded ELSE @]
  /\ UNCHANGED <<now, gate, waiters, stream, copy, host, state, pools, faults>>

\* Variant: an unavailable store keeps the pause as it is.
KeepsExpired == FALSE

HeldHasExpired == Holds /\ watcher.held.expires <= now

\* The load fails: only the clock can end the pause, and the outcome of the run
\* is unknown.
PollFails ==
  /\ watcher.pc = "poll" /\ ~state.up /\ HeldHasExpired
  /\ watcher' = [watcher EXCEPT !.pc = "release", !.pause = NoPause, !.held.refresh = TRUE]
  /\ UNCHANGED <<now, gate, waiters, stream, copy, host, state, pools, faults>>

\* The quiesced report of the pause held is repeated until it arrives.
ReportAgain ==
  /\ watcher.pc = "poll" /\ Holds /\ ~watcher.held.reported
  /\ state.up /\ state.exists /\ bounded_active_pause_request /\ watcher.held.run = state.pause.run
  /\ state' = [state EXCEPT !.status = [state |-> "Quiesced", run |-> watcher.held.run]]
  /\ watcher' = [watcher EXCEPT !.held.reported = TRUE]
  /\ UNCHANGED <<now, gate, waiters, stream, copy, host, pools, faults>>

\* refresh_pools_if_required, under the pause.
RefreshPools ==
  /\ watcher.pc = "release" /\ watcher.pause = NoPause /\ watcher.held.refresh
  /\ \/ pools' = "fresh" /\ watcher' = [watcher EXCEPT !.held.refresh = FALSE] /\ UNCHANGED faults
     \/ /\ faults < MaxFaults /\ faults' = faults + 1
        /\ pools' = "none"
        /\ watcher' = [watcher EXCEPT !.pc = "poll"]
  /\ UNCHANGED <<now, gate, waiters, stream, copy, host, state>>

\* Variant: the pools of the run that ended are used again.
ReleasesAtOnce == TRUE

ReadyToRelease == watcher.pause # NoPause \/ ~watcher.held.refresh

\* release_held_pause; a replaced pause passes its refresh on.
ReleasePause ==
  /\ watcher.pc = "release" /\ ReadyToRelease
  /\ gate' = Left(Gates, "watcher")
  /\ watcher' = [watcher EXCEPT !.pc = "report", !.held = NotHeld,
                                !.refresh = watcher.pause # NoPause /\ watcher.held.refresh]
  /\ UNCHANGED <<now, waiters, stream, copy, host, state, pools, faults>>

ReportRunning ==
  /\ watcher.pc = "report"
  /\ Report("Running", 0)
  /\ watcher' = [watcher EXCEPT !.pc = IF watcher.pause = NoPause THEN "poll" ELSE "reconcile"]
  /\ UNCHANGED <<now, gate, waiters, stream, copy, host, pools, faults>>

\* report_pausing, then acquire_external_maintenance_pause within the lease.
StartPause ==
  /\ watcher.pc = "reconcile"
  /\ Report("Pausing", watcher.pause.run)
  /\ watcher' = [watcher EXCEPT !.pc = "session"]
  /\ gate' = Queued("session", "watcher")
  /\ UNCHANGED <<now, waiters, stream, copy, host, pools, faults>>

SessionsDrained ==
  /\ watcher.pc = "session" /\ In("session", "watcher")
  /\ waiters' = waiters + 1
  /\ gate' = Queued("checkpoint", "watcher")
  /\ watcher' = [watcher EXCEPT !.pc = "checkpoint"]
  /\ UNCHANGED <<now, stream, copy, host, state, pools, faults>>

\* Quiesced: the pause is held, or released at once if its lease has run out.
Quiesce ==
  /\ watcher.pc = "checkpoint" /\ In("checkpoint", "watcher")
  /\ waiters' = waiters - 1
  /\ IF watcher.pause.expires <= now
     THEN /\ gate' = Left(Gates, "watcher")
          /\ watcher' = [watcher EXCEPT !.pc = "report", !.pause = NoPause, !.refresh = FALSE]
          /\ UNCHANGED state
     ELSE /\ Report("Quiesced", watcher.pause.run)
          /\ watcher' = [pc |-> "poll", pause |-> NoPause, refresh |-> FALSE,
                         held |-> [run |-> watcher.pause.run, expires |-> watcher.pause.expires,
                                   reported |-> state.up, refresh |-> watcher.refresh]]
          /\ UNCHANGED gate
  /\ UNCHANGED <<now, stream, copy, host, pools, faults>>

\* The timeout drops the acquisition wherever it waits: its places in the
\* queues and its guards go with it, the count of waiters does not.
PauseTimesOut ==
  /\ watcher.pc \in {"session", "checkpoint"} /\ watcher.pause.expires <= now
  /\ ~In("checkpoint", "watcher")
  /\ gate' = [g \in Gates |-> [in |-> gate[g].in \ {"watcher"},
                               queue |-> SelectSeq(gate[g].queue, LAMBDA b : b # "watcher")]]
  /\ watcher' = [watcher EXCEPT !.pc = "report", !.pause = NoPause, !.refresh = FALSE]
  /\ UNCHANGED <<now, waiters, stream, copy, host, state, pools, faults>>

WatcherStep ==
  \/ Poll \/ PollFails \/ ReportAgain \/ RefreshPools \/ ReleasePause \/ ReportRunning
  \/ StartPause \/ SessionsDrained \/ Quiesce \/ PauseTimesOut

--------------------------------------------------------------------------------
Next ==
  \/ Tick
  \/ \E g \in Gates : Grant(g)
  \/ StreamStep \/ StreamEnds \/ CopyStep \/ HostStep
  \/ RequestPause \/ RunSucceeds \/ StateDeleted \/ StoreGoesDown \/ StoreReturns
  \/ WatcherStep

\* The locks grant, tasks run on, the clock advances.  A sequence of streaming
\* batches need not end, the controller need do nothing, and the store may
\* stay out of reach.
Fairness ==
  /\ WF_vars(Tick)
  /\ \A g \in Gates : WF_vars(Grant(g))
  /\ WF_vars(StreamStep)
  /\ WF_vars(CopyStep)
  /\ WF_vars(HostStep)
  /\ WF_vars(WatcherStep)

Spec == Init /\ [][Next]_vars /\ Fairness

--------------------------------------------------------------------------------
\* Host maintenance that waits gets its turn, however long a write sequence
\* goes on and whatever copy session is open (acquire_external_maintenance_pause,
\* CheckpointLease::yield_to_waiting_maintenance).
MaintenanceRuns == host = "session" ~> host = "running"

\* A write that waits for the gate gets it: a pause ends with its run, its
\* lease or its state, store or no store (release_expired_pause_if_needed).
WritesResume == stream = "waiting" ~> stream = "batch"

\* No write runs on connections opened before a run that changed the lake
\* underneath them (HeldPause::pool_refresh_required,
\* recreate_pools_after_external_maintenance).
FreshPools == stream = "batch" \/ copy.pc = "appending" => pools # "stale"
================================================================================
