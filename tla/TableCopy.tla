------------------------------- MODULE TableCopy -------------------------------
(***************************************************************************)
(* The initial copy of one table (crates/etl/src/replication/table_sync/   *)
(* mod.rs and copy.rs): attempts that drop what an earlier one left, copy  *)
(* workers that claim partitions from a shared queue and write batches,    *)
(* and the durability barrier before FinishedCopy.  A worker may fail, the *)
(* slot may be invalidated, the process may be told to stop or crash, with *)
(* writes of other workers on their way to the destination.                *)
(*                                                                         *)
(* The destination is the contract of crates/etl/src/destination/base.rs:  *)
(* a write lands when the destination pleases, accepted or durable; drop   *)
(* fences the writes of earlier attempts; a batch ID seen before is not    *)
(* written again.                                                          *)
(***************************************************************************)
EXTENDS Naturals, FiniteSets

CONSTANTS
    Workers,
    Parts,          \* planned partitions
    Batches,        \* batches of a partition: 1..Batches
    MaxAttempts,    \* bound: copy attempts
    MaxFaults       \* bound: crashes, failures, invalidations

ASSUME CopyAssumption ==
    /\ IsFiniteSet(Workers) /\ Workers # {} /\ IsFiniteSet(Parts)
    /\ Batches \in Nat /\ MaxAttempts \in Nat \ {0} /\ MaxFaults \in Nat

VARIABLES
    phase,      \* of the table-sync worker
    state,      \* stored table state: Init, DataSync or FinishedCopy
    attempt,    \* table-copy attempt ID
    seq,        \* next_sequence of the batch ID generator
    plan,       \* the partitions planned, none for an empty table
    queue,      \* partitions not claimed
    worker,     \* copy workers
    total,      \* progress merged so far
    rows,       \* what the destination holds
    seen,       \* batch IDs the destination has written
    flying,     \* writes on their way, of this attempt and of earlier ones
    metadata,   \* destination table metadata exists
    stopping,   \* shutdown requested
    faults

vars == <<phase, state, attempt, seq, plan, queue, worker, total, rows, seen, flying, metadata,
          stopping, faults>>

None == 0
NoProgress == [rows |-> 0, barrier |-> FALSE]
Idle == [at |-> "idle", part |-> None, batch |-> 0, progress |-> NoProgress]

Merge(p, q) == [rows |-> p.rows + q.rows, barrier |-> p.barrier \/ q.barrier]

Init ==
    /\ phase = "start" /\ state = "init" /\ attempt = 0 /\ seq = 0
    /\ plan = {} /\ queue = {} /\ worker = [w \in Workers |-> Idle] /\ total = NoProgress
    /\ rows = {} /\ seen = {} /\ flying = {} /\ metadata = FALSE
    /\ stopping = FALSE /\ faults = 0

-----------------------------------------------------------------------------
(* start_table_sync: what an earlier attempt left is dropped, if metadata  *)
(* says there was one.                                                     *)

(* The destination's promise for drop_table_for_copy. *)
Fenced == flying' = {}

DropTableForCopy ==
    /\ phase = "start"
    /\ IF metadata
       THEN rows' = {} /\ seen' = {} /\ Fenced
       ELSE UNCHANGED <<rows, seen, flying>>
    /\ phase' = "prepare"
    /\ UNCHANGED <<state, attempt, seq, plan, queue, worker, total, metadata, stopping, faults>>

(* prepare_table_state_for_copy and DataSync, then the slot, the exported  *)
(* snapshot, the plan and the workers.                                     *)
PrepareCopy ==
    /\ phase = "prepare"
    /\ metadata' = FALSE /\ state' = "datasync" /\ phase' = "slot"
    /\ UNCHANGED <<attempt, seq, plan, queue, worker, total, rows, seen, flying, stopping, faults>>

RunTableCopy ==
    /\ phase = "slot" /\ attempt < MaxAttempts
    /\ attempt' = attempt + 1 /\ seq' = 0 /\ total' = NoProgress
    /\ plan' \in {{}, Parts} /\ queue' = plan'
    /\ worker' = [w \in Workers |-> IF plan' = {} THEN Idle ELSE [Idle EXCEPT !.at = "claim"]]
    /\ phase' = "copying"
    /\ UNCHANGED <<state, rows, seen, flying, metadata, stopping, faults>>

-----------------------------------------------------------------------------
(* table_copy_worker *)

Copying(w, at) == phase = "copying" /\ worker[w].at = at

(* Mutant of ClaimPartition: an empty queue is waited on. *)
ClaimOrWait(w) ==
    /\ Copying(w, "claim") /\ ~ stopping
    /\ \E p \in queue :
          /\ queue' = queue \ {p}
          /\ worker' = [worker EXCEPT ![w] = [@ EXCEPT !.at = "stream", !.part = p, !.batch = 1]]
    /\ UNCHANGED <<phase, state, attempt, seq, plan, total, rows, seen, flying, metadata,
                   stopping, faults>>

ClaimPartition(w) ==
    /\ Copying(w, "claim") /\ ~ stopping
    /\ IF queue = {}
       THEN /\ worker' = [worker EXCEPT ![w].at = "completed"]
            /\ UNCHANGED queue
       ELSE \E p \in queue :
              /\ queue' = queue \ {p}
              /\ worker' = [worker EXCEPT ![w] = [@ EXCEPT !.at = "stream", !.part = p,
                                                          !.batch = 1]]
    /\ UNCHANGED <<phase, state, attempt, seq, plan, total, rows, seen, flying, metadata, stopping,
                   faults>>

(* table_copy_rows_from_stream: the next batch is written under a fresh    *)
(* ID; the destination creates the table first.                            *)
Batch(w) == [attempt |-> attempt, part |-> worker[w].part, batch |-> worker[w].batch,
             id |-> <<attempt, seq>>]

WriteBatch(w) ==
    /\ Copying(w, "stream") /\ ~ stopping /\ worker[w].batch <= Batches
    /\ seq' = seq + 1
    /\ flying' = flying \cup {Batch(w)}
    /\ metadata' = TRUE
    /\ worker' = [worker EXCEPT ![w].at = "writing"]
    /\ UNCHANGED <<phase, state, attempt, plan, queue, total, rows, seen, stopping, faults>>

Mine(w, b) == b.attempt = attempt /\ b.part = worker[w].part /\ b.batch = worker[w].batch

(* Mutant of Recorded: an accepted batch does not ask for the barrier. *)
RecordedAsDurable(p, status) == [rows |-> p.rows + 1, barrier |-> p.barrier]

(* TableCopyProgress::record_batch *)
Recorded(p, status) == [rows |-> p.rows + 1, barrier |-> p.barrier \/ status = "accepted"]

Landed(b, status) ==
    IF b.id \in seen THEN rows
    ELSE rows \cup {[attempt |-> b.attempt, part |-> b.part, batch |-> b.batch,
                     status |-> status]}

(* The write lands and its result reaches the worker. *)
BatchWritten(w) ==
    /\ Copying(w, "writing")
    /\ \E b \in flying, status \in {"accepted", "durable"} :
          /\ Mine(w, b)
          /\ flying' = flying \ {b}
          /\ rows' = Landed(b, status) /\ seen' = seen \cup {b.id}
          /\ worker' = [worker EXCEPT ![w] =
                           [@ EXCEPT !.at = "stream", !.batch = worker[w].batch + 1,
                                     !.progress = Recorded(worker[w].progress, status)]]
    /\ UNCHANGED <<phase, state, attempt, seq, plan, queue, total, metadata, stopping, faults>>

PartitionCopied(w) ==
    /\ Copying(w, "stream") /\ ~ stopping /\ worker[w].batch > Batches
    /\ worker' = [worker EXCEPT ![w].at = "claim"]
    /\ UNCHANGED <<phase, state, attempt, seq, plan, queue, total, rows, seen, flying, metadata,
                   stopping, faults>>

-----------------------------------------------------------------------------
(* run_table_copy joins its workers.  A shutdown, an error or an           *)
(* invalidated slot ends the attempt; the other workers are aborted and    *)
(* what they had in flight may still land.                                 *)

Abort(next) ==
    /\ phase' = next
    /\ worker' = [w \in Workers |-> Idle]
    /\ queue' = {}

JoinWorker(w) ==
    /\ Copying(w, "completed")
    /\ total' = Merge(total, worker[w].progress)
    /\ worker' = [worker EXCEPT ![w] = Idle]
    /\ UNCHANGED <<phase, state, attempt, seq, plan, queue, rows, seen, flying, metadata, stopping,
                   faults>>

WorkerStops(w) ==
    /\ phase = "copying" /\ worker[w].at \in {"claim", "stream", "writing"} /\ stopping
    /\ Abort("stopped")
    /\ UNCHANGED <<state, attempt, seq, plan, total, rows, seen, flying, metadata, stopping, faults>>

Fault == faults < MaxFaults /\ faults' = faults + 1

(* The connection, the stream or the destination fails a worker. *)
WorkerFails(w) ==
    /\ Fault /\ phase = "copying" /\ worker[w].at \in {"claim", "stream", "writing"}
    /\ Abort("errored")
    /\ UNCHANGED <<state, attempt, seq, plan, total, rows, seen, flying, metadata, stopping>>

(* TableSyncMonitor: the slot is gone. *)
SlotInvalidated ==
    /\ Fault /\ phase = "copying"
    /\ Abort("errored")
    /\ UNCHANGED <<state, attempt, seq, plan, total, rows, seen, flying, metadata, stopping>>

AllJoined == phase = "copying" /\ \A w \in Workers : worker[w].at = "idle"

NeedsBarrier(p) == p.rows = 0 \/ p.barrier

(* An empty write creates the table and makes everything accepted before   *)
(* it durable.                                                             *)
WriteBarrier ==
    /\ AllJoined /\ NeedsBarrier(total)
    /\ phase' = "barrier" /\ metadata' = TRUE
    /\ rows' = {[r EXCEPT !.status = "durable"] : r \in rows}
    /\ UNCHANGED <<state, attempt, seq, plan, queue, worker, total, seen, flying, stopping, faults>>

BarrierNotDurable ==
    /\ Fault /\ AllJoined /\ NeedsBarrier(total)
    /\ phase' = "errored" /\ metadata' = TRUE
    /\ UNCHANGED <<state, attempt, seq, plan, queue, worker, total, rows, seen, flying, stopping>>

StopAtBarrier ==
    /\ AllJoined /\ NeedsBarrier(total) /\ stopping
    /\ phase' = "stopped"
    /\ UNCHANGED <<state, attempt, seq, plan, queue, worker, total, rows, seen, flying, metadata,
                   stopping, faults>>

FinishCopy ==
    /\ phase = "barrier" \/ (AllJoined /\ ~ NeedsBarrier(total))
    /\ state' = "finished" /\ phase' = "syncwait"
    /\ UNCHANGED <<attempt, seq, plan, queue, worker, total, rows, seen, flying, metadata, stopping,
                   faults>>

-----------------------------------------------------------------------------
(* Surroundings.                                                           *)

(* A write nobody waits for any more lands. *)
LandLate(b) ==
    /\ b \in flying /\ \A w \in Workers : ~ (worker[w].at = "writing" /\ Mine(w, b))
    /\ flying' = flying \ {b}
    /\ \E status \in {"accepted", "durable"} : rows' = Landed(b, status)
    /\ seen' = seen \cup {b.id}
    /\ UNCHANGED <<phase, state, attempt, seq, plan, queue, worker, total, metadata, stopping, faults>>

Retry ==
    /\ phase = "errored" /\ ~ stopping
    /\ phase' = "start"
    /\ UNCHANGED <<state, attempt, seq, plan, queue, worker, total, rows, seen, flying, metadata,
                   stopping, faults>>

RequestShutdown ==
    /\ ~ stopping /\ Fault
    /\ stopping' = TRUE
    /\ UNCHANGED <<phase, state, attempt, seq, plan, queue, worker, total, rows, seen, flying, metadata>>

(* The process ends, by itself or by a crash, and starts again: what was   *)
(* only accepted may be lost.                                              *)
Restart ==
    /\ phase # "syncwait"
    /\ \/ phase = "stopped" /\ UNCHANGED faults
       \/ phase # "stopped" /\ Fault
    /\ Abort("start")
    /\ \E lost \in SUBSET {r \in rows : r.status = "accepted"} : rows' = rows \ lost
    /\ stopping' = FALSE
    /\ UNCHANGED <<state, attempt, seq, plan, total, seen, flying, metadata>>

WorkerStep(w) ==
    \/ ClaimPartition(w) \/ WriteBatch(w) \/ BatchWritten(w) \/ PartitionCopied(w)
    \/ JoinWorker(w) \/ WorkerStops(w)

SyncStep ==
    \/ DropTableForCopy \/ PrepareCopy \/ RunTableCopy \/ WriteBarrier \/ FinishCopy

Next ==
    \/ SyncStep \/ \E w \in Workers : WorkerStep(w)
    \/ BarrierNotDurable \/ StopAtBarrier
    \/ \E w \in Workers : WorkerFails(w)
    \/ SlotInvalidated \/ \E b \in flying : LandLate(b)
    \/ Retry \/ RequestShutdown \/ Restart

(* Fairness: the runtime polls the table-sync task and every copy worker,  *)
(* and the destination answers every write.                                *)
Spec == Init /\ [][Next]_vars

FairSpec == Spec /\ WF_vars(SyncStep) /\ \A w \in Workers : WF_vars(WorkerStep(w))

-----------------------------------------------------------------------------
(* The values of every variable. *)
TypeOK ==
    /\ phase \in {"start", "prepare", "slot", "copying", "barrier", "syncwait", "errored",
                  "stopped"}
    /\ state \in {"init", "datasync", "finished"}
    /\ attempt \in 0..MaxAttempts /\ queue \subseteq plan
    /\ \A w \in Workers :
          worker[w].at \in {"idle", "claim", "stream", "writing", "completed"}
    /\ Cardinality({b \in flying : b.attempt = attempt}) <= Cardinality(Workers) + MaxFaults
    /\ metadata \in BOOLEAN /\ stopping \in BOOLEAN /\ faults \in 0..MaxFaults

(* Once FinishedCopy is stored the table exists at the destination, also   *)
(* when there was nothing to copy, and holds every batch of every          *)
(* partition of this attempt's snapshot, durably, and nothing an aborted   *)
(* attempt had written or had on its way (run_table_copy, start_table_sync *)
(* and the drop_table_for_copy contract).                                  *)
CopyIsExact ==
    state = "finished" =>
        metadata /\ rows = [attempt : {attempt}, part : plan, batch : 1..Batches, status : {"durable"}]

(* A copy that has started ends: it finishes, fails or stops, whichever    *)
(* workers finish first and however little work there is for them          *)
(* (run_table_copy's join loop).                                           *)
CopyEnds == (phase = "copying") ~> (phase # "copying")

=============================================================================
