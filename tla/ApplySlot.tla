------------------------------- MODULE ApplySlot -------------------------------
(***************************************************************************)
(* How an apply-worker attempt finds the position it streams from          *)
(* (crates/etl/src/runtime/apply/worker.rs): an existing, missing or       *)
(* invalidated replication slot, the persisted checkpoint, and the reset   *)
(* of every table when the slot is recreated.  Each store or PostgreSQL    *)
(* call is a step of its own; the process may crash between any two, and   *)
(* table-sync workers of an earlier attempt keep running through them.     *)
(*                                                                         *)
(* Table sync itself is TableHandoff's; here a worker copies, waits,       *)
(* catches up, fails and retries only as far as it meets the reset.        *)
(***************************************************************************)
EXTENDS Naturals

CONSTANTS
    Tables,
    Recreate,       \* InvalidatedSlotBehavior::Recreate, or Error
    MaxLsn,         \* bound: WAL positions
    MaxFaults       \* bound: failures of either kind

VARIABLES
    wal,        \* last WAL position written
    timeline,   \* raised when PostgreSQL fails over to an earlier position
    slot,       \* the apply slot
    checkpoint, \* the persisted apply checkpoint, with the slot it was read from
    row,        \* stored table states: the current row and the one before it
    worker,     \* table-sync workers in the pool
    dest,       \* per table, the last position whose changes the destination has
    apply,      \* the apply attempt: the step it is at, the position it reached
    faults

vars == <<wal, timeline, slot, checkpoint, row, worker, dest, apply, faults>>

NoWorker == [run |-> "none", state |-> "none", lsn |-> 0]
NoSlot == [kind |-> "missing", lsn |-> 0, timeline |-> 0]
NoCheckpoint == [kind |-> "none", lsn |-> 0, timeline |-> 0]
At(step) == [step |-> step, pos |-> 0]
Later(a, b) == IF a >= b THEN a ELSE b

Init ==
    /\ wal = 1 /\ timeline = 1
    /\ slot = NoSlot /\ checkpoint = NoCheckpoint
    /\ row = [t \in Tables |-> [cur |-> "init", prev |-> "none", lsn |-> 0]]
    /\ worker = [t \in Tables |-> NoWorker]
    /\ dest = [t \in Tables |-> 0]
    /\ apply = At("inspect") /\ faults = 0

-----------------------------------------------------------------------------
(* get_start_lsn, one call at a time.                                      *)

CreateSlot == slot' = [kind |-> "valid", lsn |-> wal, timeline |-> timeline]
StreamFrom(lsn) == apply' = [step |-> "stream", pos |-> lsn]
Forget == checkpoint' = NoCheckpoint

InspectSlot ==
    /\ apply.step = "inspect"
    /\ apply' = At(CASE slot.kind = "missing" -> "forget"
                     [] slot.kind = "invalid" -> IF Recreate THEN "reset" ELSE "failed"
                     [] OTHER -> "resume")
    /\ UNCHANGED <<wal, timeline, slot, checkpoint, row, worker, dest, faults>>

(* Mutant: the slot is created and the old checkpoint stays. *)
CreateSlotFirst ==
    /\ apply.step = "forget"
    /\ CreateSlot /\ apply' = At("create")
    /\ UNCHANGED <<wal, timeline, checkpoint, row, worker, dest, faults>>

(* No slot: the checkpoint of the old lineage goes before the new slot     *)
(* comes.                                                                  *)
DeleteCheckpoint ==
    /\ apply.step = "forget"
    /\ Forget /\ apply' = At("create")
    /\ UNCHANGED <<wal, timeline, slot, row, worker, dest, faults>>

CreateMissingSlot ==
    /\ apply.step = "create"
    /\ CreateSlot /\ StreamFrom(wal)
    /\ UNCHANGED <<wal, timeline, checkpoint, row, worker, dest, faults>>

(* A valid slot: the later of the checkpoint and the slot's position. *)
StartLsn == Later(checkpoint.lsn, slot.lsn)

ResumeSlot ==
    /\ apply.step = "resume"
    /\ StreamFrom(StartLsn)
    /\ UNCHANGED <<wal, timeline, slot, checkpoint, row, worker, dest, faults>>

(* handle_invalidated_slot with Recreate: every table back to Init and the *)
(* apply checkpoint deleted in one transaction, then the slot deleted and  *)
(* created again.                                                          *)
Pushed(r, state) == [cur |-> state, prev |-> r.cur, lsn |-> 0]

(* Mutant: only the checkpoint is deleted. *)
ResetNothing ==
    /\ apply.step = "reset"
    /\ Forget /\ apply' = At("drop")
    /\ UNCHANGED <<wal, timeline, slot, row, worker, dest, faults>>

ResetTablesForResync ==
    /\ apply.step = "reset"
    /\ row' = [t \in Tables |-> Pushed(row[t], "init")]
    /\ Forget /\ apply' = At("drop")
    /\ UNCHANGED <<wal, timeline, slot, worker, dest, faults>>

DeleteInvalidatedSlot ==
    /\ apply.step = "drop"
    /\ slot' = NoSlot /\ apply' = At("recreate")
    /\ UNCHANGED <<wal, timeline, checkpoint, row, worker, dest, faults>>

RecreateSlot ==
    /\ apply.step = "recreate"
    /\ CreateSlot /\ StreamFrom(wal)
    /\ UNCHANGED <<wal, timeline, checkpoint, row, worker, dest, faults>>

-----------------------------------------------------------------------------
(* The stream, as far as start positions depend on it.                     *)

OwnedAt(t, pos) == row[t].cur = "ready" \/ (row[t].cur = "syncdone" /\ row[t].lsn <= pos)
CatchingUp == \E t \in Tables : worker[t].run = "running" /\ worker[t].state = "catchup"
Streaming == apply.step = "stream" /\ ~ CatchingUp

Stream ==
    /\ Streaming /\ slot.kind = "valid" /\ apply.pos < wal
    /\ apply' = [apply EXCEPT !.pos = @ + 1]
    /\ dest' = [t \in Tables |-> IF OwnedAt(t, apply.pos) THEN Later(dest[t], apply.pos + 1)
                                 ELSE dest[t]]
    /\ UNCHANGED <<wal, timeline, slot, checkpoint, row, worker, faults>>

(* A durable commit: the checkpoint, and SyncDone becomes Ready. *)
PersistCheckpoint ==
    /\ Streaming /\ checkpoint.lsn < apply.pos
    /\ checkpoint' = [kind |-> "some", lsn |-> apply.pos, timeline |-> slot.timeline]
    /\ row' = [t \in Tables |->
                  IF row[t].cur = "syncdone" /\ row[t].lsn <= checkpoint.lsn
                  THEN Pushed(row[t], "ready") ELSE row[t]]
    /\ UNCHANGED <<wal, timeline, slot, worker, dest, apply, faults>>

(* Status feedback advances the slot. *)
ConfirmFlush ==
    /\ Streaming /\ slot.kind = "valid" /\ slot.lsn < checkpoint.lsn
    /\ slot' = [slot EXCEPT !.lsn = checkpoint.lsn]
    /\ UNCHANGED <<wal, timeline, checkpoint, row, worker, dest, apply, faults>>

SpawnWorker(t) ==
    /\ Streaming /\ worker[t].run = "none"
    /\ row[t].cur \in {"init", "datasync", "finished"}
    /\ worker' = [worker EXCEPT ![t] = [run |-> "running", state |-> row[t].cur, lsn |-> 0]]
    /\ UNCHANGED <<wal, timeline, slot, checkpoint, row, dest, apply, faults>>

SetCatchup(t) ==
    /\ Streaming /\ worker[t].run = "running" /\ worker[t].state = "syncwait"
    /\ worker' = [worker EXCEPT ![t].state = "catchup", ![t].lsn = Later(@, apply.pos)]
    /\ UNCHANGED <<wal, timeline, slot, checkpoint, row, dest, apply, faults>>

-----------------------------------------------------------------------------
(* Table-sync workers.  Their state is their own; stored rows follow it.   *)

Running(t, states) == worker[t].run = "running" /\ worker[t].state \in states

StartCopy(t) ==
    /\ Running(t, {"init", "datasync", "finished"})
    /\ row' = [row EXCEPT ![t] = Pushed(@, "datasync")]
    /\ dest' = [dest EXCEPT ![t] = 0]
    /\ worker' = [worker EXCEPT ![t] = [@ EXCEPT !.state = "copying", !.lsn = wal]]
    /\ UNCHANGED <<wal, timeline, slot, checkpoint, apply, faults>>

FinishCopy(t) ==
    /\ Running(t, {"copying"})
    /\ row' = [row EXCEPT ![t] = Pushed(@, "finished")]
    /\ dest' = [dest EXCEPT ![t] = worker[t].lsn]
    /\ worker' = [worker EXCEPT ![t].state = "syncwait"]
    /\ UNCHANGED <<wal, timeline, slot, checkpoint, apply, faults>>

CompleteCatchup(t) ==
    /\ Running(t, {"catchup"})
    /\ \E lsn \in worker[t].lsn..wal :
          /\ row' = [row EXCEPT ![t] = [Pushed(@, "syncdone") EXCEPT !.lsn = lsn]]
          /\ dest' = [dest EXCEPT ![t] = lsn]
    /\ worker' = [worker EXCEPT ![t].state = "syncdone"]
    /\ UNCHANGED <<wal, timeline, slot, checkpoint, apply, faults>>

(* Resources cleaned up, or nothing to do. *)
FinishWorker(t) ==
    /\ Running(t, {"syncdone", "ready", "errored"})
    /\ worker' = [worker EXCEPT ![t] = NoWorker]
    /\ UNCHANGED <<wal, timeline, slot, checkpoint, row, dest, apply, faults>>

(* handle_table_sync_worker_error: a timed retry sleeps with Errored       *)
(* stored, then rolls the stored row back.                                 *)
FailWorker(t) ==
    /\ faults < MaxFaults /\ faults' = faults + 1
    /\ Running(t, {"init", "datasync", "finished", "copying", "syncwait", "catchup"})
    /\ row' = [row EXCEPT ![t] = Pushed(@, "errored")]
    /\ worker' = [worker EXCEPT ![t] = [run |-> "retrying", state |-> "errored", lsn |-> 0]]
    /\ UNCHANGED <<wal, timeline, slot, checkpoint, dest, apply>>

RetryWorker(t) ==
    /\ worker[t].run = "retrying"
    /\ row' = [row EXCEPT ![t] = [cur |-> row[t].prev, prev |-> "none", lsn |-> 0]]
    /\ worker' = [worker EXCEPT ![t] = [run |-> "running", state |-> row[t].prev, lsn |-> 0]]
    /\ UNCHANGED <<wal, timeline, slot, checkpoint, dest, apply, faults>>

-----------------------------------------------------------------------------
(* PostgreSQL and faults.                                                  *)

Write ==
    /\ wal < MaxLsn
    /\ wal' = wal + 1
    /\ UNCHANGED <<timeline, slot, checkpoint, row, worker, dest, apply, faults>>

Fault ==
    /\ faults < MaxFaults /\ apply.step # "failed"
    /\ faults' = faults + 1

(* WAL the slot needed is removed.  The next attempt finds out. *)
InvalidateSlot ==
    /\ Fault /\ slot.kind = "valid" /\ slot.lsn < wal
    /\ slot' = [slot EXCEPT !.kind = "invalid"]
    /\ apply' = IF Streaming THEN At("inspect") ELSE apply
    /\ UNCHANGED <<wal, timeline, checkpoint, row, worker, dest>>

(* A retriable failure: a new attempt in the same process. *)
FailAttempt ==
    /\ Fault /\ ~ CatchingUp
    /\ apply' = At("inspect")
    /\ UNCHANGED <<wal, timeline, slot, checkpoint, row, worker, dest>>

Crash ==
    /\ Fault
    /\ apply' = At("inspect")
    /\ worker' = [t \in Tables |-> NoWorker]
    /\ UNCHANGED <<wal, timeline, slot, checkpoint, row, dest>>

(* Promotion of a standby that has no slot and is behind. *)
Failover ==
    /\ Fault
    /\ \E lsn \in 1..wal : wal' = lsn
    /\ timeline' = timeline + 1
    /\ slot' = NoSlot /\ apply' = At("inspect")
    /\ worker' = [t \in Tables |-> NoWorker]
    /\ UNCHANGED <<checkpoint, row, dest>>

Next ==
    \/ InspectSlot \/ DeleteCheckpoint \/ CreateMissingSlot \/ ResumeSlot
    \/ ResetTablesForResync \/ DeleteInvalidatedSlot \/ RecreateSlot
    \/ Stream \/ PersistCheckpoint \/ ConfirmFlush
    \/ \E t \in Tables :
          \/ SpawnWorker(t) \/ SetCatchup(t) \/ StartCopy(t) \/ FinishCopy(t)
          \/ CompleteCatchup(t) \/ FinishWorker(t) \/ FailWorker(t) \/ RetryWorker(t)
    \/ Write \/ InvalidateSlot \/ FailAttempt \/ Crash \/ Failover

Spec == Init /\ [][Next]_vars

-----------------------------------------------------------------------------
(* The values of every variable. *)
TypeOK ==
    /\ wal \in 1..MaxLsn /\ timeline \in Nat
    /\ slot.kind \in {"missing", "valid", "invalid"} /\ slot.lsn \in 0..MaxLsn
    /\ checkpoint.kind \in {"none", "some"} /\ checkpoint.lsn \in 0..MaxLsn
    /\ \A t \in Tables :
          row[t].cur \in {"init", "datasync", "finished", "syncdone", "ready", "errored"}
    /\ \A t \in Tables : worker[t].run \in {"none", "running", "retrying"}
    /\ dest \in [Tables -> 0..MaxLsn]
    /\ apply.pos \in 0..MaxLsn /\ faults \in 0..MaxFaults

(* A table the apply worker owns has every change up to the position the   *)
(* stream has reached, whichever steps of a slot recreation were cut off   *)
(* by a crash and whatever the table-sync workers of the earlier attempt   *)
(* stored in between.  A failover to an earlier position is what the       *)
(* missing-slot warning is about (get_start_lsn, handle_invalidated_slot). *)
NoMissedChanges ==
    (apply.step = "stream" /\ timeline = 1) =>
        \A t \in Tables : OwnedAt(t, apply.pos) => dest[t] >= apply.pos

(* A slot is never paired with the checkpoint of an earlier slot: after a  *)
(* failover its LSN may lie beyond changes not yet streamed (the order of  *)
(* delete_replication_checkpoint and create_slot in get_start_lsn).        *)
CheckpointOfThisSlot ==
    (slot.kind = "valid" /\ checkpoint.kind = "some") =>
        checkpoint.timeline = slot.timeline

(* A retried table-sync worker has a state it can work from: the rollback  *)
(* after a timed retry never restores Errored (the cases listed in         *)
(* handle_table_sync_worker_error).                                        *)
RetryHasWork ==
    \A t \in Tables : worker[t].run = "running" => worker[t].state # "errored"

=============================================================================
