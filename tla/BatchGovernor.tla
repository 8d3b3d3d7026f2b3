------------------------------ MODULE BatchGovernor ------------------------------
(***************************************************************************)
(* Sharing the decoded-batch budget                                        *)
(* (crates/etl/src/runtime/memory_monitor.rs, batch_memory_governor.rs):   *)
(* one task samples the memory capacity the process may use; producers of  *)
(* batches register slots, and each learns its target after every item,    *)
(* refreshing the shared one when the snapshot's revision has moved.       *)
(***************************************************************************)
EXTENDS Naturals

LOCAL INSTANCE FiniteSetsExt

CONSTANTS
    Producers,
    SlotsOf,            \* slots a producer registers: APPLY_LOOP_BATCH_SLOTS or 1
    HostTotal,          \* total memory of the host
    Limits,             \* cgroup limits, tighter than the host or not
    RatioDen,           \* memory_budget_ratio is 1 / RatioDen
    MaxBatch,           \* max_batch_bytes
    MaxRevision         \* bound: fresh snapshots

VARIABLES
    snapshot,       \* total and source
    revision,       \* of the snapshot
    lastRead,       \* history: total of the last reading that succeeded
    gov,            \* governor: slots, frozen, target, revision, lock holder
    producer        \* where each producer is, and the revision it read

vars == <<snapshot, revision, lastRead, gov, producer>>

NoOne == "no one"
Missing == 0

-----------------------------------------------------------------------------
(* Sampling.                                                               *)

(* constrained_cgroup_snapshot: a limit counts below the host's total. *)
Snapshot(limit, kind) ==
    IF limit < HostTotal THEN [total |-> limit, source |-> kind]
    ELSE [total |-> HostTotal, source |-> "system"]

Fresh(s) == [fresh |-> TRUE, snapshot |-> s]
Retained == [fresh |-> FALSE, snapshot |-> snapshot]

(* MemorySnapshot::refresh *)
Refresh(previous, process, root) ==
    IF process # Missing THEN Fresh(Snapshot(process, "process"))
    ELSE IF previous = "process" THEN Retained
    ELSE IF root # Missing THEN Fresh(Snapshot(root, "root"))
    ELSE IF previous = "root" THEN Retained
    ELSE Fresh(Snapshot(HostTotal, "system"))

-----------------------------------------------------------------------------
(* The governor.                                                           *)

Budget(total) == total \div RatioDen
PerSlot(frozen, slots) == Min({Max({frozen \div Max({slots, 1}), 1}), Max({MaxBatch, 1})})
Recalculated(g) == [g EXCEPT !.target = PerSlot(g.frozen, g.slots)]

(* MemoryMonitor::new and BatchMemoryGovernor::new *)
Init ==
    /\ \E process, root \in Limits \cup {Missing} :
          snapshot = Refresh("none", process, root).snapshot
    /\ revision = 0 /\ lastRead = snapshot.total
    /\ gov = [slots |-> 0, frozen |-> Budget(snapshot.total), revision |-> 0, lock |-> NoOne,
              target |-> PerSlot(Budget(snapshot.total), 1)]
    /\ producer = [p \in Producers |-> [pc |-> "absent", taken |-> 0]]

(* One tick of the refresh task; the snapshot and its revision change      *)
(* under one write lock.                                                   *)
Tick(process, root) ==
    LET r == Refresh(snapshot.source, process, root)
    IN  /\ revision < MaxRevision
        /\ snapshot' = r.snapshot
        /\ revision' = IF r.fresh THEN revision + 1 ELSE revision
        /\ lastRead' = CASE process # Missing -> Snapshot(process, "process").total
                         [] process = Missing /\ root # Missing /\ snapshot.source # "process" ->
                              Snapshot(root, "root").total
                         [] OTHER -> lastRead
        /\ UNCHANGED <<gov, producer>>

-----------------------------------------------------------------------------
(* Producers.                                                              *)

Goes(p, pc) == producer' = [producer EXCEPT ![p].pc = pc] /\ UNCHANGED <<snapshot, revision, lastRead>>

(* register_batch_slots waits for the lock *)
Register(p) ==
    /\ producer[p].pc = "absent" /\ gov.lock = NoOne
    /\ gov' = Recalculated([gov EXCEPT !.slots = @ + SlotsOf[p]])
    /\ Goes(p, "fill")

(* BatchSlotsGuard::drop *)
Unregister(p) ==
    /\ producer[p].pc = "fill" /\ gov.lock = NoOne
    /\ gov' = Recalculated([gov EXCEPT !.slots = @ - SlotsOf[p]])
    /\ Goes(p, "absent")

(* batch_size_target_bytes: with a new revision the lock is tried; whoever *)
(* holds it, the current target serves.                                    *)
CheckRevision(p) ==
    /\ producer[p].pc = "fill" /\ revision # gov.revision /\ gov.lock = NoOne
    /\ gov' = [gov EXCEPT !.lock = p]
    /\ Goes(p, "refresh")

(* Variant: the revision marked is the one current when the lock is let go. *)
MarkedLate(p) == revision

Marked(p) == producer[p].taken

(* try_refresh_batch_size_target: the capacity and its revision are read   *)
(* together, and the revision is checked again under the lock; the target  *)
(* is stored, then the revision.                                           *)
RefreshTarget(p) ==
    /\ producer[p].pc = "refresh"
    /\ IF gov.revision = revision
       THEN gov' = [gov EXCEPT !.lock = NoOne] /\ Goes(p, "fill")
       ELSE /\ gov' = Recalculated([gov EXCEPT !.frozen = Budget(snapshot.total)])
            /\ producer' = [producer EXCEPT ![p] = [pc |-> "mark", taken |-> revision]]
            /\ UNCHANGED <<snapshot, revision, lastRead>>

MarkRevision(p) ==
    /\ producer[p].pc = "mark"
    /\ gov' = [gov EXCEPT !.revision = Marked(p), !.lock = NoOne]
    /\ producer' = [producer EXCEPT ![p] = [pc |-> "fill", taken |-> 0]]
    /\ UNCHANGED <<snapshot, revision, lastRead>>

Next ==
    \/ \E process, root \in Limits \cup {Missing} : Tick(process, root)
    \/ \E p \in Producers : \/ Register(p) \/ Unregister(p) \/ CheckRevision(p)
                            \/ RefreshTarget(p) \/ MarkRevision(p)

Spec == Init /\ [][Next]_vars

-----------------------------------------------------------------------------
(* With no refresh under way, a governor that claims the current revision  *)
(* divides the budget of the capacity last read, through readings that     *)
(* fail, by the slots registered now: no producer goes on with a budget    *)
(* the limit no longer allows (BatchMemoryGovernor, MemorySnapshot).       *)
BudgetFollowsCapacity ==
    gov.lock = NoOne =>
        /\ gov.revision = revision => gov.frozen = Budget(lastRead)
        /\ gov.slots > 0 => gov.target = PerSlot(gov.frozen, gov.slots)

=============================================================================
