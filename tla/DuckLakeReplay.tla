----------------------------- MODULE DuckLakeReplay -----------------------------
(***************************************************************************)
(* One source table at the DuckLake destination.                           *)
(*                                                                         *)
(* DuckLake rows are not keyed by the event that wrote them: an event      *)
(* applied twice is a duplicate.  Every streaming batch therefore commits  *)
(* the sequence key of its last event, the table's watermark, with its     *)
(* rows, and a replay leaves out what the watermark covers.  Watermarks    *)
(* and copy markers belong to a replay epoch, which a table reset rotates. *)
(* A commit that returns an error may have happened.                       *)
(*                                                                         *)
(* An event is its position in Source, its sequence key too; a schema      *)
(* snapshot is the number of relation events before it.                    *)
(***************************************************************************)
EXTENDS Integers, FiniteSets, Sequences, FiniteSetsExt

CONSTANTS
  Source,       \* the table's events, over {"row", "truncate", "relation"}
  MaxFaults,    \* bound: failing calls, failing workers and crashes
  MaxResets,    \* bound: resets of a table that has been copied
  OverlappingRetries  \* the retries, of {"stream", "copy"}, that may start
                      \* while a task of the worker before them still runs

VARIABLES
  lake,     \* the table, its watermarks and its copy markers, in DuckLake
  epoch,    \* the table's row of the replay epochs table
  meta,     \* destination metadata in the store
  cache,    \* the process's confirmed watermark
  slot,     \* the table write slot
  run,      \* the write task of this attempt ("cur") and one left over ("old")
  copy,     \* the copy: its mode, position, batches accepted and rows staged
  worker,   \* the worker of the table: its phase and positions
  faults

vars == <<lake, epoch, meta, cache, slot, run, copy, worker, faults>>

--------------------------------------------------------------------------------
Positions == 0 .. Len(Source)
Epochs == 0 .. MaxResets + 2 * MaxFaults + 1
None == -1

\* The schema snapshot in force after event i.
SnapshotAt(i) == Cardinality({j \in 1 .. i : Source[j] = "relation"})

\* The rows of the source table after event i.
RowsAt(i) == {j \in 1 .. i : /\ Source[j] = "row"
                             /\ \A k \in j .. i : Source[k] # "truncate"}

\* The last position of the run of equal events that starts at i, up to `to`.
LastOfRun(i, to) == Max({k \in i .. to : \A j \in i .. k : Source[j] = Source[i]})

NoRows == [i \in Positions |-> 0]
Missing == [lake EXCEPT !.shape = None, !.rows = NoRows]
NoMetadata == [state |-> "none", snapshot |-> None]
Unknown == [epoch |-> None, key |-> None]
NoTask == [pc |-> "none", then |-> "none", at |-> 0, to |-> 0, end |-> 0,
           first |-> 0, last |-> 0, epoch |-> None, known |-> None, target |-> None]

TypeOK ==
  /\ lake \in [shape : Positions \cup {None}, rows : [Positions -> Nat],
               progress : [Epochs -> Positions \cup {None}],
               markers : SUBSET (Epochs \X Positions)]
  /\ epoch \in [current : Epochs, pending : Epochs \cup {None}]
  /\ meta \in [state : {"creating", "applying", "applied"}, snapshot : Positions] \cup {NoMetadata}
  /\ cache \in [epoch : Epochs \cup {None}, key : Positions \cup {None}]
  /\ slot \in {"free", "cur", "old"}
  /\ \A x \in {"cur", "old"} :
       run[x].pc \in {"none", "next", "cursor", "ready", "acquire", "chunk", "batch", "ddl", "store"}
  /\ copy.accepted \subseteq Positions /\ copy.staged \subseteq Positions
  /\ worker.phase \in {"drop", "drop_table", "complete", "prepare", "create", "create_table",
                       "create_store", "copying", "stream", "failed", "stopped",
                       "recover", "recover_store"}
  /\ faults \in 0 .. MaxFaults

Init ==
  /\ lake = [shape |-> None, rows |-> NoRows, progress |-> [e \in Epochs |-> None], markers |-> {}]
  /\ epoch = [current |-> 0, pending |-> None]
  /\ meta = NoMetadata
  /\ cache = Unknown
  /\ slot = "free"
  /\ run = [x \in {"cur", "old"} |-> NoTask]
  /\ copy \in [buffered : BOOLEAN, at : {0}, accepted : {{}}, staged : {{}}]
  /\ worker = [phase |-> "create", copied |-> FALSE, resets |-> 0, manual |-> FALSE,
               sent |-> 0, acked |-> 0, checkpoint |-> 0, reach |-> 0]
  /\ faults = 0

Fault == faults < MaxFaults /\ faults' = faults + 1

--------------------------------------------------------------------------------
(* write_events: one segment of rows, one relation or one run of truncates *)

AtEvent(x, event) == run[x].at <= run[x].to /\ Source[run[x].at] = event
SnapshotOf(x) == SnapshotAt(run[x].at)
Goto(x, pc) == run' = [run EXCEPT ![x].pc = pc]
Past(x) == [NoTask EXCEPT !.pc = "next", !.at = run[x].end + 1, !.to = run[x].to]

\* The task ends with an error; a schema error needs an operator or a restart.
Fails(x, manual) ==
  /\ run' = [run EXCEPT ![x] = NoTask]
  /\ slot' = IF slot = x THEN "free" ELSE slot
  /\ worker' = IF x = "cur" THEN [worker EXCEPT !.phase = "failed", !.manual = manual] ELSE worker

\* DDL towards `target`, then the task goes on at `then`.
Reconcile(x, target, then) ==
  run' = [run EXCEPT ![x].pc = "ddl", ![x].target = target, ![x].then = then]

\* The first lookups of read_table_replay_cursor: pending metadata is recovered
\* before the cursor is read, if it is for this schema.
StartSegment(x) ==
  LET end == LastOfRun(run[x].at, run[x].to)
  IN  /\ run[x].pc = "next"
      /\ AtEvent(x, "row") \/ AtEvent(x, "truncate")
      /\ IF meta.state = "applied"
         THEN /\ run' = [run EXCEPT ![x].pc = "cursor", ![x].end = end]
              /\ UNCHANGED <<slot, worker>>
         ELSE IF meta.snapshot = SnapshotOf(x)
         THEN /\ run' = [run EXCEPT ![x].pc = "ddl", ![x].end = end,
                                    ![x].target = meta.snapshot, ![x].then = "cursor"]
              /\ UNCHANGED <<slot, worker>>
         ELSE Fails(x, TRUE)
      /\ UNCHANGED <<lake, epoch, meta, cache, copy, faults>>

\* The confirmed frontier if it is of epoch e, the durable one otherwise.
Frontier(e) == IF cache.epoch = e THEN cache.key ELSE lake.progress[e]

\* read_table_replay_cursor under the slot, and retain_*_after_sequence_key.
ReadCursor(x) ==
  LET e == epoch.current
      first == Max({run[x].at, Frontier(e) + 1})
  IN  /\ run[x].pc = "cursor" /\ slot = "free"
      /\ cache' = [epoch |-> e, key |-> Frontier(e)]
      /\ run' = [run EXCEPT ![x] =
           IF first > run[x].end THEN Past(x)
           ELSE [run[x] EXCEPT !.pc = "ready", !.epoch = e, !.first = first]]
      /\ UNCHANGED <<lake, epoch, meta, slot, copy, worker, faults>>

\* ensure_table_ready_for_streaming_schema.
EnsureReady(x) ==
  /\ run[x].pc = "ready"
  /\ IF SnapshotOf(x) < meta.snapshot \/ (meta.state # "applied" /\ SnapshotOf(x) # meta.snapshot)
     THEN Fails(x, TRUE) /\ UNCHANGED meta
     ELSE /\ IF meta.state = "applied" /\ SnapshotOf(x) = meta.snapshot
             THEN Goto(x, "acquire") /\ UNCHANGED meta
             ELSE /\ meta' = [state |-> "applying", snapshot |-> SnapshotOf(x)]
                  /\ Reconcile(x, SnapshotOf(x), "acquire")
          /\ UNCHANGED <<slot, worker>>
  /\ UNCHANGED <<lake, epoch, cache, copy, faults>>

AcquireSlot(x) ==
  /\ run[x].pc = "acquire" /\ slot = "free"
  /\ slot' = x
  /\ Goto(x, "chunk")
  /\ UNCHANGED <<lake, epoch, meta, cache, copy, worker, faults>>

\* The next atomic batch of the segment, all of a run of truncates; the
\* confirmed watermark serves its first attempt and is forgotten before it.
PrepareBatch(x) ==
  /\ run[x].pc = "chunk"
  /\ \E last \in IF AtEvent(x, "truncate") THEN {run[x].end} ELSE run[x].first .. run[x].end :
       run' = [run EXCEPT ![x].pc = "batch", ![x].last = last,
                 ![x].known = IF cache.epoch = run[x].epoch THEN cache.key ELSE None]
  /\ cache' = Unknown
  /\ UNCHANGED <<lake, epoch, meta, slot, copy, worker, faults>>

\* Variant: a retry trusts the watermark of the first attempt.
KeepsKnown(x) == run[x].known

\* The watermark a retry starts from: none is known, it reads the durable one.
KnownAfterError(x) == None

Progress(x) == IF run[x].known # None THEN run[x].known ELSE lake.progress[run[x].epoch]

\* streaming_replay_decision.
Decision(x) ==
  CASE Progress(x) >= run[x].last -> "skip"
    [] Progress(x) >= run[x].first /\ Progress(x) < run[x].last -> "inside"
    [] OTHER -> IF lake.shape = SnapshotOf(x) THEN "apply" ELSE "mismatch"

\* apply_table_batch: the batch's rows and its watermark in one transaction.
Applied(x) ==
  [lake EXCEPT
     !.rows = [i \in Positions |->
                 IF AtEvent(x, "truncate") THEN 0
                 ELSE IF i \in run[x].first .. run[x].last THEN @[i] + 1 ELSE @[i]],
     !.progress[run[x].epoch] = Max({@, run[x].last})]

\* The batch is committed, or skipped; the watermark is confirmed again.
BatchDone(x) ==
  /\ run[x].pc = "batch" /\ Decision(x) \in {"apply", "skip"}
  /\ lake' = IF Decision(x) = "apply" THEN Applied(x) ELSE lake
  /\ cache' = [epoch |-> run[x].epoch,
               key |-> IF Decision(x) = "apply" THEN run[x].last ELSE Progress(x)]
  /\ IF run[x].last < run[x].end
     THEN /\ run' = [run EXCEPT ![x].pc = "chunk", ![x].first = run[x].last + 1]
          /\ UNCHANGED slot
     ELSE run' = [run EXCEPT ![x] = Past(x)] /\ slot' = "free"
  /\ UNCHANGED <<epoch, meta, copy, worker, faults>>

\* The transaction returns an error, rolled back or committed.  It is retried,
\* or its retries are exhausted.
BatchErrs(x) ==
  /\ run[x].pc = "batch" /\ Decision(x) = "apply"
  /\ Fault
  /\ lake' \in {lake, Applied(x)}
  /\ \/ run' = [run EXCEPT ![x].known = KnownAfterError(x)] /\ UNCHANGED <<slot, worker>>
     \/ Fails(x, FALSE)
  /\ UNCHANGED <<epoch, meta, cache, copy>>

\* The watermark lies inside the batch, or the table lacks the batch's shape.
BatchRefused(x) ==
  /\ run[x].pc = "batch" /\ Decision(x) \in {"inside", "mismatch"}
  /\ Fails(x, TRUE)
  /\ UNCHANGED <<lake, epoch, meta, cache, copy, faults>>

\* handle_relation_event up to its DDL: a relation carries no sequence key, one
\* older than the table is a replay.
HandleRelation(x) ==
  /\ run[x].pc = "next" /\ AtEvent(x, "relation")
  /\ LET passed == [run EXCEPT ![x] = [Past(x) EXCEPT !.at = run[x].at + 1]]
     IN  IF meta.state # "applied"
         THEN IF meta.snapshot = SnapshotOf(x)
              THEN /\ run' = [run EXCEPT ![x].pc = "ddl", ![x].end = run[x].at,
                                         ![x].target = meta.snapshot, ![x].then = "past"]
                   /\ UNCHANGED <<slot, worker, meta>>
              ELSE Fails(x, TRUE) /\ UNCHANGED meta
         ELSE /\ IF SnapshotOf(x) <= meta.snapshot
                 THEN run' = passed /\ UNCHANGED meta
                 ELSE /\ meta' = [state |-> "applying", snapshot |-> SnapshotOf(x)]
                      /\ run' = [run EXCEPT ![x].pc = "ddl", ![x].end = run[x].at,
                                            ![x].target = SnapshotOf(x), ![x].then = "past"]
              /\ UNCHANGED <<slot, worker>>
  /\ UNCHANGED <<lake, epoch, cache, copy, faults>>

\* The DDL leaves out what the live columns show to be done already.
Altered(target) == [lake EXCEPT !.shape = Max({@, target})]

\* apply_schema_plan: one transaction.
ApplySchemaPlan(x) ==
  /\ run[x].pc = "ddl" /\ slot = "free"
  /\ \/ /\ lake' = Altered(run[x].target)
        /\ Goto(x, "store")
        /\ UNCHANGED <<slot, worker, faults>>
     \/ /\ Fault
        /\ lake' \in {lake, Altered(run[x].target)}
        /\ Fails(x, FALSE)
  /\ UNCHANGED <<epoch, meta, cache, copy>>

SchemaApplied(x) ==
  /\ run[x].pc = "store"
  /\ meta' = [state |-> "applied", snapshot |-> run[x].target]
  /\ run' = [run EXCEPT ![x] = IF run[x].then = "past" THEN Past(x)
                               ELSE [run[x] EXCEPT !.pc = run[x].then]]
  /\ UNCHANGED <<lake, epoch, cache, slot, copy, worker, faults>>

\* A store or catalog call fails without an effect.
CallFails(x) ==
  /\ run[x].pc \in {"cursor", "ready", "store"}
  /\ Fault
  /\ Fails(x, FALSE)
  /\ UNCHANGED <<lake, epoch, meta, cache, copy>>

EventsWritten(x) ==
  /\ run[x].pc = "next" /\ run[x].at > run[x].to
  /\ run' = [run EXCEPT ![x] = NoTask]
  /\ worker' = IF x = "cur" THEN [worker EXCEPT !.acked = run[x].to] ELSE worker
  /\ UNCHANGED <<lake, epoch, meta, cache, slot, copy, faults>>

--------------------------------------------------------------------------------
(* The table copy *)

WorkerFailsAs(phase) == worker' = [worker EXCEPT !.phase = phase, !.manual = FALSE]
At(phase) == worker' = [worker EXCEPT !.phase = phase]

\* create_table_with_metadata: metadata, table, metadata.
CreateTable ==
  /\ \/ /\ worker.phase = "create"
        /\ \E at \in worker.reach .. Len(Source) :
             /\ copy' = [copy EXCEPT !.at = at, !.accepted = {}, !.staged = {}]
             /\ meta' = [state |-> "creating", snapshot |-> SnapshotAt(at)]
        /\ At("create_table")
        /\ UNCHANGED lake
     \/ /\ worker.phase = "create_table"
        /\ lake' = IF lake.shape = None THEN [lake EXCEPT !.shape = meta.snapshot] ELSE lake
        /\ At("create_store")
        /\ UNCHANGED <<copy, meta>>
     \/ /\ worker.phase = "create_store"
        /\ meta' = [meta EXCEPT !.state = "applied"]
        /\ At("copying")
        /\ UNCHANGED <<copy, lake>>
  /\ UNCHANGED <<epoch, cache, slot, run, faults>>

Marker(r) == <<epoch.current, r>>
\* The rows of batches without a marker, with their markers, in one transaction.
Inserted(batches) ==
  LET new == {r \in batches : Marker(r) \notin lake.markers}
  IN  [lake EXCEPT !.rows = [i \in Positions |-> IF i \in new THEN @[i] + 1 ELSE @[i]],
                   !.markers = @ \cup {Marker(r) : r \in new}]

\* The batch of row r: committed at once, or staged on the table's session.
WriteTableRows(r) ==
  /\ worker.phase = "copying" /\ r \in RowsAt(copy.at) \ copy.accepted
  /\ copy' = [copy EXCEPT !.accepted = @ \cup {r},
                          !.staged = IF copy.buffered THEN @ \cup {r} ELSE {}]
  /\ lake' = IF copy.buffered THEN lake ELSE Inserted({r})
  /\ UNCHANGED <<epoch, meta, cache, slot, run, worker, faults>>

\* The commit of a copy batch fails, or seems to; its marker decides the retry.
CopyBatchErrs(r) ==
  /\ worker.phase = "copying" /\ r \in RowsAt(copy.at) \ copy.accepted /\ ~copy.buffered
  /\ Fault
  /\ lake' \in {lake, Inserted({r})}
  /\ UNCHANGED worker \/ WorkerFailsAs("failed")
  /\ UNCHANGED <<epoch, meta, cache, slot, run, copy>>

\* The session reaches its target size, or another one needs its capacity.
FlushCopyBuffer ==
  /\ worker.phase = "copying" /\ copy.staged # {}
  /\ lake' = Inserted(copy.staged)
  /\ copy' = [copy EXCEPT !.staged = {}]
  /\ UNCHANGED <<epoch, meta, cache, slot, run, worker, faults>>

\* An ambiguous flush is not retried: the session is invalidated.
FlushErrs ==
  /\ worker.phase = "copying" /\ copy.staged # {}
  /\ Fault
  /\ lake' \in {lake, Inserted(copy.staged)}
  /\ WorkerFailsAs("failed")
  /\ copy' = [copy EXCEPT !.staged = {}]
  /\ UNCHANGED <<epoch, meta, cache, slot, run>>

\* The empty barrier flushes what is staged and answers Durable.
CopyDone ==
  /\ worker.phase = "copying" /\ copy.accepted = RowsAt(copy.at)
  /\ lake' = Inserted(copy.staged)
  /\ copy' = [copy EXCEPT !.staged = {}, !.accepted = {}]
  /\ worker' = [worker EXCEPT !.phase = "stream", !.copied = TRUE, !.sent = copy.at,
                              !.acked = copy.at, !.checkpoint = copy.at, !.reach = copy.at]
  /\ UNCHANGED <<epoch, meta, cache, slot, run, faults>>

\* The copy fails for a reason of its own, or a call of it does.
CopyFails ==
  /\ worker.phase \in {"drop", "drop_table", "complete", "prepare", "create", "create_table",
                       "create_store", "copying"}
  /\ Fault
  /\ \/ UNCHANGED lake
     \/ worker.phase = "drop_table" /\ lake' = Missing
  /\ WorkerFailsAs("failed")
  /\ UNCHANGED <<epoch, meta, cache, slot, run, copy>>

--------------------------------------------------------------------------------
(* drop_table_for_copy under the slot: begin the epoch, drop, complete it *)

BeginEpoch ==
  /\ worker.phase = "drop" /\ slot = "free"
  /\ cache' = Unknown
  /\ epoch' = [epoch EXCEPT !.pending = IF @ = None THEN epoch.current + 1 ELSE @]
  /\ copy' = [copy EXCEPT !.staged = {}]
  /\ At("drop_table")
  /\ UNCHANGED <<lake, meta, slot, run, faults>>

DropTable ==
  /\ worker.phase = "drop_table" /\ slot = "free"
  /\ lake' = Missing
  /\ At("complete")
  /\ UNCHANGED <<epoch, meta, cache, slot, run, copy, faults>>

CompleteEpoch ==
  /\ worker.phase = "complete"
  /\ epoch' = [current |-> epoch.pending, pending |-> None]
  /\ At("prepare")
  /\ UNCHANGED <<lake, meta, cache, slot, run, copy, faults>>

\* The store forgets the destination's metadata once the drop has succeeded.
PrepareForCopy ==
  /\ worker.phase = "prepare"
  /\ meta' = NoMetadata
  /\ At("create")
  /\ UNCHANGED <<lake, epoch, cache, slot, run, copy, faults>>

--------------------------------------------------------------------------------
(* The worker and the process *)

write_events ==
  /\ worker.phase = "stream" /\ run["cur"].pc = "none"
  /\ \E to \in worker.sent + 1 .. Len(Source) :
       /\ run' = [run EXCEPT !["cur"] = [NoTask EXCEPT !.pc = "next",
                                           !.at = worker.sent + 1, !.to = to]]
       /\ worker' = [worker EXCEPT !.sent = to, !.reach = Max({@, to})]
  /\ UNCHANGED <<lake, epoch, meta, cache, slot, copy, faults>>

PersistCheckpoint ==
  /\ worker.phase = "stream" /\ worker.acked > worker.checkpoint
  /\ worker' = [worker EXCEPT !.checkpoint = worker.acked]
  /\ UNCHANGED <<lake, epoch, meta, cache, slot, run, copy, faults>>

\* The worker ends for a reason of its own; a write task it spawned runs on.
WorkerFails ==
  /\ worker.phase = "stream"
  /\ Fault
  /\ \/ run["cur"].pc = "none" /\ UNCHANGED <<run, slot>>
     \/ /\ run["cur"].pc # "none" /\ run["old"].pc = "none"
        /\ run' = [run EXCEPT !["old"] = run["cur"], !["cur"] = NoTask]
        /\ slot' = IF slot = "cur" THEN "old" ELSE slot
  /\ WorkerFailsAs("failed")
  /\ UNCHANGED <<lake, epoch, meta, cache, copy>>

\* The apply worker's retry in the process: the stream restarts at the checkpoint.
RetryStream ==
  /\ worker.phase = "failed" /\ worker.copied /\ ~worker.manual
  /\ "stream" \in OverlappingRetries \/ run["old"].pc = "none"
  /\ worker' = [worker EXCEPT !.phase = "stream", !.sent = worker.checkpoint,
                              !.acked = worker.checkpoint]
  /\ UNCHANGED <<lake, epoch, meta, cache, slot, run, copy, faults>>

\* The table-sync worker's retry, or a reset of a copied table.
RetryCopy ==
  /\ worker.phase = "failed"
  /\ "copy" \in OverlappingRetries \/ run["old"].pc = "none"
  /\ worker.copied => worker.resets < MaxResets
  /\ worker' = [worker EXCEPT !.phase = IF meta = NoMetadata THEN "prepare" ELSE "drop",
                  !.copied = FALSE, !.resets = IF worker.copied THEN @ + 1 ELSE @]
  /\ UNCHANGED <<lake, epoch, meta, cache, slot, run, copy, faults>>

\* The process is gone: killed, or stopped by an error nothing retries.
ProcessEnds ==
  /\ run' = [x \in {"cur", "old"} |-> NoTask]
  /\ slot' = "free"
  /\ cache' = Unknown
  /\ copy' = [copy EXCEPT !.staged = {}]
  /\ WorkerFailsAs("stopped")
  /\ UNCHANGED <<lake, epoch, meta>>

Crash == Fault /\ ProcessEnds
StopOnManualError == worker.phase = "failed" /\ worker.manual /\ ProcessEnds /\ UNCHANGED faults

\* Variant: startup trusts metadata that is still pending.
TrustsMetadata == FALSE

PendingAtStartup == meta.state \in {"creating", "applying"}

\* startup: prepare_tables_after_restart completes a pending operation.
Startup ==
  /\ \/ /\ worker.phase = "stopped"
        /\ At(IF PendingAtStartup THEN "recover" ELSE "failed")
        /\ UNCHANGED <<lake, meta, faults>>
     \/ /\ worker.phase = "recover"
        /\ \/ /\ lake' = Altered(meta.snapshot)
              /\ At("recover_store")
              /\ UNCHANGED faults
           \/ /\ Fault
              /\ lake' \in {lake, Altered(meta.snapshot)}
              /\ At("stopped")
        /\ UNCHANGED meta
     \/ /\ worker.phase = "recover_store"
        /\ meta' = [meta EXCEPT !.state = "applied"]
        /\ At("failed")
        /\ UNCHANGED <<lake, faults>>
  /\ UNCHANGED <<epoch, cache, slot, run, copy>>

--------------------------------------------------------------------------------
TaskStep(x) ==
  \/ StartSegment(x) \/ ReadCursor(x) \/ EnsureReady(x) \/ AcquireSlot(x) \/ PrepareBatch(x)
  \/ BatchDone(x) \/ BatchRefused(x) \/ HandleRelation(x) \/ ApplySchemaPlan(x)
  \/ SchemaApplied(x) \/ EventsWritten(x)

TaskFault(x) == BatchErrs(x) \/ CallFails(x)

WorkerStep ==
  \/ CreateTable \/ (\E r \in Positions : WriteTableRows(r)) \/ FlushCopyBuffer \/ CopyDone
  \/ BeginEpoch \/ DropTable \/ CompleteEpoch \/ PrepareForCopy
  \/ write_events \/ PersistCheckpoint
  \/ RetryStream \/ RetryCopy \/ StopOnManualError \/ Startup

WorkerFault ==
  \/ \E r \in Positions : CopyBatchErrs(r)
  \/ FlushErrs \/ CopyFails \/ WorkerFails \/ Crash

Next ==
  \/ \E x \in {"cur", "old"} : TaskStep(x) \/ TaskFault(x)
  \/ WorkerStep
  \/ WorkerFault

\* Tasks are scheduled, workers go on after a failure and a stopped process is
\* restarted.
Fairness ==
  /\ \A x \in {"cur", "old"} : WF_vars(TaskStep(x))
  /\ WF_vars(WorkerStep)

Spec == Init /\ [][Next]_vars /\ Fairness

--------------------------------------------------------------------------------
\* A copied table holds every row of the source at one position, between the
\* checkpoint and the furthest event dispatched, and each of them once:
\* ambiguous commits, replays from an older checkpoint, tasks that overlap a
\* retry and resets neither lose nor duplicate a row
\* (apply_table_batch_with_retry, read_table_replay_cursor).
AppliedOnce ==
  worker.copied =>
    \E p \in worker.checkpoint .. worker.reach :
      lake.rows = [i \in Positions |-> IF i \in RowsAt(p) THEN 1 ELSE 0]

\* Once faults stop, the table reaches the end of the source: no interleaving
\* of a failed schema change and a replay leaves it refusing events for good
\* (prepare_tables_after_restart, ensure_table_ready_for_streaming_schema).
CatchesUp == <>(worker.copied /\ worker.checkpoint = Len(Source))
================================================================================
