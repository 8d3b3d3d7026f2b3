-------------------------- MODULE BigQueryDestination --------------------------
(***************************************************************************)
(* One source table at the BigQuery destination.                           *)
(*                                                                         *)
(* The physical table carries a sequence number: TRUNCATE creates the next *)
(* one, moves the view and the durable metadata to it and lets a           *)
(* background task drop the old one.  None of these calls is transactional *)
(* with another, so every store or BigQuery call below is a step, and the  *)
(* process may crash, or the call fail, between any two.                   *)
(*                                                                         *)
(* A row is the index of the source event that wrote it; a schema snapshot *)
(* is the number of relation events before it.                             *)
(***************************************************************************)
EXTENDS Integers, FiniteSets, Sequences, FiniteSetsExt

CONSTANTS
  Source,        \* the table's events, over {"row", "truncate", "relation"}
  MaxSequence,   \* bound: sequence numbers of physical tables
  MaxFaults,     \* bound: failing calls, failing workers and crashes
  MaxAttempts,   \* bound: table copies
  OverlappingRetries  \* the retries, of {"stream", "copy"}, that may start
                      \* while a task of the worker before them still runs

ASSUME BigQueryAssumption ==
  /\ Source \in Seq({"row", "truncate", "relation"})
  /\ MaxSequence \in Nat /\ MaxFaults \in Nat /\ MaxAttempts \in Nat \ {0}

VARIABLES
  meta,      \* destination metadata in the store
  tables,    \* physical tables by sequence number
  view,      \* the sequence number the view points to
  created_views,  \* the process's cache of the view's target
  lock,      \* who holds `inner`
  run,       \* the write of this attempt ("cur") and one left over ("old")
  cleanups,  \* sequence numbers background tasks still have to drop
  worker,    \* the worker of the table: its phase, attempt and positions
  faults

vars == <<meta, tables, view, created_views, lock, run, cleanups, worker, faults>>

--------------------------------------------------------------------------------
Positions == 0 .. Len(Source)
Sequences == 0 .. MaxSequence
None == -1
Mixed == -2    \* the shape of a table some of whose DDL has been applied

\* The schema snapshot in force after event i.
SnapshotAt(i) == Cardinality({j \in 1 .. i : Source[j] = "relation"})

\* Whether the source table is truncated by one of the events from .. to.
Truncates(from, to) == \E k \in from .. to : Source[k] = "truncate"

\* The rows of the source table after event i.
RowsAt(i) == {j \in 1 .. i : Source[j] = "row" /\ ~Truncates(j, i)}

\* The last position of the run of equal events that starts at i, up to `to`.
LastOfRun(i, to) ==
  Max({k \in i .. to : \A j \in i .. k : Source[j] = Source[i]})

NoMetadata == [state |-> "none", table |-> None, snapshot |-> None]
Metadata == [state : {"creating", "applying", "applied"}, table : Sequences,
             snapshot : Positions] \cup {NoMetadata}

Missing == [shape |-> None, rows |-> {}]
Exists(n) == tables[n].shape # None
Fresh(snapshot) == [shape |-> snapshot, rows |-> {}]

NotRunning == [pc |-> "none", kind |-> "none", at |-> 0, to |-> 0,
               base |-> NoMetadata, obsolete |-> {}]

TypeOK ==
  /\ meta \in Metadata
  /\ tables \in [Sequences -> [shape : Positions \cup {None, Mixed}, rows : SUBSET Positions]]
  /\ view \in Sequences \cup {None}
  /\ created_views \in Sequences \cup {None}
  /\ lock \in {"free", "cur", "old"}
  /\ run \in [{"cur", "old"} ->
       [pc : {"none", "next", "create", "store", "view", "append", "ddl",
              "ddl_rest", "recreate_view", "cache_view", "relation_applied",
              "new_table", "new_view", "new_metadata"},
        kind : {"none", "copy", "events"}, at : 0 .. Len(Source) + 1, to : Positions,
        base : Metadata, obsolete : SUBSET Sequences]]
  /\ cleanups \subseteq Sequences
  /\ worker \in [phase : {"drop_view", "drop_tables", "clear_cache", "prepare", "copy",
                          "copying", "stream", "failed"},
                 attempt : 0 .. MaxAttempts, sent : Positions, acked : Positions,
                 checkpoint : Positions, reach : Positions, copied : BOOLEAN,
                 listed : SUBSET Sequences]
  /\ faults \in 0 .. MaxFaults

Init ==
  /\ meta = NoMetadata
  /\ tables = [n \in Sequences |-> Missing]
  /\ view = None
  /\ created_views = None
  /\ lock = "free"
  /\ run = [x \in {"cur", "old"} |-> NotRunning]
  /\ cleanups = {}
  /\ worker = [phase |-> "copy", attempt |-> 1, sent |-> 0, acked |-> 0,
               checkpoint |-> 0, reach |-> 0, copied |-> FALSE, listed |-> {}]
  /\ faults = 0

--------------------------------------------------------------------------------
(* write_table_rows and write_events, one store or BigQuery call at a time *)

Goto(x, pc) == run' = [run EXCEPT ![x].pc = pc]
Hold(x) == lock' = x
Release == lock' = "free"

CopiesRows(x) == run[x].kind = "copy"
AtEvent(x, event) ==
  run[x].kind = "events" /\ run[x].at <= run[x].to /\ Source[run[x].at] = event
SnapshotOf(x) == SnapshotAt(IF CopiesRows(x) THEN run[x].to ELSE run[x].at)
RowsOf(x) == IF CopiesRows(x) THEN RowsAt(run[x].to)
             ELSE run[x].at .. LastOfRun(run[x].at, run[x].to)
Past(x, last) == [run[x] EXCEPT !.pc = "next", !.at = last + 1]

\* The write fails: its task ends, and its worker, if it still listens, too.
Fails(x) ==
  /\ run' = [run EXCEPT ![x] = NotRunning]
  /\ lock' = IF lock = x THEN "free" ELSE lock
  /\ worker' = IF x = "cur" THEN [worker EXCEPT !.phase = "failed"] ELSE worker

\* Variant: rows of a schema that the table has left behind are taken.
AcceptsOlderSnapshot(snapshot) == meta.snapshot >= snapshot

ensure_destination_schema_matches_metadata(snapshot) == meta.snapshot = snapshot

\* resolve_or_create_table_for_schema up to its first remote effect.
ResolveAccepts(snapshot) ==
  \/ meta = NoMetadata
  \/ /\ meta.state # "applying"
     /\ ensure_destination_schema_matches_metadata(snapshot)

ResolveTable(x) ==
  LET created == [state |-> "creating", table |-> 0, snapshot |-> SnapshotOf(x)]
  IN  /\ run[x].pc = "next"
      /\ (CopiesRows(x) /\ run[x].at <= run[x].to) \/ AtEvent(x, "row")
      /\ lock = "free"
      /\ IF ~ResolveAccepts(SnapshotOf(x))
         THEN Fails(x) /\ UNCHANGED meta
         ELSE /\ meta' = IF meta = NoMetadata THEN created ELSE meta
              /\ run' = [run EXCEPT ![x].pc = IF meta.state = "applied" THEN "view" ELSE "create",
                                    ![x].base = meta']
              /\ Hold(x)
              /\ UNCHANGED worker
      /\ UNCHANGED <<tables, view, created_views, cleanups, faults>>

CreateTableIfMissing(x) ==
  LET n == run[x].base.table
  IN  /\ run[x].pc = "create"
      /\ tables' = IF Exists(n) THEN tables
                   ELSE [tables EXCEPT ![n] = Fresh(run[x].base.snapshot)]
      /\ Goto(x, "store")
      /\ UNCHANGED <<meta, view, created_views, lock, cleanups, worker, faults>>

StoreApplied(x) ==
  /\ run[x].pc = "store"
  /\ meta' = [run[x].base EXCEPT !.state = "applied"]
  /\ Goto(x, "view")
  /\ UNCHANGED <<tables, view, created_views, lock, cleanups, worker, faults>>

\* Writes the view unless the cache says that it already points to n.
ensure_view_points_to_table(n) ==
  /\ view' = IF created_views = n THEN view ELSE n
  /\ created_views' = n

EnsureView(x) ==
  /\ run[x].pc = "view"
  /\ ensure_view_points_to_table(run[x].base.table)
  /\ Goto(x, "append")
  /\ Release
  /\ UNCHANGED <<meta, tables, cleanups, worker, faults>>

\* BigQuery takes rows only into a table that has their shape; without rows
\* there is no request.
CanAppend(x) == RowsOf(x) = {} \/ tables[run[x].base.table].shape = SnapshotOf(x)

AppendRows(x) ==
  LET n == run[x].base.table
  IN  /\ run[x].pc = "append"
      /\ IF CanAppend(x)
         THEN /\ tables' = [tables EXCEPT ![n].rows = @ \cup RowsOf(x)]
              /\ run' = [run EXCEPT ![x] =
                   Past(x, IF CopiesRows(x) THEN run[x].to ELSE LastOfRun(run[x].at, run[x].to))]
              /\ UNCHANGED <<lock, worker>>
         ELSE Fails(x) /\ UNCHANGED tables
      /\ UNCHANGED <<meta, view, created_views, cleanups, faults>>

\* An append is a set of requests: any of them may have succeeded.
AppendInPart(x) ==
  /\ run[x].pc = "append" /\ CanAppend(x)
  /\ faults < MaxFaults /\ faults' = faults + 1
  /\ \E done \in SUBSET RowsOf(x) :
       tables' = [tables EXCEPT ![run[x].base.table].rows = @ \cup done]
  /\ Fails(x)
  /\ UNCHANGED <<meta, view, created_views, cleanups>>

\* Any other store or BigQuery call may fail without an effect.
CallFails(x) ==
  /\ run[x].pc \notin {"none", "next", "append", "cache_view"}
  /\ faults < MaxFaults /\ faults' = faults + 1
  /\ Fails(x)
  /\ UNCHANGED <<meta, tables, view, created_views, cleanups>>

--------------------------------------------------------------------------------
(* handle_relation_event: holds no lock, marks Applying around the DDL *)

HandleRelation(x) ==
  /\ run[x].pc = "next" /\ AtEvent(x, "relation")
  /\ \/ /\ meta.state # "applied" \/ SnapshotOf(x) < meta.snapshot
        /\ Fails(x)
        /\ UNCHANGED meta
     \/ /\ meta.state = "applied" /\ SnapshotOf(x) = meta.snapshot
        /\ run' = [run EXCEPT ![x] = Past(x, run[x].at)]
        /\ UNCHANGED <<meta, lock, worker>>
     \/ /\ meta.state = "applied" /\ SnapshotOf(x) > meta.snapshot
        /\ meta' = [meta EXCEPT !.state = "applying", !.snapshot = SnapshotOf(x)]
        /\ run' = [run EXCEPT ![x].pc = "ddl", ![x].base = meta']
        /\ UNCHANGED <<lock, worker>>
  /\ UNCHANGED <<tables, view, created_views, cleanups, faults>>

\* Part of the plan's operations, then the rest: BigQuery has no DDL
\* transaction.
ApplySchemaPlan(x) ==
  LET n == run[x].base.table
  IN  /\ \/ run[x].pc = "ddl" /\ Exists(n)
            /\ tables' = [tables EXCEPT ![n].shape = Mixed] /\ Goto(x, "ddl_rest")
         \/ run[x].pc = "ddl_rest" /\ Exists(n)
            /\ tables' = [tables EXCEPT ![n].shape = run[x].base.snapshot]
            /\ Goto(x, "recreate_view")
      /\ UNCHANGED <<meta, view, created_views, lock, cleanups, worker, faults>>

\* DDL on a table that is gone.
PlanMissesTable(x) ==
  /\ run[x].pc \in {"ddl", "ddl_rest"} /\ ~Exists(run[x].base.table)
  /\ Fails(x)
  /\ UNCHANGED <<meta, tables, view, created_views, cleanups, faults>>

RecreateView(x) ==
  /\ \/ /\ run[x].pc = "recreate_view"
        /\ view' = run[x].base.table
        /\ Goto(x, "cache_view")
        /\ UNCHANGED created_views
     \/ /\ run[x].pc = "cache_view" /\ lock = "free"
        /\ created_views' = run[x].base.table
        /\ Goto(x, "relation_applied")
        /\ UNCHANGED view
  /\ UNCHANGED <<meta, tables, lock, cleanups, worker, faults>>

RelationApplied(x) ==
  /\ run[x].pc = "relation_applied"
  /\ meta' = [run[x].base EXCEPT !.state = "applied"]
  /\ run' = [run EXCEPT ![x] = Past(x, run[x].at)]
  /\ UNCHANGED <<tables, view, created_views, lock, cleanups, worker, faults>>

--------------------------------------------------------------------------------
(* process_truncate_for_schemas, under `inner` from the first call on *)

\* The generations a truncate leaves behind: the current table and every later
\* one that an interrupted truncate has already created.
NextSequence == Min({n \in Sequences : n > meta.table /\ ~Exists(n)} \cup {MaxSequence + 1})
\* Variant: the bound of the abandoned generations is off by one.
ObsoleteThrough(n) == meta.table .. n

ObsoleteBefore(n) == meta.table .. n - 1

ProcessTruncate(x) ==
  LET last == LastOfRun(run[x].at, run[x].to)
  IN  /\ run[x].pc = "next" /\ AtEvent(x, "truncate")
      /\ lock = "free"
      /\ \/ /\ meta = NoMetadata
            /\ run' = [run EXCEPT ![x] = Past(x, last)]
            /\ UNCHANGED <<lock, worker>>
         \/ /\ meta # NoMetadata
            /\ \/ meta.state # "applied"
               \/ ~ensure_destination_schema_matches_metadata(SnapshotOf(x))
            /\ Fails(x)
         \/ /\ meta.state = "applied"
            /\ ensure_destination_schema_matches_metadata(SnapshotOf(x))
            /\ NextSequence <= MaxSequence
            /\ run' = [run EXCEPT ![x].pc = "new_table",
                                  ![x].base = [meta EXCEPT !.table = NextSequence],
                                  ![x].obsolete = ObsoleteBefore(NextSequence)]
            /\ Hold(x)
            /\ UNCHANGED worker
      /\ UNCHANGED <<meta, tables, view, created_views, cleanups, faults>>

CreateGeneration(x) ==
  /\ run[x].pc = "new_table"
  /\ tables' = [tables EXCEPT ![run[x].base.table] = Fresh(run[x].base.snapshot)]
  /\ Goto(x, "new_view")
  /\ UNCHANGED <<meta, view, created_views, lock, cleanups, worker, faults>>

MoveView(x) ==
  /\ run[x].pc = "new_view"
  /\ ensure_view_points_to_table(run[x].base.table)
  /\ Goto(x, "new_metadata")
  /\ UNCHANGED <<meta, tables, lock, cleanups, worker, faults>>

MoveMetadata(x) ==
  /\ run[x].pc = "new_metadata"
  /\ meta' = run[x].base
  /\ cleanups' = cleanups \cup run[x].obsolete
  /\ run' = [run EXCEPT ![x] = Past(x, LastOfRun(run[x].at, run[x].to))]
  /\ Release
  /\ UNCHANGED <<tables, view, created_views, worker, faults>>

\* One drop of a cleanup task; an error is logged and the table stays.
CleanUp(n) ==
  /\ n \in cleanups
  /\ cleanups' = cleanups \ {n}
  /\ \/ tables' = [tables EXCEPT ![n] = Missing] /\ UNCHANGED faults
     \/ faults < MaxFaults /\ faults' = faults + 1 /\ UNCHANGED tables
  /\ UNCHANGED <<meta, view, created_views, lock, run, worker>>

--------------------------------------------------------------------------------
(* The worker: copy, stream, retry; and the process *)

StartCopy ==
  /\ worker.phase = "copy" /\ run["cur"].pc = "none"
  /\ \E snapshot \in worker.reach .. Len(Source) :
       run' = [run EXCEPT !["cur"] = [NotRunning EXCEPT !.pc = "next", !.kind = "copy",
                                        !.at = snapshot, !.to = snapshot]]
  /\ worker' = [worker EXCEPT !.phase = "copying"]
  /\ UNCHANGED <<meta, tables, view, created_views, lock, cleanups, faults>>

Ended(x) == run[x].pc = "next" /\ run[x].at > run[x].to

\* The copy's Durable result: streaming starts at the copy's position.
CopyDone ==
  LET at == run["cur"].to
  IN  /\ worker.phase = "copying" /\ Ended("cur")
      /\ worker' = [worker EXCEPT !.phase = "stream", !.sent = at, !.acked = at,
                                  !.checkpoint = at, !.reach = at, !.copied = TRUE]
      /\ run' = [run EXCEPT !["cur"] = NotRunning]
      /\ UNCHANGED <<meta, tables, view, created_views, lock, cleanups, faults>>

\* Spawns the task; the loop has one write in flight.
write_events ==
  /\ worker.phase = "stream" /\ run["cur"].pc = "none"
  /\ \E to \in worker.sent + 1 .. Len(Source) :
       /\ run' = [run EXCEPT !["cur"] = [NotRunning EXCEPT !.pc = "next", !.kind = "events",
                                           !.at = worker.sent + 1, !.to = to]]
       /\ worker' = [worker EXCEPT !.sent = to, !.reach = Max({@, to})]
  /\ UNCHANGED <<meta, tables, view, created_views, lock, cleanups, faults>>

EventsWritten(x) ==
  /\ run[x].kind = "events" /\ Ended(x)
  /\ run' = [run EXCEPT ![x] = NotRunning]
  /\ worker' = IF x = "cur" THEN [worker EXCEPT !.acked = run[x].to] ELSE worker
  /\ UNCHANGED <<meta, tables, view, created_views, lock, cleanups, faults>>

PersistCheckpoint ==
  /\ worker.phase = "stream" /\ worker.acked > worker.checkpoint
  /\ worker' = [worker EXCEPT !.checkpoint = worker.acked]
  /\ UNCHANGED <<meta, tables, view, created_views, lock, run, cleanups, faults>>

\* The worker ends for a reason of its own, as on an error of the source.  A
\* write task it has spawned runs on.
WorkerFails ==
  /\ worker.phase = "stream"
  /\ faults < MaxFaults /\ faults' = faults + 1
  /\ \/ run["cur"].pc = "none" /\ UNCHANGED <<run, lock>>
     \/ /\ run["cur"].pc # "none" /\ run["old"].pc = "none"
        /\ run' = [run EXCEPT !["old"] = run["cur"], !["cur"] = NotRunning]
        /\ lock' = IF lock = "cur" THEN "old" ELSE lock
  /\ worker' = [worker EXCEPT !.phase = "failed"]
  /\ UNCHANGED <<meta, tables, view, created_views, cleanups>>

\* The apply worker's retry: the stream restarts at the checkpoint.
RetryStream ==
  /\ worker.phase = "failed" /\ worker.copied
  /\ "stream" \in OverlappingRetries \/ run["old"].pc = "none"
  /\ worker' = [worker EXCEPT !.phase = "stream", !.sent = worker.checkpoint,
                              !.acked = worker.checkpoint]
  /\ UNCHANGED <<meta, tables, view, created_views, lock, run, cleanups, faults>>

\* The table-sync worker's retry, or a table reset: drop, then copy again.  The
\* tables to drop are listed first.
RetryCopy ==
  /\ worker.phase = "failed" /\ worker.attempt < MaxAttempts
  /\ "copy" \in OverlappingRetries \/ (run["old"].pc = "none" /\ cleanups = {})
  /\ worker' = [worker EXCEPT !.phase = IF meta = NoMetadata THEN "prepare" ELSE "drop_view",
                              !.attempt = @ + 1, !.copied = FALSE,
                              !.listed = {n \in Sequences : Exists(n)} \cup ({meta.table} \ {None})]
  /\ UNCHANGED <<meta, tables, view, created_views, lock, run, cleanups, faults>>

DropView ==
  /\ worker.phase = "drop_view"
  /\ view' = None
  /\ worker' = [worker EXCEPT !.phase = "drop_tables"]
  /\ UNCHANGED <<meta, tables, created_views, lock, run, cleanups, faults>>

DropTables ==
  /\ worker.phase = "drop_tables"
  /\ \/ \E n \in worker.listed :
          /\ tables' = [tables EXCEPT ![n] = Missing]
          /\ worker' = [worker EXCEPT !.listed = @ \ {n}]
     \/ /\ worker.listed = {}
        /\ worker' = [worker EXCEPT !.phase = "clear_cache"]
        /\ UNCHANGED tables
  /\ UNCHANGED <<meta, view, created_views, lock, run, cleanups, faults>>

\* Variant: the cached target survives the drop of the view.
KeepsViewCache == created_views

clear_view_cache == None

ClearViewCache ==
  /\ worker.phase = "clear_cache" /\ lock = "free"
  /\ created_views' = clear_view_cache
  /\ worker' = [worker EXCEPT !.phase = "prepare"]
  /\ UNCHANGED <<meta, tables, view, lock, run, cleanups, faults>>

DropFails ==
  /\ worker.phase \in {"drop_view", "drop_tables", "prepare"}
  /\ faults < MaxFaults /\ faults' = faults + 1
  /\ worker' = [worker EXCEPT !.phase = "failed"]
  /\ UNCHANGED <<meta, tables, view, created_views, lock, run, cleanups>>

\* The store forgets the destination's metadata once the drop has succeeded.
PrepareForCopy ==
  /\ worker.phase = "prepare"
  /\ meta' = NoMetadata
  /\ worker' = [worker EXCEPT !.phase = "copy"]
  /\ UNCHANGED <<tables, view, created_views, lock, run, cleanups, faults>>

\* A crash, or a shutdown, which aborts the tasks.
Crash ==
  /\ faults < MaxFaults /\ faults' = faults + 1
  /\ run' = [x \in {"cur", "old"} |-> NotRunning]
  /\ lock' = "free"
  /\ created_views' = None
  /\ cleanups' = {}
  /\ worker' = [worker EXCEPT !.phase = "failed", !.listed = {}]
  /\ UNCHANGED <<meta, tables, view>>

--------------------------------------------------------------------------------
Step(x) ==
  \/ ResolveTable(x) \/ CreateTableIfMissing(x) \/ StoreApplied(x) \/ EnsureView(x)
  \/ AppendRows(x) \/ AppendInPart(x) \/ CallFails(x)
  \/ HandleRelation(x) \/ ApplySchemaPlan(x) \/ PlanMissesTable(x)
  \/ RecreateView(x) \/ RelationApplied(x)
  \/ ProcessTruncate(x) \/ CreateGeneration(x) \/ MoveView(x) \/ MoveMetadata(x)
  \/ EventsWritten(x)

Next ==
  \/ \E x \in {"cur", "old"} : Step(x)
  \/ \E n \in Sequences : CleanUp(n)
  \/ StartCopy \/ CopyDone \/ write_events \/ PersistCheckpoint \/ WorkerFails
  \/ RetryStream \/ RetryCopy \/ DropView \/ DropTables \/ ClearViewCache \/ DropFails
  \/ PrepareForCopy \/ Crash

Spec == Init /\ [][Next]_vars

--------------------------------------------------------------------------------
\* Of a copied table, the physical table the metadata names holds the source's
\* rows of some position between the checkpoint and the furthest event ever
\* dispatched, and beyond those only rows that the replay from the checkpoint
\* will write, or truncate, again: interrupted truncates, replays over a newer
\* generation and the cleanup tasks lose and keep nothing
\* (process_truncate_for_schemas, resolve_or_create_table_for_schema).
RowsAccounted ==
  worker.copied =>
    /\ meta # NoMetadata /\ Exists(meta.table)
    /\ \E p \in worker.checkpoint .. worker.reach :
         /\ RowsAt(p) \subseteq tables[meta.table].rows
         /\ \A row \in tables[meta.table].rows :
              row \in RowsAt(p) \/ row > worker.checkpoint \/ Truncates(worker.checkpoint + 1, p)

\* Once everything dispatched is acknowledged and durable, users see through
\* the view exactly the table that the metadata names: the view cache never
\* hides that the view is missing or points to another generation
\* (ensure_view_points_to_table, clear_view_cache).
ViewIsCurrent ==
  /\ worker.copied /\ worker.phase = "stream"
  /\ worker.checkpoint = worker.reach
  => view = meta.table

\* A prepared write finds its table with the shape of its rows: a table whose
\* schema change was interrupted, or has moved on, is never written to
\* (the is_applying check, ensure_destination_schema_matches_metadata).
WritesFitTheTable == \A x \in {"cur", "old"} : run[x].pc = "append" => CanAppend(x)
================================================================================
