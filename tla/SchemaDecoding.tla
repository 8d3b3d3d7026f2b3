---------------------------- MODULE SchemaDecoding ----------------------------
(***************************************************************************)
(* How the apply worker picks the schema that decodes a row                *)
(* (crates/etl/src/replication/apply.rs, decoding_state.rs): DDL messages, *)
(* RELATION messages and rows of one table on a connection that may break  *)
(* and resume at the persisted checkpoint; the stored schema snapshots     *)
(* behind a small cache; the schema the destination has applied; and the   *)
(* background task that prunes snapshots nothing refers to any more.       *)
(*                                                                         *)
(* The source table has a physical version, raised by every DDL that       *)
(* changes it.  A schema snapshot stands for the version it was taken at,  *)
(* a relation mask for the version of the RELATION message that supplied   *)
(* it: a row is decoded correctly iff both are the version it was written  *)
(* under.                                                                  *)
(***************************************************************************)
EXTENDS Naturals, Sequences, SchemaSnapshots, FiniteSetsExt

CONSTANTS
    Shapes,         \* the transactions that may occur: sequences of items
    NumTx,          \* transactions in the WAL
    Adjacent,       \* whether commit records may follow one another directly
    MaxCached,      \* MAX_CACHED_SCHEMAS_PER_TABLE
    QueueCap,       \* SCHEMA_CLEANUP_QUEUE_TABLE_CAPACITY
    MaxBreaks       \* bound: connections lost, relation caches invalidated

(* "ddl" changes the table, "noop" is DDL that emits a schema message but  *)
(* leaves pgoutput's relation cache alone, "row" and "trunc" are changes.  *)
Items == {"ddl", "noop", "row", "trunc"}

ASSUME DecodingAssumption ==
    /\ Shapes \subseteq Seq(Items) /\ IsFiniteSet(Shapes) /\ Shapes # {}
    /\ NumTx \in Nat /\ MaxBreaks \in Nat
    /\ MaxCached \in Nat \ {0} /\ QueueCap \in Nat \ {0}
    /\ Adjacent \in BOOLEAN

VARIABLES
    wal,            \* the transactions, in commit order
    base,           \* version the initial copy stored as snapshot 0:0
    table,          \* stored table state: SyncDone with its decoder, or Ready
    stored,         \* schema snapshots in the database
    cached,         \* and in the store's cache
    meta,           \* destination table metadata
    checkpoint,     \* persisted replication checkpoint
    conn,           \* the connection and its decoding state for the table
    outbox,         \* events on their way to the destination
    flagged,        \* the table is in pending_relation_table_ids
    queue,          \* cleanup requests: retention snapshots
    verdict,        \* "ok", or why the apply loop failed
    breaks

vars == <<wal, base, table, stored, cached, meta, checkpoint, conn, outbox,
          flagged, queue, verdict, breaks>>

-----------------------------------------------------------------------------
(* The WAL.  A transaction's commit record starts at its commit LSN and    *)
(* ends at its end LSN, which is the next commit LSN when the two records  *)
(* are adjacent.                                                           *)

CommitLsn(i) == IF Adjacent THEN i ELSE 2 * i
EndLsn(i) == CommitLsn(i) + 1

Width == Max({Len(s) : s \in Shapes}) + 1

(* Snapshot (commit_lsn, message_lsn) of item j of transaction i; the      *)
(* initial copy's is 0:0.                                                  *)
Snap(i, j) == i * Width + j + 1
Initial == Snap(0, 0)

(* SnapshotId::at_lsn: above every message of a transaction whose commit   *)
(* record is at or before the LSN.                                         *)
AtLsn(lsn) == Max({(i + 1) * Width : i \in {k \in 0..NumTx : CommitLsn(k) <= lsn}})

DdlItems(i) == {k \in 1..Len(wal[i]) : wal[i][k] = "ddl"}

(* The physical version after item j of transaction i. *)
VersionAfterTx(n) == 1 + Cardinality(UNION {{i} \X DdlItems(i) : i \in 1..n})
VersionAt(i, j) == VersionAfterTx(i - 1) + Cardinality({k \in DdlItems(i) : k <= j})

SnapVersion(s) ==
    IF s = Initial THEN base ELSE VersionAt((s - 1) \div Width, (s - 1) % Width)

IsDdl(i, j) == wal[i][j] \in {"ddl", "noop"}
DdlSnaps(from, to) ==
    UNION {{Snap(i, j) : j \in {k \in 1..Len(wal[i]) : IsDdl(i, k)}} : i \in from..to}

-----------------------------------------------------------------------------
(* Decoding states of a connection: nothing, PendingRelation with the      *)
(* masks of the previous decoder if there were any, WithSchema.            *)

NoMask == 0

Nothing == [kind |-> "none", snap |-> NoSnapshot, mask |-> NoMask]
Pending(s, m) == [kind |-> "pending", snap |-> s, mask |-> m]
With(s, m) == [kind |-> "with", snap |-> s, mask |-> m]

RelationEvent(s, m) == [type |-> "relation", snap |-> s, mask |-> m, version |-> 0]
RowEvent(s, m, v) == [type |-> "row", snap |-> s, mask |-> m, version |-> v]
CommitEvent(i) == [type |-> "commit", snap |-> i, mask |-> NoMask, version |-> 0]

(* Where START_REPLICATION resumes: the first transaction whose commit     *)
(* record is at or after the checkpoint.                                   *)
ResumeTx(lsn) == Min({i \in 1..NumTx + 1 : i = NumTx + 1 \/ CommitLsn(i) >= lsn})

Connect(lsn) ==
    [tx |-> ResumeTx(lsn), item |-> 1, sent |-> FALSE,
     bootstrap |-> AtLsn(lsn), dec |-> Nothing]

(* The copy saw transactions 1..c and table sync caught up through d, the  *)
(* schema messages of c+1..d stored on the way.  SyncDone needs a complete *)
(* decoder: a row must follow the last schema message.                     *)
CanHandOver(c, d) ==
    \A i \in c + 1 .. d : \A j \in 1..Len(wal[i]) :
        IsDdl(i, j) => \E k \in i..d : \E l \in 1..Len(wal[k]) :
                          Snap(k, l) > Snap(i, j) /\ ~ IsDdl(k, l)

Init ==
    /\ wal \in [1..NumTx -> Shapes]
    /\ \E c \in 0..NumTx : \E d \in c..NumTx : \E from \in 0..d :
          /\ CanHandOver(c, d)
          /\ base = VersionAfterTx(c)
          /\ stored = {Initial} \cup DdlSnaps(c + 1, d)
          /\ cached = {s \in stored : Cardinality({u \in stored : u > s}) < MaxCached}
          /\ table = [kind |-> "syncdone", lsn |-> EndLsn(d), snap |-> Max(stored),
                      mask |-> VersionAfterTx(d)]
          /\ meta = [status |-> "applied", snap |-> Max(stored), previous |-> NoSnapshot]
          /\ checkpoint = IF from = 0 THEN 0 ELSE EndLsn(from)
          /\ conn = Connect(checkpoint)
    /\ outbox = <<>> /\ flagged = FALSE /\ queue = <<>>
    /\ verdict = "ok" /\ breaks = 0

-----------------------------------------------------------------------------
(* Schema lookups, through the store's cache.                              *)

Lookup(id) == IF AtOrBefore(cached, id) # {} THEN GetAtOrBefore(cached, id)
              ELSE GetAtOrBefore(stored, id)

CacheAfterLookup(id) ==
    IF AtOrBefore(cached, id) # {} \/ Lookup(id) = NoSnapshot THEN cached
    ELSE InsertWithEviction(cached, Lookup(id), MaxCached)

Owned(lsn) == table.kind = "ready" \/ table.lsn <= lsn

(* get_table_schema_for_relation with an exact snapshot. *)
Found(s) == Lookup(s) = s

Fail(why) ==
    /\ verdict' = why
    /\ UNCHANGED <<wal, base, table, stored, cached, meta, checkpoint, conn, outbox,
                   flagged, queue, breaks>>

Live == verdict = "ok" /\ conn.tx <= NumTx
AtItem(items) == Live /\ conn.item <= Len(wal[conn.tx]) /\ wal[conn.tx][conn.item] \in items
Here == VersionAt(conn.tx, conn.item)
Truncates(i, j) == i <= NumTx /\ j <= Len(wal[i]) /\ wal[i][j] = "trunc"
Advance(dec) ==
    [conn EXCEPT !.item = @ + 1, !.dec = dec,
                 !.sent = @ /\ wal[conn.tx][conn.item] # "ddl"
                            /\ ~ Truncates(conn.tx, conn.item + 1)]
Unowned == ~ Owned(CommitLsn(conn.tx))

(* Mutant of StoreTableSchema: the schema is not stored. *)
SkipTableSchema(s) == UNCHANGED <<stored, cached>>

StoreTableSchema(s) ==
    /\ stored' = stored \cup {s}
    /\ cached' = InsertWithEviction(cached, s, MaxCached)

(* handle_message: a schema message.  The exact snapshot is recorded, the  *)
(* masks of the previous decoder kept as a fallback, the schema stored.    *)
HandleDdlMessage ==
    LET s == Snap(conn.tx, conn.item)
    IN  /\ AtItem({"ddl", "noop"})
        /\ IF Unowned
           THEN conn' = Advance(conn.dec) /\ UNCHANGED <<stored, cached>>
           ELSE /\ conn' = Advance(Pending(s, conn.dec.mask))
                /\ StoreTableSchema(s)
        /\ UNCHANGED <<wal, base, table, meta, checkpoint, outbox, flagged, queue, verdict, breaks>>

(* pgoutput sends a RELATION before a change when it has not sent one on   *)
(* this connection since the last invalidation; a truncate invalidates.    *)
NeedsRelation == ~ conn.sent

(* Mutants of Selection: a fresh connection takes the newest schema; a     *)
(* pending schema message is resolved by position instead of exactly.      *)
SelectionOfNewest ==
    IF conn.dec.kind # "none" THEN [exact |-> TRUE, id |-> conn.dec.snap]
    ELSE [exact |-> FALSE, id |-> Max(stored)]
SelectionByBootstrap == [exact |-> FALSE, id |-> conn.bootstrap]

(* select_relation_schema *)
Selection ==
    IF conn.dec.kind # "none" THEN [exact |-> TRUE, id |-> conn.dec.snap]
    ELSE [exact |-> FALSE,
          id |-> IF table.kind = "syncdone" /\ table.lsn <= CommitLsn(conn.tx)
                    /\ AtLsn(table.lsn) > conn.bootstrap
                 THEN AtLsn(table.lsn) ELSE conn.bootstrap]

HandleRelationMessage ==
    /\ AtItem({"row", "trunc"}) /\ NeedsRelation
    /\ IF Unowned
       THEN /\ conn' = [conn EXCEPT !.sent = TRUE]
            /\ UNCHANGED <<wal, base, table, stored, cached, meta, checkpoint, outbox,
                           flagged, queue, verdict, breaks>>
       ELSE LET id == Selection.id
                s == Lookup(id)
            IN  IF s = NoSnapshot \/ (Selection.exact /\ s # id) THEN Fail("missing")
                ELSE /\ conn' = [conn EXCEPT !.sent = TRUE, !.dec = With(s, Here)]
                     /\ cached' = CacheAfterLookup(id)
                     /\ outbox' = Append(outbox, RelationEvent(s, Here))
                     /\ UNCHANGED <<wal, base, table, stored, meta, checkpoint, flagged,
                                    queue, verdict, breaks>>

(* resolve_sync_done_replicated_table_schema *)
SyncDoneDecoder ==
    IF table.kind = "syncdone" /\ table.lsn <= CommitLsn(conn.tx)
    THEN With(table.snap, table.mask) ELSE Nothing

(* get_replicated_table_schema: the decoder of a row and the relation      *)
(* event that must reach the destination before it.                        *)
Resolved ==
    CASE conn.dec.kind = "with" -> [dec |-> conn.dec, relation |-> <<>>]
      [] conn.dec.kind = "pending" ->
            LET mask == IF conn.dec.mask # NoMask THEN conn.dec.mask ELSE SyncDoneDecoder.mask
            IN  [dec |-> With(conn.dec.snap, mask),
                 relation |-> <<RelationEvent(conn.dec.snap, mask)>>]
      [] OTHER -> [dec |-> SyncDoneDecoder, relation |-> <<>>]

HandleRowMessage ==
    /\ AtItem({"row"}) /\ ~ NeedsRelation
    /\ IF Unowned
       THEN /\ conn' = Advance(conn.dec)
            /\ UNCHANGED <<wal, base, table, stored, cached, meta, checkpoint, outbox,
                           flagged, queue, verdict, breaks>>
       ELSE LET dec == Resolved.dec
            IN  IF dec.mask = NoMask THEN Fail("undecodable")
                ELSE IF conn.dec.kind # "with" /\ ~ Found(dec.snap) THEN Fail("missing")
                ELSE /\ conn' = Advance(dec)
                     /\ cached' = IF conn.dec.kind = "with" THEN cached
                                  ELSE CacheAfterLookup(dec.snap)
                     /\ outbox' = outbox \o Resolved.relation
                                     \o <<RowEvent(dec.snap, dec.mask, Here)>>
                     /\ UNCHANGED <<wal, base, table, stored, meta, checkpoint, flagged,
                                    queue, verdict, breaks>>

(* A truncate needs a materialized decoder. *)
HandleTruncateMessage ==
    /\ AtItem({"trunc"}) /\ ~ NeedsRelation
    /\ IF ~ Unowned /\ conn.dec.kind # "with" THEN Fail("undecodable")
       ELSE /\ conn' = Advance(conn.dec)
            /\ outbox' = IF Unowned THEN outbox
                         ELSE Append(outbox, RowEvent(conn.dec.snap, conn.dec.mask, Here))
            /\ UNCHANGED <<wal, base, table, stored, cached, meta, checkpoint, flagged,
                           queue, verdict, breaks>>

(* pgoutput's relation cache is invalidated by something other than the    *)
(* table's own DDL and truncates (Advance has those).                      *)
Invalidate ==
    /\ Live /\ conn.sent /\ breaks < MaxBreaks
    /\ breaks' = breaks + 1
    /\ conn' = [conn EXCEPT !.sent = FALSE]
    /\ UNCHANGED <<wal, base, table, stored, cached, meta, checkpoint, outbox, flagged,
                   queue, verdict>>

HandleCommitMessage ==
    /\ Live /\ conn.item > Len(wal[conn.tx])
    /\ conn' = [conn EXCEPT !.tx = @ + 1, !.item = 1,
                            !.sent = @ /\ ~ Truncates(conn.tx + 1, 1)]
    /\ outbox' = Append(outbox, CommitEvent(conn.tx))
    /\ UNCHANGED <<wal, base, table, stored, cached, meta, checkpoint, flagged, queue,
                   verdict, breaks>>

-----------------------------------------------------------------------------
(* The destination, one event at a time and in order.                      *)

Working == verdict = "ok" /\ outbox # <<>>

(* A relation moves the applied schema forward through Applying; an older  *)
(* one is refused as a rewind.                                             *)
ApplyRelation ==
    LET e == Head(outbox)
    IN  /\ Working /\ e.type = "relation" /\ meta.status # "interrupted"
        /\ IF meta.status = "applying"
           THEN /\ meta' = [meta EXCEPT !.status = "applied", !.previous = NoSnapshot]
                /\ outbox' = Tail(outbox) /\ flagged' = TRUE
                /\ UNCHANGED <<wal, base, table, stored, cached, checkpoint, conn, queue,
                               verdict, breaks>>
           ELSE IF e.snap < meta.snap THEN Fail("rewind")
           ELSE IF e.snap = meta.snap
           THEN /\ outbox' = Tail(outbox) /\ flagged' = TRUE
                /\ UNCHANGED <<wal, base, table, stored, cached, meta, checkpoint, conn,
                               queue, verdict, breaks>>
           ELSE /\ meta' = [status |-> "applying", snap |-> e.snap, previous |-> meta.snap]
                /\ UNCHANGED <<wal, base, table, stored, cached, checkpoint, conn, outbox,
                               flagged, queue, verdict, breaks>>

(* After a restart an interrupted change is resolved to one endpoint.  The *)
(* destination needs both stored schemas to tell which it has reached.     *)
RecoverInterrupted ==
    /\ verdict = "ok" /\ meta.status = "interrupted"
    /\ IF ~ {meta.previous, meta.snap} \subseteq stored THEN Fail("missing")
       ELSE /\ \E s \in {meta.previous, meta.snap} :
                  meta' = [status |-> "applied", snap |-> s, previous |-> NoSnapshot]
            /\ UNCHANGED <<wal, base, table, stored, cached, checkpoint, conn, outbox,
                           flagged, queue, verdict, breaks>>

(* Rows must match the applied schema exactly. *)
WriteRow ==
    /\ Working /\ Head(outbox).type = "row" /\ meta.status # "interrupted"
    /\ IF meta.status # "applied" \/ meta.snap # Head(outbox).snap THEN Fail("mismatch")
       ELSE /\ outbox' = Tail(outbox)
            /\ UNCHANGED <<wal, base, table, stored, cached, meta, checkpoint, conn,
                           flagged, queue, verdict, breaks>>

(* Variant: the checkpoint alone decides what to keep. *)
RetentionByCheckpoint(lsn) == AtLsn(lsn)

(* try_queue_schema_cleanup *)
HasRoom == Len(queue) < QueueCap

(* get_table_schema_retention_snapshot_ids, for the one table *)
Retention(lsn) ==
    Min({AtLsn(lsn), meta.snap}
        \cup IF meta.status \in {"applying", "interrupted"} THEN {meta.previous} ELSE {})

(* A durable result with a commit: the checkpoint is persisted, SyncDone   *)
(* becomes Ready once the checkpoint covers it and the connection has a    *)
(* decoder, and cleanup is queued if the table saw a relation.             *)
CompleteCommit ==
    LET lsn == EndLsn(Head(outbox).snap)
        ready == table.kind = "ready" \/ (conn.dec.kind = "with" /\ lsn >= table.lsn)
        candidate == flagged /\ (ready \/ table.lsn <= lsn)
    IN  /\ Working /\ Head(outbox).type = "commit" /\ meta.status # "interrupted"
        /\ outbox' = Tail(outbox)
        /\ checkpoint' = Max({checkpoint, lsn})
        /\ table' = IF ready THEN [table EXCEPT !.kind = "ready"] ELSE table
        /\ IF candidate /\ HasRoom
           THEN queue' = Append(queue, Retention(checkpoint')) /\ flagged' = FALSE
           ELSE queue' = queue /\ flagged' = (flagged /\ candidate)
        /\ UNCHANGED <<wal, base, stored, cached, meta, conn, verdict, breaks>>

(* The cleanup task drains what is queued; the last request for the table  *)
(* is the one that counts.                                                 *)
PruneSchemas ==
    /\ queue # <<>>
    /\ queue' = <<>>
    /\ stored' = Prune(stored, queue[Len(queue)])
    /\ cached' = Prune(cached, queue[Len(queue)])
    /\ UNCHANGED <<wal, base, table, meta, checkpoint, conn, outbox, flagged, verdict, breaks>>

-----------------------------------------------------------------------------
(* Faults.  A lost connection restarts the apply worker at the persisted   *)
(* checkpoint, after its cleanup task has drained; a crash also empties    *)
(* the queue and the cache, which restarts with the newest snapshot only.  *)

Resume ==
    /\ breaks < MaxBreaks /\ verdict = "ok"
    /\ breaks' = breaks + 1
    /\ conn' = Connect(checkpoint)
    /\ outbox' = <<>> /\ flagged' = FALSE
    /\ meta' = IF meta.status = "applying" THEN [meta EXCEPT !.status = "interrupted"] ELSE meta

Reconnect ==
    /\ Resume /\ queue = <<>>
    /\ UNCHANGED <<wal, base, table, stored, cached, checkpoint, queue, verdict>>

Restart ==
    /\ Resume
    /\ queue' = <<>>
    /\ cached' = {Max(stored)}
    /\ UNCHANGED <<wal, base, table, stored, checkpoint, verdict>>

Next ==
    \/ HandleDdlMessage \/ HandleRelationMessage \/ HandleRowMessage
    \/ HandleTruncateMessage \/ HandleCommitMessage \/ Invalidate
    \/ ApplyRelation \/ RecoverInterrupted \/ WriteRow \/ CompleteCommit
    \/ PruneSchemas
    \/ Reconnect \/ Restart

Spec == Init /\ [][Next]_vars

-----------------------------------------------------------------------------
(* The values of every variable. *)
TypeOK ==
    /\ wal \in [1..NumTx -> Shapes]
    /\ base \in Nat
    /\ table.kind \in {"syncdone", "ready"}
    /\ stored \subseteq Nat /\ cached \subseteq stored
    /\ meta.status \in {"applied", "applying", "interrupted"}
    /\ checkpoint \in Nat /\ conn.tx \in 1..NumTx + 1
    /\ conn.dec.kind \in {"none", "pending", "with"}
    /\ Len(queue) <= QueueCap
    /\ verdict \in {"ok", "missing", "undecodable", "mismatch", "rewind"}
    /\ flagged \in BOOLEAN /\ breaks \in 0..MaxBreaks

(* Every row sent to the destination was decoded with the columns and the  *)
(* replication masks in force when it was written, across reconnects,      *)
(* restarts, cache eviction and replay of DDL already stored               *)
(* (select_relation_schema, get_replicated_table_schema).                  *)
DecodedInForce ==
    \A i \in DOMAIN outbox :
        outbox[i].type = "row" =>
            /\ SnapVersion(outbox[i].snap) = outbox[i].version
            /\ outbox[i].mask = outbox[i].version

(* The apply loop never meets a row or relation it has no schema for: not  *)
(* after cleanup, not after a restart with an almost empty cache, not when *)
(* a change was interrupted at the destination; and the destination never  *)
(* gets a row for a schema other than the one it has applied               *)
(* (MissingTableSchema, InvalidState errors of the lookups).               *)
NoDecodeFailure == verdict \in {"ok", "rewind"}

(* Cleanup, which runs on its own against a checkpoint that has moved on,  *)
(* never deletes a schema the destination has applied, or either endpoint  *)
(* of a change it is in the middle of (try_queue_schema_cleanup).          *)
EndpointsRetained ==
    /\ meta.snap \in stored
    /\ meta.previous # NoSnapshot => meta.previous \in stored

=============================================================================
