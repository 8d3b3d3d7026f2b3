----------------------------- MODULE PostgresStore -----------------------------
(***************************************************************************)
(* The Postgres-backed pipeline store                                      *)
(* (crates/etl/src/store/both/postgres.rs and                              *)
(* crates/etl-postgres/src/store/): rows in the source database, and an    *)
(* in-memory cache that every read of states and metadata goes to.  One    *)
(* mutex is held over the database work and the cache update, so an        *)
(* operation is one step; what can still come between the two is an error  *)
(* of the COMMIT whose effect is durable all the same (or a task dropped   *)
(* there), and a crash.                                                    *)
(***************************************************************************)
EXTENDS Naturals, Sequences, FiniteSets, SchemaSnapshots

CONSTANTS
    Tables, States, InitState, Lsns, Snapshots, Metas, Absent,
    MaxCached,      \* MAX_CACHED_SCHEMAS_PER_TABLE
    MaxRows         \* bound: row identifiers ever allocated

ASSUME StoreAssumption ==
    /\ IsFiniteSet(Tables)
    /\ InitState \in States
    /\ Lsns \subseteq Nat
    /\ Snapshots \subseteq Nat \ {0}
    /\ MaxCached \in Nat \ {0}
    /\ MaxRows \in Nat
    /\ Absent \notin States /\ Absent \notin Lsns /\ Absent \notin Metas

ApplyWorker == "apply"
Workers == Tables \cup {ApplyWorker}

(* A row of etl.replication_state; prev = 0 is SQL null. *)
Row == [table : Tables, state : States, prev : 0..MaxRows, current : BOOLEAN]

VARIABLES
    rows,           \* etl.replication_state: row id -> Row
    lastId,         \* its sequence
    checkpoints,    \* etl.replication_progress
    dbMetas,        \* etl.destination_tables_metadata
    dbSchemas,      \* etl.table_schemas: snapshots stored per table
    cache,          \* Inner: states, metas, schemas, counts
    phase,          \* "down", "starting" (Pipeline::start) or "running"
    plan,           \* what initialize_table_states still has to do
    doubt           \* cache entries a lost COMMIT left behind

dbVars == <<rows, lastId, checkpoints, dbMetas, dbSchemas>>
vars == <<dbVars, cache, phase, plan, doubt>>

EmptyCache ==
    [states  |-> [t \in Tables |-> Absent],
     metas   |-> [t \in Tables |-> Absent],
     schemas |-> [t \in Tables |-> {}],
     counts  |-> [s \in States |-> 0]]

NoPlan == [add |-> {}, drop |-> {}]

-----------------------------------------------------------------------------
(* Rows.                                                                   *)

CurrentIds(t) == {i \in DOMAIN rows : rows[i].table = t /\ rows[i].current}
Stored == {t \in Tables : CurrentIds(t) # {}}
StoredState(t) == rows[CHOOSE i \in CurrentIds(t) : TRUE].state
LoadedStates == [t \in Tables |-> IF t \in Stored THEN StoredState(t) ELSE Absent]

(* update_table_state_raw for each table of `updates`: the current row is  *)
(* unmarked and the new one points to it; `order` is the order in which    *)
(* the updates are listed, hence in which the sequence numbers them.       *)
InsertRows(updates, order) ==
    LET T == DOMAIN updates
        id(t) == lastId + order[t]
        old(t) == IF CurrentIds(t) = {} THEN 0 ELSE CHOOSE i \in CurrentIds(t) : TRUE
        new == {id(t) : t \in T}
    IN  [i \in DOMAIN rows \cup new |->
            IF i \in new
            THEN LET t == CHOOSE u \in T : id(u) = i
                 IN  [table |-> t, state |-> updates[t], prev |-> old(t), current |-> TRUE]
            ELSE [rows[i] EXCEPT !.current = @ /\ rows[i].table \notin T]]

Orders(T) == {f \in [T -> 1..Cardinality(T)] : \A t, u \in T : t # u => f[t] # f[u]}

(* Variant: the row rolled back from is kept. *)
RollbackRowsKept(t) ==
    LET i == CHOOSE j \in CurrentIds(t) : TRUE
    IN  [rows EXCEPT ![rows[i].prev].current = TRUE]

(* rollback_table_state: the current row goes, its predecessor is current. *)
RollbackRows(t) ==
    LET i == CHOOSE j \in CurrentIds(t) : TRUE
    IN  [j \in DOMAIN rows \ {i} |->
            IF j = rows[i].prev THEN [rows[j] EXCEPT !.current = TRUE] ELSE rows[j]]

DeleteRows(T) == [i \in {j \in DOMAIN rows : rows[j].table \notin T} |-> rows[i]]

(* replace_table_state_raw *)
ReplaceRows(T, order) ==
    LET kept == DeleteRows(T)
        new == {lastId + order[t] : t \in T}
    IN  [i \in DOMAIN kept \cup new |->
            IF i \in new
            THEN [table |-> CHOOSE t \in T : lastId + order[t] = i,
                  state |-> InitState, prev |-> 0, current |-> TRUE]
            ELSE kept[i]]

-----------------------------------------------------------------------------
(* Statements on the other tables of the etl schema.                       *)

UpsertedCheckpoint(w, lsn) ==
    [checkpoints EXCEPT ![w] = IF @ = Absent \/ lsn > @ THEN lsn ELSE @]
WithoutCheckpoint(w) == [checkpoints EXCEPT ![w] = Absent]

WithMetadata(t, meta) == [dbMetas EXCEPT ![t] = meta]
WithoutMetadata(t) == [dbMetas EXCEPT ![t] = Absent]

WithSchema(t, s) == [dbSchemas EXCEPT ![t] = @ \cup {s}]
WithoutSchemas(t) == [dbSchemas EXCEPT ![t] = {}]

(* load_table_schemas_at_snapshot with SnapshotId::max *)
LatestSchemas ==
    [t \in Tables |-> {s \in dbSchemas[t] : \A u \in dbSchemas[t] : u <= s}]

(* load_table_schema_at_snapshot *)
SchemaAtSnapshot(t, id) == GetAtOrBefore(dbSchemas[t], id)

(* delete_obsolete_table_schema_versions: a version goes when a newer one  *)
(* lies at or before the table's retention boundary.                       *)
WithoutObsolete(retention) ==
    [t \in Tables |->
        {s \in dbSchemas[t] :
            ~ (t \in DOMAIN retention /\ \E u \in dbSchemas[t] : s < u /\ u <= retention[t])}]

-----------------------------------------------------------------------------
(* Cache.                                                                  *)

Listed == {t \in Tables : cache.states[t] # Absent}

Minus(n) == IF n = 0 THEN 0 ELSE n - 1          \* saturating_sub

InitStateCounts(states) ==
    [s \in States |-> Cardinality({t \in Tables : states[t] = s})]

(* Inner::set_table_state for each table of the updates.                   *)
SetTableStates(c, updates) ==
    LET T == DOMAIN updates
    IN  [c EXCEPT
          !.states = [t \in Tables |-> IF t \in T THEN updates[t] ELSE c.states[t]],
          !.counts = [s \in States |->
                        (c.counts[s] + Cardinality({t \in T : updates[t] = s}))
                        - Cardinality({t \in T : c.states[t] = s})]]

SetTableState(c, t, s) == SetTableStates(c, [x \in {t} |-> s])

(* Inner::remove_table_state *)
RemoveTableState(c, t) ==
    IF c.states[t] = Absent THEN c
    ELSE [c EXCEPT !.states[t] = Absent, !.counts[c.states[t]] = Minus(@)]

(* Entries of the cache, for `doubt`. *)
StateOf(T) == {<<"state", t>> : t \in T}
MetaOf(t) == {<<"meta", t>>}
SchemaOf(t) == {<<"schema", t>>}

Forget(c, t) == [c EXCEPT !.schemas[t] = {}, !.metas[t] = Absent]

(* How an operation that has written to the database ends: its cache       *)
(* update runs; or the COMMIT is reported as failed although it is durable *)
(* and the caller goes on with the old cache.                              *)
Finish(newCache, written) ==
    \/ cache' = newCache /\ doubt' = doubt \ written
    \/ cache' = cache /\ doubt' = doubt \cup written

-----------------------------------------------------------------------------
Init ==
    /\ rows = << >> /\ lastId = 0
    /\ checkpoints = [w \in Workers |-> Absent]
    /\ dbMetas = [t \in Tables |-> Absent]
    /\ dbSchemas = [t \in Tables |-> {}]
    /\ cache = EmptyCache
    /\ phase = "down" /\ plan = NoPlan /\ doubt = {}

(* Pipeline::start: load_destination_tables_metadata, load_table_schemas   *)
(* (the latest version of each table only), load_table_states; then the    *)
(* publication read from the source decides which tables are new and which *)
(* are gone.                                                               *)
Load(publication) ==
    /\ phase = "down"
    /\ cache' = [states  |-> LoadedStates,
                 metas   |-> dbMetas,
                 schemas |-> LatestSchemas,
                 counts  |-> InitStateCounts(LoadedStates)]
    /\ phase' = "starting"
    /\ plan' = [add |-> publication \ Stored, drop |-> Stored \ publication]
    /\ doubt' = {}
    /\ UNCHANGED dbVars

(* A failing call makes Pipeline::start return: the process ends. *)
StartStep(newCache) ==
    \/ cache' = newCache /\ UNCHANGED <<phase, doubt>>
    \/ cache' = EmptyCache /\ phase' = "down" /\ doubt' = {}

InitializeTable(t) ==
    LET u == [x \in {t} |-> InitState]
    IN  /\ phase = "starting" /\ t \in plan.add
        /\ lastId < MaxRows
        /\ rows' = InsertRows(u, [x \in {t} |-> 1])
        /\ lastId' = lastId + 1
        /\ StartStep(SetTableState(cache, t, InitState))
        /\ plan' = IF phase' = "down" THEN NoPlan ELSE [plan EXCEPT !.add = @ \ {t}]
        /\ UNCHANGED <<checkpoints, dbMetas, dbSchemas>>

(* TableStateOperation::Delete, for a table that left the publication. *)
DeleteTableState(t) ==
    /\ phase = "starting" /\ plan.add = {} /\ t \in plan.drop
    /\ dbMetas' = WithoutMetadata(t)
    /\ dbSchemas' = WithoutSchemas(t)
    /\ rows' = DeleteRows({t})
    /\ checkpoints' = WithoutCheckpoint(t)
    /\ StartStep(Forget(RemoveTableState(cache, t), t))
    /\ plan' = IF phase' = "down" THEN NoPlan ELSE [plan EXCEPT !.drop = @ \ {t}]
    /\ UNCHANGED lastId

Started ==
    /\ phase = "starting" /\ plan = NoPlan
    /\ phase' = "running"
    /\ UNCHANGED <<dbVars, cache, plan, doubt>>

(* The process ends, at any point. *)
Crash ==
    /\ phase # "down"
    /\ phase' = "down" /\ cache' = EmptyCache /\ plan' = NoPlan /\ doubt' = {}
    /\ UNCHANGED dbVars

-----------------------------------------------------------------------------
(* Operations of the running workers.                                      *)

Running == phase = "running" /\ UNCHANGED <<phase, plan>>

UpdateTableStates(updates) ==
    LET T == DOMAIN updates
    IN  /\ Running
        /\ T # {} /\ T \subseteq Listed
        /\ lastId + Cardinality(T) <= MaxRows
        /\ \E order \in Orders(T) : rows' = InsertRows(updates, order)
        /\ lastId' = lastId + Cardinality(T)
        /\ Finish(SetTableStates(cache, updates), StateOf(T))
        /\ UNCHANGED <<checkpoints, dbMetas, dbSchemas>>

(* Without a current row that has a predecessor the call is an error.      *)
RollbackTableState(t) ==
    /\ Running
    /\ \E i \in CurrentIds(t) :
          /\ rows[i].prev # 0
          /\ rows' = RollbackRows(t)
          /\ Finish(SetTableState(cache, t, rows[rows[i].prev].state), StateOf({t}))
    /\ UNCHANGED <<lastId, checkpoints, dbMetas, dbSchemas>>

(* Checkpoints are not cached and take no lock: one statement each. *)
UpsertCheckpoint(w, lsn) ==
    /\ Running /\ w \in Listed \cup {ApplyWorker}
    /\ checkpoints' = UpsertedCheckpoint(w, lsn)
    /\ UNCHANGED <<rows, lastId, dbMetas, dbSchemas, cache, doubt>>

DeleteCheckpoint(w) ==
    /\ Running /\ w \in Listed \cup {ApplyWorker}
    /\ checkpoints' = WithoutCheckpoint(w)
    /\ UNCHANGED <<rows, lastId, dbMetas, dbSchemas, cache, doubt>>

StoreMetadata(t, meta) ==
    /\ Running /\ t \in Listed
    /\ dbMetas' = WithMetadata(t, meta)
    /\ Finish([cache EXCEPT !.metas[t] = meta], MetaOf(t))
    /\ UNCHANGED <<rows, lastId, checkpoints, dbSchemas>>

StoreSchema(t, s) ==
    /\ Running /\ t \in Listed
    /\ dbSchemas' = WithSchema(t, s)
    /\ \/ /\ cache' = [cache EXCEPT !.schemas[t] = InsertWithEviction(@, s, MaxCached)]
          /\ UNCHANGED doubt
       \/ cache' = cache /\ doubt' = doubt \cup SchemaOf(t)
    /\ UNCHANGED <<rows, lastId, checkpoints, dbMetas>>

(* get_table_schema answers from the cache when it can; otherwise it loads *)
(* from the database and caches what it loaded.                            *)
LookupSchema(t, id) ==
    IF AtOrBefore(cache.schemas[t], id) # {}
    THEN GetAtOrBefore(cache.schemas[t], id)
    ELSE SchemaAtSnapshot(t, id)

GetTableSchema(t, id) ==
    /\ Running /\ t \in Listed
    /\ AtOrBefore(cache.schemas[t], id) = {}
    /\ LookupSchema(t, id) # NoSnapshot
    /\ cache' = [cache EXCEPT !.schemas[t] =
                    InsertWithEviction(@, LookupSchema(t, id), MaxCached)]
    /\ UNCHANGED <<dbVars, doubt>>

PruneSchemas(retention) ==
    LET pruned == [t \in Tables |-> IF t \in DOMAIN retention
                                    THEN Prune(cache.schemas[t], retention[t])
                                    ELSE cache.schemas[t]]
    IN  /\ Running
        /\ DOMAIN retention \subseteq Listed
        /\ dbSchemas' = WithoutObsolete(retention)
        /\ \/ cache' = [cache EXCEPT !.schemas = pruned] /\ UNCHANGED doubt
           \/ cache' = cache /\ doubt' = doubt \cup UNION {SchemaOf(t) : t \in DOMAIN retention}
        /\ UNCHANGED <<rows, lastId, checkpoints, dbMetas>>

(* Variant: the checkpoint of the table's worker survives. *)
PrepareForCopyPartial(t) ==
    /\ Running /\ t \in Listed
    /\ dbMetas' = WithoutMetadata(t)
    /\ dbSchemas' = WithoutSchemas(t)
    /\ Finish(Forget(cache, t), MetaOf(t) \cup SchemaOf(t))
    /\ UNCHANGED <<rows, lastId, checkpoints>>

PrepareForCopy(t) ==
    /\ Running /\ t \in Listed
    /\ dbMetas' = WithoutMetadata(t)
    /\ dbSchemas' = WithoutSchemas(t)
    /\ checkpoints' = WithoutCheckpoint(t)
    /\ Finish(Forget(cache, t), MetaOf(t) \cup SchemaOf(t))
    /\ UNCHANGED <<rows, lastId>>

(* Variant: the cached states are not reset. *)
ResetForResyncStale ==
    LET u == [t \in Listed |-> InitState]
    IN  /\ Running
        /\ lastId + Cardinality(Listed) <= MaxRows
        /\ \E order \in Orders(Listed) : rows' = InsertRows(u, order)
        /\ lastId' = lastId + Cardinality(Listed)
        /\ checkpoints' = WithoutCheckpoint(ApplyWorker)
        /\ UNCHANGED <<cache, doubt, dbMetas, dbSchemas>>

(* Ranges over the tables the CACHE lists. *)
ResetForResync ==
    LET u == [t \in Listed |-> InitState]
    IN  /\ Running
        /\ lastId + Cardinality(Listed) <= MaxRows
        /\ \E order \in Orders(Listed) : rows' = InsertRows(u, order)
        /\ lastId' = lastId + Cardinality(Listed)
        /\ checkpoints' = WithoutCheckpoint(ApplyWorker)
        /\ Finish(SetTableStates(cache, u), StateOf(Listed))
        /\ UNCHANGED <<dbMetas, dbSchemas>>

(* The management API's rollback_tables, once it has stopped the runtime. *)
ReplaceTableStates(T) ==
    /\ phase = "down"
    /\ T # {} /\ T \subseteq Stored
    /\ lastId + Cardinality(T) <= MaxRows
    /\ \E order \in Orders(T) : rows' = ReplaceRows(T, order)
    /\ lastId' = lastId + Cardinality(T)
    /\ UNCHANGED <<checkpoints, dbMetas, dbSchemas, cache, phase, plan, doubt>>

Next ==
    \/ \E P \in SUBSET Tables : Load(P)
    \/ \E t \in Tables : InitializeTable(t) \/ DeleteTableState(t)
    \/ Started
    \/ Crash
    \/ \E T \in SUBSET Tables : \E u \in [T -> States] : UpdateTableStates(u)
    \/ \E t \in Tables : RollbackTableState(t)
    \/ \E w \in Workers : \E l \in Lsns : UpsertCheckpoint(w, l)
    \/ \E w \in Workers : DeleteCheckpoint(w)
    \/ \E t \in Tables : \E m \in Metas : StoreMetadata(t, m)
    \/ \E t \in Tables : \E s \in Snapshots : StoreSchema(t, s) \/ GetTableSchema(t, s)
    \/ \E T \in (SUBSET Tables) \ {{}} : \E r \in [T -> Snapshots] : PruneSchemas(r)
    \/ \E t \in Tables : PrepareForCopy(t)
    \/ ResetForResync
    \/ \E T \in SUBSET Tables : ReplaceTableStates(T)

Spec == Init /\ [][Next]_vars

-----------------------------------------------------------------------------
(* Properties.                                                             *)

Cache ==
    [states  : [Tables -> States \cup {Absent}],
     metas   : [Tables -> Metas \cup {Absent}],
     schemas : [Tables -> SUBSET Snapshots],
     counts  : [States -> 0..Cardinality(Tables)]]

(* Every variable keeps its type, the cache its bound of                   *)
(* MAX_CACHED_SCHEMAS_PER_TABLE snapshots per table included.              *)
TypeOK ==
    /\ lastId \in 0..MaxRows
    /\ DOMAIN rows \subseteq 1..lastId
    /\ \A i \in DOMAIN rows : rows[i] \in Row
    /\ checkpoints \in [Workers -> Lsns \cup {Absent}]
    /\ dbMetas \in [Tables -> Metas \cup {Absent}]
    /\ dbSchemas \in [Tables -> SUBSET Snapshots]
    /\ cache \in Cache
    /\ \A t \in Tables : Cardinality(cache.schemas[t]) <= MaxCached
    /\ phase \in {"down", "starting", "running"}
    /\ plan \in [add : SUBSET Tables, drop : SUBSET Tables]
    /\ doubt \subseteq {"state", "meta", "schema"} \X Tables

(* The history rows of a table form one chain: the current row is its only *)
(* end, one row has no predecessor, and every other row's predecessor is   *)
(* an older row of the same table that no other row follows.  This is what *)
(* lets rollback_table_state fetch the predecessor with fetch_one.         *)
RowChains ==
    \A t \in Tables :
        LET own == {i \in DOMAIN rows : rows[i].table = t}
            followed == {rows[i].prev : i \in own} \ {0}
        IN  own # {} =>
              /\ followed \subseteq own
              /\ \A i \in own : rows[i].prev < i
              /\ \A i, j \in own : i # j => rows[i].prev # rows[j].prev
              /\ \A i \in own : rows[i].current <=> i \notin followed
              /\ Cardinality(CurrentIds(t)) = 1

(* While a pipeline runs, the states and the metadata its workers read     *)
(* from the cache are the ones in the database, except where a COMMIT was  *)
(* reported lost; the cache always lists exactly the stored tables, so     *)
(* ResetForResync, which ranges over the cache, misses none; and the       *)
(* counts kept by increments and decrements agree with the states.         *)
CacheCoherent ==
    /\ phase # "down" => cache.counts = InitStateCounts(cache.states)
    /\ phase = "running" => Listed = Stored
    /\ phase # "down" => \A t \in Tables :
          /\ <<"state", t>> \notin doubt /\ t \in Stored
                => cache.states[t] = StoredState(t)
          /\ <<"meta", t>> \notin doubt => cache.metas[t] = dbMetas[t]

(* The newest stored schema of a table is always cached, whatever older    *)
(* snapshots lookups pulled in, eviction dropped and pruning removed: a    *)
(* lookup at the present never answers with an outdated schema.            *)
LatestSchemaCached ==
    phase # "down" => \A t \in Tables :
        <<"schema", t>> \notin doubt
            => \A s \in dbSchemas[t] : \E c \in cache.schemas[t] : c >= s

-----------------------------------------------------------------------------
(* The abstract store this one implements: a table's history is its chain  *)
(* of rows.                                                                *)

Chain ==
    LET chain[i \in 0..MaxRows] ==
          IF i \notin DOMAIN rows THEN <<>>
          ELSE Append(chain[rows[i].prev], rows[i].state)
    IN  chain

HistoryOf(t) ==
    IF t \in Stored THEN Chain[CHOOSE i \in CurrentIds(t) : TRUE] ELSE <<>>

Contract == INSTANCE PipelineStore WITH
    history <- [t \in Tables |-> HistoryOf(t)],
    metadata <- dbMetas,
    schemas <- dbSchemas

(* Every step of the Postgres store is one operation of the abstract store *)
(* on the persisted state, or changes nothing a restart would see: in      *)
(* particular a rollback restores exactly the state the last update        *)
(* replaced, and a reset reaches every table.                              *)
ImplementsContract == Contract!Spec

=============================================================================
