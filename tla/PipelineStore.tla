----------------------------- MODULE PipelineStore -----------------------------
(***************************************************************************)
(* What a pipeline store promises its callers: the contract of the traits  *)
(* StateStore, SchemaStore and TableStateLifecycleStore                    *)
(* (crates/etl/src/store/{state,schema}/base.rs, store/lifecycle.rs), with *)
(* no rows, caches or locks.  Every operation takes effect in one step or  *)
(* not at all.  PostgresStore and MemoryStore implement it.                *)
(***************************************************************************)
EXTENDS Naturals, Sequences, SchemaSnapshots

CONSTANTS
    Tables,         \* table identifiers
    States,         \* table states that may be stored
    InitState,      \* TableState::Init
    Lsns,           \* checkpoint positions
    Snapshots,      \* schema snapshot identifiers
    Metas,          \* destination table metadata values
    Absent          \* no checkpoint, no metadata

(* A checkpoint belongs to the apply worker or to one table-sync worker. *)
ApplyWorker == "apply"
Workers == Tables \cup {ApplyWorker}

VARIABLES
    history,        \* per table, every state it can still be rolled back to,
                    \* the current one last; empty when the table is unknown
    checkpoints,
    metadata,
    schemas

storeVars == <<history, checkpoints, metadata, schemas>>

Known == {t \in Tables : history[t] # <<>>}
Current(t) == history[t][Len(history[t])]

Init ==
    /\ history = [t \in Tables |-> <<>>]
    /\ checkpoints = [w \in Workers |-> Absent]
    /\ metadata = [t \in Tables |-> Absent]
    /\ schemas = [t \in Tables |-> {}]

UpdateTableStates(updates) ==
    /\ history' = [t \in Tables |-> IF t \in DOMAIN updates
                                    THEN Append(history[t], updates[t])
                                    ELSE history[t]]
    /\ UNCHANGED <<checkpoints, metadata, schemas>>

(* Without a previous state the call fails and changes nothing. *)
RollbackTableState(t) ==
    /\ Len(history[t]) > 1
    /\ history' = [history EXCEPT ![t] = SubSeq(@, 1, Len(@) - 1)]
    /\ UNCHANGED <<checkpoints, metadata, schemas>>

(* A checkpoint never moves backwards. *)
UpsertCheckpoint(w, lsn) ==
    /\ checkpoints' = [checkpoints EXCEPT ![w] =
                          IF @ = Absent \/ lsn > @ THEN lsn ELSE @]
    /\ UNCHANGED <<history, metadata, schemas>>

DeleteCheckpoint(w) ==
    /\ checkpoints' = [checkpoints EXCEPT ![w] = Absent]
    /\ UNCHANGED <<history, metadata, schemas>>

StoreMetadata(t, meta) ==
    /\ metadata' = [metadata EXCEPT ![t] = meta]
    /\ UNCHANGED <<history, checkpoints, schemas>>

StoreSchema(t, s) ==
    /\ schemas' = [schemas EXCEPT ![t] = @ \cup {s}]
    /\ UNCHANGED <<history, checkpoints, metadata>>

PruneSchemas(retention) ==
    /\ schemas' = [t \in Tables |-> IF t \in DOMAIN retention
                                    THEN Prune(schemas[t], retention[t])
                                    ELSE schemas[t]]
    /\ UNCHANGED <<history, checkpoints, metadata>>

(* Everything a fresh copy must not see goes at once; the state stays. *)
PrepareForCopy(t) ==
    /\ metadata' = [metadata EXCEPT ![t] = Absent]
    /\ schemas' = [schemas EXCEPT ![t] = {}]
    /\ checkpoints' = [checkpoints EXCEPT ![t] = Absent]
    /\ UNCHANGED history

(* Every table the store knows starts over, and so does the apply worker. *)
ResetForResync ==
    /\ history' = [t \in Tables |-> IF t \in Known
                                    THEN Append(history[t], InitState)
                                    ELSE history[t]]
    /\ checkpoints' = [checkpoints EXCEPT ![ApplyWorker] = Absent]
    /\ UNCHANGED <<metadata, schemas>>

DeleteTableState(t) ==
    /\ history' = [history EXCEPT ![t] = <<>>]
    /\ metadata' = [metadata EXCEPT ![t] = Absent]
    /\ schemas' = [schemas EXCEPT ![t] = {}]
    /\ checkpoints' = [checkpoints EXCEPT ![t] = Absent]

(* The management API replaces whole histories, and nothing else, while no *)
(* replicator runs.                                                        *)
ReplaceTableStates(T) ==
    /\ history' = [t \in Tables |-> IF t \in T THEN <<InitState>> ELSE history[t]]
    /\ UNCHANGED <<checkpoints, metadata, schemas>>

Next ==
    \/ \E T \in (SUBSET Tables) \ {{}} : \E u \in [T -> States] : UpdateTableStates(u)
    \/ \E t \in Tables : RollbackTableState(t)
    \/ \E w \in Workers : \E l \in Lsns : UpsertCheckpoint(w, l)
    \/ \E w \in Workers : DeleteCheckpoint(w)
    \/ \E t \in Tables : \E m \in Metas : StoreMetadata(t, m)
    \/ \E t \in Tables : \E s \in Snapshots : StoreSchema(t, s)
    \/ \E T \in SUBSET Tables : \E r \in [T -> Snapshots] : PruneSchemas(r)
    \/ \E t \in Tables : PrepareForCopy(t)
    \/ ResetForResync
    \/ \E t \in Tables : DeleteTableState(t)
    \/ \E T \in SUBSET Tables : T \subseteq Known /\ ReplaceTableStates(T)

Spec == Init /\ [][Next]_storeVars

=============================================================================
