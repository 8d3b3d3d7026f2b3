------------------------------ MODULE MemoryStore ------------------------------
(***************************************************************************)
(* The in-memory pipeline store (crates/etl/src/store/both/memory.rs): the *)
(* current state of a table apart from a stack of the states it had, all   *)
(* under one mutex.  Nothing survives the process.                         *)
(***************************************************************************)
EXTENDS Naturals, Sequences, SchemaSnapshots

CONSTANTS Tables, States, InitState, Lsns, Snapshots, Metas, Absent,
    MaxHistory      \* bound: states kept per table

ApplyWorker == "apply"
Workers == Tables \cup {ApplyWorker}

VARIABLES tableStates, stateHistory, checkpoints, metadata, schemas
vars == <<tableStates, stateHistory, checkpoints, metadata, schemas>>

Listed == {t \in Tables : tableStates[t] # Absent}

Init ==
    /\ tableStates = [t \in Tables |-> Absent]
    /\ stateHistory = [t \in Tables |-> <<>>]
    /\ checkpoints = [w \in Workers |-> Absent]
    /\ metadata = [t \in Tables |-> Absent]
    /\ schemas = [t \in Tables |-> {}]

(* Each updated table pushes the state it has, if any, on its history. *)
SetStates(updates) ==
    LET T == DOMAIN updates
    IN  /\ \A t \in T : Len(stateHistory[t]) < MaxHistory
        /\ stateHistory' = [t \in Tables |-> IF t \in T \cap Listed
                                THEN Append(stateHistory[t], tableStates[t])
                                ELSE stateHistory[t]]
        /\ tableStates' = [t \in Tables |-> IF t \in T THEN updates[t] ELSE tableStates[t]]

UpdateTableStates(updates) ==
    /\ SetStates(updates)
    /\ UNCHANGED <<checkpoints, metadata, schemas>>

RollbackTableState(t) ==
    /\ stateHistory[t] # <<>>
    /\ tableStates' = [tableStates EXCEPT ![t] = stateHistory[t][Len(stateHistory[t])]]
    /\ stateHistory' = [stateHistory EXCEPT ![t] = SubSeq(@, 1, Len(@) - 1)]
    /\ UNCHANGED <<checkpoints, metadata, schemas>>

UpsertCheckpoint(w, lsn) ==
    /\ checkpoints' = [checkpoints EXCEPT ![w] = IF @ = Absent \/ lsn > @ THEN lsn ELSE @]
    /\ UNCHANGED <<tableStates, stateHistory, metadata, schemas>>

DeleteCheckpoint(w) ==
    /\ checkpoints' = [checkpoints EXCEPT ![w] = Absent]
    /\ UNCHANGED <<tableStates, stateHistory, metadata, schemas>>

StoreMetadata(t, meta) ==
    /\ metadata' = [metadata EXCEPT ![t] = meta]
    /\ UNCHANGED <<tableStates, stateHistory, checkpoints, schemas>>

StoreSchema(t, s) ==
    /\ schemas' = [schemas EXCEPT ![t] = @ \cup {s}]
    /\ UNCHANGED <<tableStates, stateHistory, checkpoints, metadata>>

PruneSchemas(retention) ==
    /\ schemas' = [t \in Tables |-> IF t \in DOMAIN retention
                                    THEN Prune(schemas[t], retention[t]) ELSE schemas[t]]
    /\ UNCHANGED <<tableStates, stateHistory, checkpoints, metadata>>

PrepareForCopy(t) ==
    /\ schemas' = [schemas EXCEPT ![t] = {}]
    /\ metadata' = [metadata EXCEPT ![t] = Absent]
    /\ checkpoints' = [checkpoints EXCEPT ![t] = Absent]
    /\ UNCHANGED <<tableStates, stateHistory>>

ResetForResync ==
    /\ SetStates([t \in Listed |-> InitState])
    /\ checkpoints' = [checkpoints EXCEPT ![ApplyWorker] = Absent]
    /\ UNCHANGED <<metadata, schemas>>

DeleteTableState(t) ==
    /\ tableStates' = [tableStates EXCEPT ![t] = Absent]
    /\ stateHistory' = [stateHistory EXCEPT ![t] = <<>>]
    /\ schemas' = [schemas EXCEPT ![t] = {}]
    /\ metadata' = [metadata EXCEPT ![t] = Absent]
    /\ checkpoints' = [checkpoints EXCEPT ![t] = Absent]

Next ==
    \/ \E T \in (SUBSET Tables) \ {{}} : \E u \in [T -> States] : UpdateTableStates(u)
    \/ \E t \in Tables : RollbackTableState(t)
    \/ \E w \in Workers : \E l \in Lsns : UpsertCheckpoint(w, l)
    \/ \E w \in Workers : DeleteCheckpoint(w)
    \/ \E t \in Tables : \E m \in Metas : StoreMetadata(t, m)
    \/ \E t \in Tables : \E s \in Snapshots : StoreSchema(t, s)
    \/ \E T \in (SUBSET Tables) \ {{}} : \E r \in [T -> Snapshots] : PruneSchemas(r)
    \/ \E t \in Tables : PrepareForCopy(t)
    \/ ResetForResync
    \/ \E t \in Tables : DeleteTableState(t)

Spec == Init /\ [][Next]_vars

-----------------------------------------------------------------------------
Contract == INSTANCE PipelineStore WITH
    history <- [t \in Tables |->
                  IF tableStates[t] = Absent THEN stateHistory[t]
                  ELSE Append(stateHistory[t], tableStates[t])]

(* Every operation of the in-memory store has the effect the Postgres      *)
(* store has on what it persists: tests that run a pipeline on this store  *)
(* exercise the same contract, histories and pruning included.             *)
ImplementsContract == Contract!Spec

=============================================================================
