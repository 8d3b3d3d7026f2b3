------------------------------- MODULE MCStores -------------------------------
(***************************************************************************)
(* Both pipeline stores in one instance: a pipeline runs on the Postgres   *)
(* store or on the in-memory one, never on both.  Tables are symmetric: no *)
(* definition distinguishes or orders them.                                *)
(***************************************************************************)
EXTENDS PostgresStore, TLC

CONSTANT MaxHistory

VARIABLES kind, tableStates, stateHistory, memCheckpoints, metadata, schemas

memVars == <<tableStates, stateHistory, memCheckpoints, metadata, schemas>>
allVars == <<kind, vars, memVars>>

Memory == INSTANCE MemoryStore WITH
    checkpoints <- memCheckpoints, Snapshots <- Snapshots \cap 1..2

(* Bound: either the history rows grow, for every table, or the schema     *)
(* history of one table does.                                              *)
Within ==
    \/ \A t \in Tables : dbSchemas[t] = {} /\ dbMetas[t] = Absent /\ checkpoints[t] = Absent
    \/ /\ lastId <= 2
       /\ \E t \in Tables : \A u \in Tables \ {t} :
             dbSchemas[u] = {} /\ dbMetas[u] = Absent /\ checkpoints[u] = Absent /\ u \notin Stored

MCInit == kind \in {"postgres", "memory"} /\ Init /\ Memory!Init

MCNext ==
    \/ kind = "postgres" /\ Next /\ Within' /\ UNCHANGED <<kind, memVars>>
    \/ kind = "memory" /\ Memory!Next /\ UNCHANGED <<kind, vars>>

MCSpec == MCInit /\ [][MCNext]_allVars

(* Whichever store a pipeline runs on, every step is one operation of the  *)
(* abstract store on what is persisted or changes none of it, caches and   *)
(* lost commits or not: a rollback restores what the last update replaced  *)
(* and a reset reaches every table (crates/etl/src/store/both/postgres.rs  *)
(* and memory.rs).                                                         *)
StoresImplementContract == ImplementsContract /\ Memory!ImplementsContract

Symmetry == Permutations(Tables)

=============================================================================
