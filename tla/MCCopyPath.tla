------------------------------ MODULE MCCopyPath ------------------------------
(***************************************************************************)
(* The parts of the table-copy path in one instance: the copy itself, the  *)
(* plan of its ranges, the stream its batches come from and the governor   *)
(* that sizes them.  They share no state; in a behaviour one part moves.   *)
(***************************************************************************)
EXTENDS TableCopy

CONSTANTS
    Leaves, MaxBlocks, MaxRows, MaxConnections, PerWorker, RowsPerPartition, MaxPartitions,
    Streams, NumItems, MaxBatch, MaxFlips,
    Producers, HostTotal, Limits, RatioDen, MaxTarget, MaxRevision

ASSUME PlanAssumption ==
    /\ IsFiniteSet(Leaves) /\ MaxBlocks \in Nat /\ MaxRows \in Nat /\ MaxConnections \in Nat
    /\ PerWorker \in Nat /\ RowsPerPartition \in Nat \ {0} /\ MaxPartitions \in Nat

VARIABLES
    part,
    connections, estimate, ranges,
    level, active, flips, stream, source,
    snapshot, revision, lastRead, gov, producer

planVars == <<connections, estimate, ranges>>
streamVars == <<level, active, flips, stream, source>>
govVars == <<snapshot, revision, lastRead, gov, producer>>

Plan == INSTANCE CopyPlan WITH plan <- ranges
Flow == INSTANCE MemoryBackpressure
Governor == INSTANCE BatchGovernor WITH
    MaxBatch <- MaxTarget, SlotsOf <- [p \in Producers |-> IF p = "apply" THEN 2 ELSE 1]

MCInit ==
    /\ Init
    /\ part \in {"copy", "plan", "stream", "governor"}
    /\ IF part = "plan" THEN Plan!Init
       ELSE /\ connections = 1 /\ ranges = {}
            /\ estimate = [l \in Leaves |-> [blocks |-> 0, rows |-> 0]]
    /\ Flow!Init /\ (part # "stream" => level = 0 /\ \A s \in Streams : stream[s].batched)
    /\ Governor!Init /\ (part # "governor" => snapshot.source = "system")

MCNext ==
    \/ part = "copy" /\ Next /\ UNCHANGED <<part, planVars, streamVars, govVars>>
    \/ part = "plan" /\ Plan!Next /\ UNCHANGED <<part, vars, streamVars, govVars>>
    \/ part = "stream" /\ Flow!Next /\ UNCHANGED <<part, vars, planVars, govVars>>
    \/ part = "governor" /\ Governor!Next /\ UNCHANGED <<part, vars, planVars, streamVars>>

(* The fairness of TableCopy and of MemoryBackpressure. *)
MCFairness ==
    /\ WF_vars(part = "copy" /\ SyncStep)
    /\ \A w \in Workers : WF_vars(part = "copy" /\ WorkerStep(w))
    /\ \A s \in Streams : /\ WF_streamVars(part = "stream" /\ Flow!Poll(s))
                          /\ WF_streamVars(part = "stream" /\ Flow!DeadlineElapses(s))

MCSpec ==
    MCInit /\ [][MCNext]_<<part, vars, planVars, streamVars, govVars>> /\ MCFairness

-----------------------------------------------------------------------------
(* Every block of a leaf, the ones it has grown by included, is copied by  *)
(* exactly one range (plan_ctid_partitions_for_table_blocks).              *)
EveryBlockOnce == Plan!EveryBlockOnce

(* A sleeping paused stream holds no batch, and one that ended without an  *)
(* error handed over all it read (MemoryBatchStream::poll_next).           *)
NothingHeldBack == Flow!NothingHeldBack

(* A paused stream polls its source again once memory pressure is gone     *)
(* (poll_memory_backpressure).                                             *)
PausedStreamResumes == Flow!PausedStreamResumes

(* A buffered row leaves at the latest with the fill timer, or with the    *)
(* error that ends the copy (MemoryBatchStream::poll_next).                *)
BufferIsFlushed == Flow!BufferIsFlushed

(* A governor up to date divides the budget of the capacity last read by   *)
(* the slots registered now (BatchMemoryGovernor, MemorySnapshot).         *)
BudgetFollowsCapacity == Governor!BudgetFollowsCapacity

=============================================================================
