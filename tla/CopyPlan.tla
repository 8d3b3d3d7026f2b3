------------------------------- MODULE CopyPlan -------------------------------
(***************************************************************************)
(* Planning an initial table copy (crates/etl/src/replication/table_sync/  *)
(* copy.rs, crates/etl/src/postgres/client/transaction.rs): the physical   *)
(* tables behind a published table are cut into ctid ranges, in proportion *)
(* to their rows or blocks, for the copy workers to claim.                 *)
(*                                                                         *)
(* The block counts are those of planning time; a range is a set of heap   *)
(* blocks, and the heap may have grown past them.                          *)
(***************************************************************************)
EXTENDS Naturals, FiniteSets, FiniteSetsExt

CONSTANTS
    Leaves,             \* leaf partitions, or the table itself
    MaxBlocks,          \* bound: blocks of a leaf
    MaxRows,            \* bound: estimated rows of a leaf
    MaxConnections,     \* bound: max_copy_connections_per_table
    PerWorker,          \* CTID_PARTITIONS_PER_COPY_WORKER
    RowsPerPartition,   \* CTID_COPY_ROWS_PER_PARTITION
    MaxPartitions       \* MAX_CTID_COPY_PARTITIONS

VARIABLES
    connections,    \* max_copy_connections
    estimate,       \* blocks and rows of every leaf
    plan            \* the ranges, or the empty set before planning

vars == <<connections, estimate, plan>>

CeilDiv(a, b) == a \div b + (IF a % b > 0 THEN 1 ELSE 0)

(* target_ctid_partition_count; rows = 0 stands for no estimate *)
TargetCount(conns, rows) ==
    IF conns = 1 THEN 1
    ELSE Min({MaxPartitions,
              Max({conns * PerWorker, CeilDiv(rows, RowsPerPartition), 1})})

(* partitions_for_table_weight *)
Share(weight, total, blocks, target) ==
    Max({1, Min({CeilDiv(weight * target, total), blocks})})

(* ctid_partition_block_range *)
Boundary(i, blocks, n) == (i * blocks) \div n

(* Mutant of Ranges: the last range ends where the heap ended. *)
Unbounded == MaxBlocks + 2
ClosedRanges(leaf, blocks, count) ==
    LET n == Min({count, blocks})
    IN  {[leaf |-> leaf, from |-> Boundary(i, blocks, n), to |-> Boundary(i + 1, blocks, n),
          blocks |-> Boundary(i + 1, blocks, n) - Boundary(i, blocks, n)] : i \in 0..n - 1}

(* plan_ctid_partitions_for_table_blocks: half-open block ranges, the      *)
(* first without a start and the last without an end; blocks is the width  *)
(* the queue is ordered by.                                                *)
Ranges(leaf, blocks, count) ==
    LET n == Min({count, blocks})
    IN  {[leaf |-> leaf, from |-> IF i = 0 THEN 0 ELSE Boundary(i, blocks, n),
          to |-> IF i = n - 1 THEN Unbounded ELSE Boundary(i + 1, blocks, n),
          blocks |-> Boundary(i + 1, blocks, n) - Boundary(i, blocks, n)] : i \in 0..n - 1}

(* plan_table_copy_partitions; the sum of the weights is counted out *)
Total(leaves, weight) == Cardinality(UNION {{l} \X (1..weight[l]) : l \in leaves})

Partitions(conns, est) ==
    LET leaves == {l \in Leaves : est[l].blocks > 0}
        byRows == \A l \in leaves : est[l].rows > 0
        weight == [l \in leaves |-> IF byRows THEN est[l].rows ELSE est[l].blocks]
        total == Total(leaves, weight)
        target == TargetCount(conns, IF byRows THEN total ELSE 0)
    IN  UNION {Ranges(l, est[l].blocks, Share(weight[l], total, est[l].blocks, target)) :
                  l \in leaves}

-----------------------------------------------------------------------------
Init ==
    /\ connections \in 1..MaxConnections
    /\ estimate \in [Leaves -> [blocks : 0..MaxBlocks, rows : 0..MaxRows]]
    /\ plan = {}

MakePlan ==
    /\ plan = {}
    /\ plan' = Partitions(connections, estimate)
    /\ UNCHANGED <<connections, estimate>>

Next == MakePlan

Spec == Init /\ [][Next]_vars

-----------------------------------------------------------------------------
(* Every block of a leaf that had blocks when the copy was planned, and    *)
(* every block it has grown by since, is copied by exactly one range       *)
(* (plan_ctid_partitions_for_table_blocks, build_ctid_copy_query).         *)
EveryBlockOnce ==
    plan # {} =>
        \A l \in Leaves : estimate[l].blocks > 0 =>
            \A b \in 0..Unbounded - 1 :
                Cardinality({r \in plan : r.leaf = l /\ r.from <= b /\ b < r.to}) = 1

=============================================================================
