----------------------------- MODULE BigQueryProofs -----------------------------
(***************************************************************************)
(* TLAPS proofs about BigQueryDestination, for any source and any number   *)
(* of faults and copies: rows, view and shape of a table that is copied,   *)
(* streamed into, truncated and dropped again.  No retry starts while a    *)
(* task of the worker before it still runs.                                *)
(***************************************************************************)
EXTENDS BigQueryDestination, SequenceTheorems, FiniteSetTheorems, NaturalsInduction,
        WellFoundedInduction, TLAPS

--------------------------------------------------------------------------------
(* The inductive invariant.                                                 *)

TaskRecord ==
  [pc : {"none", "next", "create", "store", "view", "append", "ddl",
         "ddl_rest", "recreate_view", "cache_view", "relation_applied",
         "new_table", "new_view", "new_metadata"},
   kind : {"none", "copy", "events"}, at : 0 .. Len(Source) + 1, to : Positions,
   base : Metadata, obsolete : SUBSET Sequences]

TableRecord == [shape : Positions \cup {None, Mixed}, rows : SUBSET Positions]

WorkerRecord ==
  [phase : {"drop_view", "drop_tables", "clear_cache", "prepare", "copy",
            "copying", "stream", "failed"},
   attempt : 0 .. MaxAttempts, sent : Positions, acked : Positions,
   checkpoint : Positions, reach : Positions, copied : BOOLEAN, listed : SUBSET Sequences]

\* The task under way, whoever still waits for it.
Task == IF run["old"].pc # "none" THEN run["old"] ELSE run["cur"]

\* The events up to this one have been applied, by the task or before it.
Done ==
  IF Task.kind = "events" THEN Task.at - 1
  ELSE IF worker.phase = "stream" THEN worker.acked ELSE worker.checkpoint

\* RowsAccounted for a position d in place of the checkpoint.
Accounted(d, reach, rows) ==
  \E p \in d .. reach :
    /\ RowsAt(p) \subseteq rows
    /\ \A j \in rows : j \in RowsAt(p) \/ j > d \/ Truncates(d + 1, p)

RowPositions == {j \in 1 .. Len(Source) : Source[j] = "row"}

\* At most one task runs, and only in the phases that have one.
SoleTask ==
  /\ \A x \in {"cur", "old"} : run[x].pc = "none" \/ run[x].kind = "none" => run[x] = NotRunning
  /\ run["old"].pc # "none" => worker.phase = "failed" /\ run["old"].kind = "events"
  /\ worker.phase \notin {"copying", "stream"} => run["cur"].pc = "none"
  /\ worker.phase = "copying" => run["cur"].kind = "copy"
  /\ worker.phase = "stream" => run["cur"].kind # "copy"

PositionInv ==
  /\ worker.checkpoint <= worker.acked /\ worker.acked <= worker.sent /\ worker.sent <= worker.reach
  /\ worker.phase = "stream" => worker.copied
  /\ worker.copied => worker.phase \in {"stream", "failed"}
  /\ worker.phase = "stream" /\ Task.pc = "none" => worker.acked = worker.sent
  /\ Task.kind = "events" =>
       /\ worker.copied /\ Task.pc \notin {"create", "store"}
       /\ worker.checkpoint < Task.at /\ Task.at <= Task.to + 1 /\ Task.to <= worker.reach
       /\ worker.phase = "stream" => worker.acked < Task.at /\ Task.to = worker.sent
  /\ Task.kind = "copy" =>
       /\ worker.reach <= Task.to
       /\ Task.at = Task.to \/ (Task.at = Task.to + 1 /\ Task.pc = "next")
  /\ Task.pc \notin {"none", "next"} => Task.at <= Task.to

Blank == \A n \in Sequences : tables[n] = Missing
TableIs(snapshot, rows) == tables[meta.table] = [shape |-> snapshot, rows |-> rows]

TaskSnapshot == SnapshotAt(IF Task.kind = "copy" THEN Task.to ELSE Task.at)

CopyInv ==
  Task.kind = "copy" =>
    /\ cleanups = {}
    /\ Task.pc = "next" /\ Task.at = Task.to => meta = NoMetadata
    /\ Task.pc = "next" /\ Task.at # Task.to =>
         /\ meta.state = "applied" /\ view = meta.table
         /\ TableIs(meta.snapshot, RowsAt(Task.to))
    /\ Task.pc \in {"create", "store"} =>
         /\ meta.state = "creating" /\ Task.base = meta /\ meta.snapshot = TaskSnapshot
    /\ Task.pc = "create" => Blank
    /\ Task.pc \in {"store", "view", "append"} => TableIs(meta.snapshot, {})
    /\ Task.pc \in {"next", "create", "store", "view", "append"}

WriteInv ==
  /\ Task.pc \in {"view", "append"} =>
       /\ meta.state = "applied" /\ Task.base.table = meta.table
       /\ meta.snapshot = TaskSnapshot
       /\ Task.kind = "events" => Source[Task.at] = "row"
  /\ Task.pc = "append" => view = meta.table

RelationInv ==
  /\ Task.pc \in {"ddl", "ddl_rest", "recreate_view", "cache_view", "relation_applied"} =>
       /\ Task.kind = "events" /\ Source[Task.at] = "relation"
       /\ meta.state = "applying" /\ Task.base = meta
  /\ Task.pc \in {"recreate_view", "cache_view", "relation_applied"} =>
       tables[meta.table].shape = meta.snapshot
  /\ Task.pc \in {"cache_view", "relation_applied"} => view = meta.table

TruncateInv ==
  /\ Task.pc \in {"new_table", "new_view", "new_metadata"} =>
       /\ Task.kind = "events" /\ Source[Task.at] = "truncate"
       /\ meta.state = "applied" /\ meta.table < Task.base.table
       /\ Task.base.state = "applied" /\ Task.base.snapshot = meta.snapshot
       /\ \A n \in Task.obsolete : n < Task.base.table
  /\ Task.pc \in {"new_view", "new_metadata"} => tables[Task.base.table] = Fresh(meta.snapshot)
  /\ Task.pc = "new_metadata" => view = Task.base.table

ResetInv ==
  /\ meta = NoMetadata => Blank /\ created_views = None /\ cleanups = {}
  /\ worker.phase = "copy" => meta = NoMetadata
  /\ worker.phase \in {"drop_view", "drop_tables", "clear_cache", "prepare"} => cleanups = {}
  /\ worker.phase \in {"drop_view", "drop_tables"} =>
       \A n \in Sequences : n \in worker.listed \/ tables[n] = Missing
  /\ worker.phase \in {"clear_cache", "prepare"} => Blank
  /\ worker.phase = "prepare" => created_views = None

CopiedInv ==
  worker.copied =>
    /\ meta.state \in {"applying", "applied"} /\ Exists(meta.table)
    /\ meta.state = "applied" => tables[meta.table].shape = meta.snapshot
    /\ Accounted(Done, worker.reach, tables[meta.table].rows)
    /\ view = meta.table \/ Truncates(Done + 1, worker.reach)

CacheInv ==
  worker.copied \/ worker.phase \in {"copy", "copying"} =>
    created_views \in {None, view} \/ Task.pc = "cache_view"

RowsInv ==
  \A n \in Sequences :
    tables[n].rows \subseteq RowPositions /\ (Exists(n) \/ tables[n] = Missing)
CleanupInv == \A n \in cleanups : n < meta.table

BigQueryInv ==
  /\ TypeOK /\ SoleTask /\ PositionInv /\ CopyInv /\ WriteInv /\ RelationInv /\ TruncateInv
  /\ ResetInv /\ CopiedInv /\ CacheInv /\ RowsInv /\ CleanupInv

--------------------------------------------------------------------------------
(* Facts about the source and the operators.                                *)

LEMMA SourceFacts ==
  /\ Len(Source) \in Nat /\ Positions = 0 .. Len(Source)
  /\ MaxSequence \in Nat /\ Sequences = 0 .. MaxSequence /\ Sequences \subseteq Nat
  /\ \A k \in 1 .. Len(Source) : Source[k] \in {"row", "truncate", "relation"}
<1>1. Source \in Seq({"row", "truncate", "relation"})
  BY BigQueryAssumption
<1>2. Len(Source) \in Nat
  BY <1>1, LenProperties
<1>3. \A k \in 1 .. Len(Source) : Source[k] \in {"row", "truncate", "relation"}
  BY <1>1, ElementOfSeq
<1> QED
  BY <1>2, <1>3, BigQueryAssumption DEF Positions, Sequences

LEMMA MaxOfTwo ==
  ASSUME NEW a \in Int, NEW b \in Int
  PROVE  Max({a, b}) \in {a, b} /\ Max({a, b}) >= a /\ Max({a, b}) >= b
<1>1. \E x \in {a, b} : \A y \in {a, b} : x >= y
  OBVIOUS
<1> QED
  BY <1>1 DEF Max

LEMMA LeastNatural ==
  ASSUME NEW S, S \subseteq Nat, S # {}
  PROVE  \E m \in S : \A s \in S : m <= s
<1>1. PICK m \in S : \A s \in S : ~ (<<s, m>> \in OpToRel(<, Nat))
  BY NatLessThanWellFounded, WFMin, Zenon
<1>2. \A s \in S : ~ (s < m)
  BY <1>1 DEF OpToRel
<1> QED
  BY <1>2

\* A run of equal events lies within its bounds.
LEMMA LastOfRunFacts ==
  ASSUME NEW i \in Nat, NEW to \in Nat, i <= to
  PROVE  /\ LastOfRun(i, to) \in i .. to
         /\ \A j \in i .. LastOfRun(i, to) : Source[j] = Source[i]
<1> DEFINE R == {k \in i .. to : \A j \in i .. k : Source[j] = Source[i]}
           D == {to - k : k \in R}
<1>1. i \in R /\ R \subseteq i .. to
  OBVIOUS
<1>2. PICK d \in D : \A e \in D : d <= e
  <2>1. D \subseteq Nat /\ D # {}
    BY <1>1
  <2> HIDE DEF D
  <2> QED
    BY <2>1, LeastNatural
<1>3. PICK m \in R : d = to - m
  OBVIOUS
<1>4. \A k \in R : m >= k
  <2> SUFFICES ASSUME NEW k \in R PROVE m >= k
    OBVIOUS
  <2>1. to - k \in D
    OBVIOUS
  <2>2. d <= to - k
    BY <1>2, <2>1
  <2> HIDE DEF R, D
  <2> QED
    BY <1>1, <1>3, <2>2
<1> HIDE DEF R
<1>5. Max(R) \in R
  BY <1>4 DEF Max
<1> QED
  BY <1>1, <1>5 DEF LastOfRun, R

\* A generation that does not exist yet, if the bound leaves one.
LEMMA NextSequenceFacts ==
  ASSUME NextSequence <= MaxSequence, meta.table \in Int
  PROVE  NextSequence \in Sequences /\ NextSequence > meta.table /\ ~Exists(NextSequence)
<1> DEFINE F == {n \in Sequences : n > meta.table /\ ~Exists(n)}
           S == F \cup {MaxSequence + 1}
<1>1. S \subseteq Nat /\ S # {}
  BY SourceFacts
<1>2. PICK m \in S : \A s \in S : m <= s
  <2> HIDE DEF S
  <2> QED
    BY <1>1, LeastNatural
<1>3. Min(S) \in S
  <2> HIDE DEF S
  <2> QED
    BY <1>2 DEF Min
<1>4. NextSequence = Min(S)
  BY DEF NextSequence
<1>5. MaxSequence \in Nat
  BY SourceFacts
<1>6. Min(S) # MaxSequence + 1
  <2> HIDE DEF S
  <2> QED
    BY <1>4, <1>5
<1>7. Min(S) \in F
  <2>1. ASSUME NEW m1, m1 \in S, m1 # MaxSequence + 1 PROVE m1 \in F
    BY <2>1
  <2> HIDE DEF S, F
  <2> QED
    BY <1>3, <1>6, <2>1
<1> HIDE DEF S
<1> QED
  BY <1>4, <1>7

\* A schema snapshot is a position.
LEMMA SnapshotType == ASSUME NEW i \in Positions PROVE SnapshotAt(i) \in Positions
<1> DEFINE S == {j \in 1 .. i : Source[j] = "relation"}
<1>0. i \in Nat /\ i <= Len(Source) /\ Len(Source) \in Nat
  BY SourceFacts
<1>1. IsFiniteSet(1 .. i) /\ Cardinality(1 .. i) = i
  <2>1. 1 \in Int /\ i \in Int
    BY <1>0
  <2>2. IsFiniteSet(1 .. i) /\ Cardinality(1 .. i) = IF 1 > i THEN 0 ELSE i - 1 + 1
    BY <2>1, FS_Interval
  <2> QED
    BY <1>0, <2>2
<1>2. S \subseteq 1 .. i
  OBVIOUS
<1>3. Cardinality(S) \in Nat /\ Cardinality(S) <= i
  <2> HIDE DEF S
  <2> QED
    BY <1>1, <1>2, FS_Subset, FS_CardinalityType
<1>4. SnapshotAt(i) = Cardinality(S)
  BY DEF SnapshotAt
<1> HIDE DEF S
<1> QED
  BY <1>0, <1>3, <1>4, SourceFacts

LEMMA RowsInSource ==
  ASSUME NEW i \in Positions
  PROVE  RowsAt(i) \subseteq RowPositions /\ RowsAt(i) \subseteq 1 .. i
BY SourceFacts DEF RowsAt, RowPositions

LEMMA RowPositionsType == RowPositions \subseteq Positions
BY SourceFacts DEF RowPositions

\* Rows add to the rows.
LEMMA RowsAppended ==
  ASSUME NEW i \in Positions, NEW j \in Positions, i <= j,
         \A k \in i + 1 .. j : Source[k] = "row"
  PROVE  RowsAt(j) = RowsAt(i) \cup (i + 1 .. j)
<1>1. \A k \in 1 .. j : k \in 1 .. i \/ k \in i + 1 .. j
  BY SourceFacts
<1> QED
  BY <1>1, SourceFacts DEF RowsAt, Truncates

\* A relation changes none.
LEMMA RowsUnchanged ==
  ASSUME NEW i \in Positions, i + 1 \in Positions, Source[i + 1] = "relation"
  PROVE  RowsAt(i + 1) = RowsAt(i)
<1>1. \A k \in 1 .. i + 1 : k \in 1 .. i \/ k = i + 1
  BY SourceFacts
<1> QED
  BY <1>1, SourceFacts DEF RowsAt, Truncates

\* A truncate leaves none.
LEMMA RowsTruncated ==
  ASSUME NEW i \in Positions, i >= 1, Source[i] = "truncate"
  PROVE  RowsAt(i) = {}
BY SourceFacts DEF RowsAt, Truncates

--------------------------------------------------------------------------------
(* How the rows stay accounted for.                                         *)

LEMMA AccountedRows ==
  ASSUME NEW d \in Positions, NEW l \in Positions, NEW r \in Positions, d <= l, l <= r,
         \A k \in d + 1 .. l : Source[k] = "row",
         NEW rows, rows \subseteq RowPositions, Accounted(d, r, rows)
  PROVE  Accounted(l, r, rows \cup (d + 1 .. l))
<1>1. PICK p \in d .. r :
        /\ RowsAt(p) \subseteq rows
        /\ \A j \in rows : j \in RowsAt(p) \/ j > d \/ Truncates(d + 1, p)
  BY DEF Accounted
<1>2. d \in Nat /\ l \in Nat /\ r \in Nat /\ p \in Positions /\ rows \subseteq Nat
  BY SourceFacts DEF RowPositions
<1>3. CASE p < l
  <2>1. RowsAt(l) = RowsAt(p) \cup (p + 1 .. l)
    BY <1>2, <1>3, RowsAppended
  <2>2. RowsAt(l) = RowsAt(d) \cup (d + 1 .. l)
    BY <1>2, RowsAppended
  <2>3. ~Truncates(d + 1, p)
    BY <1>2, <1>3 DEF Truncates
  <2>4. \A j \in rows \cup (d + 1 .. l) : j \in RowsAt(l) \/ j > l
    BY <1>1, <1>2, <2>1, <2>2, <2>3
  <2>5. RowsAt(l) \subseteq rows \cup (d + 1 .. l)
    BY <1>1, <1>2, <2>1
  <2> QED
    BY <1>2, <2>4, <2>5 DEF Accounted
<1>4. CASE p >= l
  <2>1. Truncates(d + 1, p) => Truncates(l + 1, p)
    BY <1>2, <1>4 DEF Truncates
  <2>2. ASSUME NEW j \in d + 1 .. l PROVE j \in RowsAt(p) \/ Truncates(l + 1, p)
    <3>1. Source[j] = "row" /\ j \in 1 .. p
      BY <1>2, <1>4
    <3>2. Truncates(j, p) => Truncates(l + 1, p)
      BY <1>2, <1>4 DEF Truncates
    <3> QED
      BY <3>1, <3>2 DEF RowsAt
  <2>3. \A j \in rows \cup (d + 1 .. l) : j \in RowsAt(p) \/ j > l \/ Truncates(l + 1, p)
    BY <1>1, <1>2, <2>1, <2>2
  <2> QED
    BY <1>1, <1>2, <1>4, <2>3 DEF Accounted
<1> QED
  BY <1>2, <1>3, <1>4

LEMMA AccountedRelation ==
  ASSUME NEW d \in Positions, NEW r \in Positions, d + 1 <= r, Source[d + 1] = "relation",
         NEW rows, rows \subseteq RowPositions, Accounted(d, r, rows)
  PROVE  Accounted(d + 1, r, rows)
<1>1. PICK p \in d .. r :
        /\ RowsAt(p) \subseteq rows
        /\ \A j \in rows : j \in RowsAt(p) \/ j > d \/ Truncates(d + 1, p)
  BY DEF Accounted
<1>2. d \in Nat /\ r \in Nat /\ p \in Positions /\ rows \subseteq Nat /\ d + 1 \notin rows
      /\ d + 1 \in Positions
  BY SourceFacts DEF RowPositions
<1>3. CASE p = d
  <2>1. RowsAt(d + 1) = RowsAt(p)
    BY <1>2, <1>3, RowsUnchanged
  <2>2. ~Truncates(d + 1, p)
    BY <1>2, <1>3 DEF Truncates
  <2>3. \A j \in rows : j \in RowsAt(d + 1) \/ j > d + 1
    BY <1>1, <1>2, <2>1, <2>2
  <2> QED
    BY <1>1, <1>2, <2>1, <2>3 DEF Accounted
<1>4. CASE p > d
  <2>1. Truncates(d + 1, p) => Truncates(d + 2, p)
    BY <1>2, <1>4 DEF Truncates
  <2>2. d + 1 + 1 = d + 2
    BY <1>2
  <2>3. \A j \in rows : j \in RowsAt(p) \/ j > d + 1 \/ Truncates(d + 1 + 1, p)
    BY <1>1, <1>2, <2>1, <2>2
  <2> QED
    BY <1>1, <1>2, <1>4, <2>3 DEF Accounted
<1> QED
  BY <1>2, <1>3, <1>4

LEMMA AccountedTruncate ==
  ASSUME NEW l \in Positions, l >= 1, NEW r \in Positions, l <= r, Source[l] = "truncate"
  PROVE  Accounted(l, r, {})
BY SourceFacts, RowsTruncated DEF Accounted

LEMMA AccountedBack ==
  ASSUME NEW c \in Positions, NEW d \in Positions, NEW r \in Positions, c <= d,
         NEW rows, rows \subseteq RowPositions, Accounted(d, r, rows)
  PROVE  Accounted(c, r, rows)
<1>1. PICK p \in d .. r :
        /\ RowsAt(p) \subseteq rows
        /\ \A j \in rows : j \in RowsAt(p) \/ j > d \/ Truncates(d + 1, p)
  BY DEF Accounted
<1>2. c \in Nat /\ d \in Nat /\ r \in Nat /\ p \in Positions /\ rows \subseteq Nat
  BY SourceFacts DEF RowPositions
<1>3. Truncates(d + 1, p) => Truncates(c + 1, p)
  BY <1>2 DEF Truncates
<1>4. \A j \in rows : j \in RowsAt(p) \/ j > c \/ Truncates(c + 1, p)
  BY <1>1, <1>2, <1>3
<1> QED
  BY <1>1, <1>2, <1>4 DEF Accounted

LEMMA AccountedMore ==
  ASSUME NEW d \in Positions, NEW r \in Positions, NEW rows, NEW more,
         more \subseteq d + 1 .. Len(Source), Accounted(d, r, rows)
  PROVE  Accounted(d, r, rows \cup more)
<1>1. PICK p \in d .. r :
        /\ RowsAt(p) \subseteq rows
        /\ \A j \in rows : j \in RowsAt(p) \/ j > d \/ Truncates(d + 1, p)
  BY DEF Accounted
<1>2. \A j \in more : j > d
  BY SourceFacts
<1> QED
  BY <1>1, <1>2 DEF Accounted

LEMMA AccountedFurther ==
  ASSUME NEW d \in Positions, NEW r \in Positions, NEW s \in Positions, r <= s, NEW rows,
         Accounted(d, r, rows)
  PROVE  Accounted(d, s, rows)
<1>1. \A p \in d .. r : p \in d .. s
  BY SourceFacts
<1> QED
  BY <1>1 DEF Accounted

LEMMA AccountedCopy ==
  ASSUME NEW d \in Positions PROVE Accounted(d, d, RowsAt(d))
<1>1. d \in d .. d
  BY SourceFacts
<1> QED
  BY <1>1 DEF Accounted

--------------------------------------------------------------------------------
(* What a step does to the task.                                            *)

Sides == {"cur", "old"}

LEMMA TaskFacts ==
  ASSUME TypeOK, SoleTask
  PROVE  Task \in TaskRecord /\ (Task.kind = "none" \/ Task.pc = "none" => Task = NotRunning)
BY DEF TypeOK, SoleTask, Task, TaskRecord

LEMMA TaskOf ==
  ASSUME TypeOK, SoleTask, NEW x \in Sides, run[x].pc # "none"
  PROVE  /\ Task = run[x] /\ Task.kind \in {"copy", "events"} /\ Task.pc # "none"
         /\ \A y \in Sides : y # x => run[y] = NotRunning
         /\ x = "old" => Task.kind = "events"
         /\ worker.phase = IF x = "old" THEN "failed"
                           ELSE IF Task.kind = "copy" THEN "copying" ELSE "stream"
<1>1. run[x] \in TaskRecord /\ worker \in WorkerRecord
  BY DEF TypeOK, TaskRecord, WorkerRecord, Sides
<1>2. run[x].kind # "none"
  BY DEF SoleTask, NotRunning, Sides
<1>3. CASE x = "old"
  BY <1>1, <1>2, <1>3 DEF SoleTask, Task, Sides, TaskRecord
<1>4. CASE x = "cur"
  BY <1>1, <1>2, <1>4 DEF SoleTask, Task, Sides, TaskRecord, WorkerRecord
<1> QED
  BY <1>3, <1>4 DEF Sides

LEMMA TaskMoves ==
  ASSUME TypeOK, SoleTask, NEW x \in Sides, run[x].pc # "none",
         NEW r \in TaskRecord, r.pc # "none", r.kind = run[x].kind,
         run' = [run EXCEPT ![x] = r], worker' = worker
  PROVE  Task' = r /\ SoleTask' /\ run' \in [Sides -> TaskRecord]
<1>1. run \in [Sides -> TaskRecord]
  BY DEF TypeOK, TaskRecord, Sides
<1>2. run' \in [Sides -> TaskRecord] /\ run'[x] = r /\ \A y \in Sides : y # x => run'[y] = run[y]
  BY <1>1
<1>3. \A y \in Sides : y # x => run'[y] = NotRunning
  BY <1>2, TaskOf
<1>4. Task' = r
  BY <1>2, <1>3 DEF Task, Sides, NotRunning
<1>5. r.kind # "none"
  BY TaskOf
<1>6. SoleTask'
  BY <1>2, <1>3, <1>5 DEF SoleTask, Sides, NotRunning
<1> QED
  BY <1>2, <1>4, <1>6

LEMMA TaskEnds ==
  ASSUME TypeOK, SoleTask, NEW x \in Sides, run[x].pc # "none", Fails(x)
  PROVE  /\ Task' = NotRunning /\ SoleTask' /\ run' \in [Sides -> TaskRecord]
         /\ worker' = [worker EXCEPT !.phase = "failed"]
         /\ lock' \in {"free", "cur", "old"}
<1>1. run \in [Sides -> TaskRecord] /\ worker \in WorkerRecord
  BY DEF TypeOK, TaskRecord, WorkerRecord, Sides
<1>0. NotRunning \in TaskRecord
  BY SourceFacts DEF NotRunning, TaskRecord, Metadata
<1>2. run' \in [Sides -> TaskRecord] /\ run'[x] = NotRunning
      /\ \A y \in Sides : y # x => run'[y] = run[y]
  BY <1>0, <1>1 DEF Fails
<1>3. run'["cur"] = NotRunning /\ run'["old"] = NotRunning
  BY <1>2, TaskOf DEF Sides
<1>4. Task' = NotRunning
  BY <1>3 DEF Task
<1>5. worker' = [worker EXCEPT !.phase = "failed"]
  <2>1. CASE x = "cur"
    BY <2>1 DEF Fails
  <2>2. CASE x = "old"
    <3>1. worker.phase = "failed" /\ worker' = worker
      BY <2>2, TaskOf DEF Fails
    <3> QED
      BY <1>1, <3>1 DEF WorkerRecord
  <2> QED
    BY <2>1, <2>2 DEF Sides
<1>6. worker'.phase = "failed"
  BY <1>1, <1>5 DEF WorkerRecord
<1>7. SoleTask'
  BY <1>3, <1>6 DEF SoleTask, NotRunning
<1>8. lock' \in {"free", "cur", "old"}
  BY DEF Fails, TypeOK
<1> QED
  BY <1>2, <1>4, <1>5, <1>7, <1>8

\* The fields of a task that only moves on.
LEMMA TaskGoes ==
  ASSUME TypeOK, SoleTask, NEW x \in Sides, run[x].pc # "none",
         NEW p \in {"next", "create", "store", "view", "append", "ddl", "ddl_rest",
                    "recreate_view", "cache_view", "relation_applied", "new_table",
                    "new_view", "new_metadata"},
         Goto(x, p), worker' = worker
  PROVE  /\ Task' = [Task EXCEPT !.pc = p] /\ SoleTask' /\ run' \in [Sides -> TaskRecord]
         /\ Task'.pc = p /\ Task'.kind = Task.kind /\ Task'.at = Task.at /\ Task'.to = Task.to
         /\ Task'.base = Task.base /\ Task'.obsolete = Task.obsolete
<1>1. run[x] \in TaskRecord /\ Task = run[x]
  BY TaskOf DEF TypeOK, TaskRecord, Sides
<1>2. PICK r : r = [run[x] EXCEPT !.pc = p]
  OBVIOUS
<1>3. r \in TaskRecord /\ r.pc = p /\ r.kind = run[x].kind /\ r.at = run[x].at /\ r.to = run[x].to
      /\ r.base = run[x].base /\ r.obsolete = run[x].obsolete
  BY <1>1, <1>2 DEF TaskRecord
<1>4. run' = [run EXCEPT ![x] = r]
  BY <1>2 DEF Goto
<1>5. Task' = r /\ SoleTask' /\ run' \in [Sides -> TaskRecord]
  BY <1>3, <1>4, TaskMoves
<1> QED
  BY <1>1, <1>2, <1>3, <1>5

\* A task that has dealt with the events up to `last`.
LEMMA TaskPasses ==
  ASSUME TypeOK, SoleTask, NEW x \in Sides, run[x].pc # "none", NEW last \in Positions,
         run' = [run EXCEPT ![x] = Past(x, last)], worker' = worker
  PROVE  /\ SoleTask' /\ run' \in [Sides -> TaskRecord]
         /\ Task'.pc = "next" /\ Task'.kind = Task.kind /\ Task'.at = last + 1 /\ Task'.to = Task.to
<1>1. run[x] \in TaskRecord /\ Task = run[x]
  BY TaskOf DEF TypeOK, TaskRecord, Sides
<1>2. PICK r : r = Past(x, last)
  OBVIOUS
<1>a. last + 1 \in 0 .. Len(Source) + 1
  BY SourceFacts
<1>b. PICK l \in 0 .. Len(Source) + 1 : l = last + 1
  BY <1>a
<1>c. r = [run[x] EXCEPT !.pc = "next", !.at = l]
  BY <1>2, <1>b DEF Past
<1>d. r \in TaskRecord /\ r.pc = "next" /\ r.kind = run[x].kind /\ r.at = l /\ r.to = run[x].to
  BY <1>1, <1>c DEF TaskRecord
<1>3. r \in TaskRecord /\ r.pc = "next" /\ r.kind = run[x].kind /\ r.at = last + 1 /\ r.to = run[x].to
  BY <1>b, <1>d
<1>4. Task' = r /\ SoleTask' /\ run' \in [Sides -> TaskRecord]
  BY <1>2, <1>3, TaskMoves
<1> QED
  BY <1>1, <1>3, <1>4

LEMMA TaskRebased ==
  ASSUME TypeOK, SoleTask, NEW x \in Sides, run[x].pc # "none",
         NEW p \in {"create", "view", "ddl"}, NEW m \in Metadata,
         run' = [run EXCEPT ![x].pc = p, ![x].base = m], worker' = worker
  PROVE  /\ SoleTask' /\ run' \in [Sides -> TaskRecord]
         /\ Task'.pc = p /\ Task'.kind = Task.kind /\ Task'.at = Task.at /\ Task'.to = Task.to
         /\ Task'.base = m /\ Task'.obsolete = Task.obsolete
<1>1. run[x] \in TaskRecord /\ Task = run[x] /\ run \in [Sides -> TaskRecord]
  BY TaskOf DEF TypeOK, TaskRecord, Sides
<1>2. PICK r : r = [run[x] EXCEPT !.pc = p, !.base = m]
  OBVIOUS
<1>3. r \in TaskRecord /\ r.pc = p /\ r.kind = run[x].kind /\ r.at = run[x].at /\ r.to = run[x].to
      /\ r.base = m /\ r.obsolete = run[x].obsolete
  BY <1>1, <1>2 DEF TaskRecord
<1>4. run' = [run EXCEPT ![x] = r]
  BY <1>1, <1>2
<1>5. Task' = r /\ SoleTask' /\ run' \in [Sides -> TaskRecord]
  BY <1>3, <1>4, TaskMoves
<1> QED
  BY <1>1, <1>3, <1>5

LEMMA TaskTruncates ==
  ASSUME TypeOK, SoleTask, NEW x \in Sides, run[x].pc # "none", NEW m \in Metadata,
         NEW o \in SUBSET Sequences,
         NEW r, r = [run[x] EXCEPT !.pc = "new_table", !.base = m, !.obsolete = o],
         run' = [run EXCEPT ![x] = r], worker' = worker
  PROVE  /\ SoleTask' /\ run' \in [Sides -> TaskRecord]
         /\ Task'.pc = "new_table" /\ Task'.kind = Task.kind /\ Task'.at = Task.at
         /\ Task'.to = Task.to /\ Task'.base = m /\ Task'.obsolete = o
<1>1. run[x] \in TaskRecord /\ Task = run[x] /\ run \in [Sides -> TaskRecord]
  BY TaskOf DEF TypeOK, TaskRecord, Sides
<1>3. r \in TaskRecord /\ r.pc = "new_table" /\ r.kind = run[x].kind /\ r.at = run[x].at
      /\ r.to = run[x].to /\ r.base = m /\ r.obsolete = o
  BY <1>1 DEF TaskRecord
<1>5. Task' = r /\ SoleTask' /\ run' \in [Sides -> TaskRecord]
  BY <1>3, TaskMoves
<1> QED
  BY <1>1, <1>3, <1>5

--------------------------------------------------------------------------------
(* What the invariant says of the numbers.                                  *)

LEMMA MetadataFacts ==
  ASSUME NEW m \in Metadata
  PROVE  /\ m = NoMetadata <=> m.state = "none"
         /\ m # NoMetadata <=> m.state \in {"creating", "applying", "applied"}
         /\ m # NoMetadata => m.table \in Sequences /\ m.snapshot \in Positions
         /\ m.table \in Sequences \cup {None}
BY DEF Metadata, NoMetadata

LEMMA InvFacts ==
  ASSUME BigQueryInv
  PROVE  /\ meta \in Metadata /\ tables \in [Sequences -> TableRecord]
         /\ worker \in WorkerRecord /\ Task \in TaskRecord
         /\ Task.kind = "none" \/ Task.pc = "none" => Task = NotRunning
         /\ Task.kind = "none" <=> Task.pc = "none"
<1>1. Task \in TaskRecord /\ (Task.kind = "none" \/ Task.pc = "none" => Task = NotRunning)
  BY TaskFacts DEF BigQueryInv
<1>2. NotRunning.kind = "none" /\ NotRunning.pc = "none"
  BY DEF NotRunning
<1> QED
  BY <1>1, <1>2 DEF BigQueryInv, TypeOK, TableRecord, WorkerRecord

LEMMA WorkerFacts ==
  ASSUME NEW w \in WorkerRecord
  PROVE  /\ w.sent \in Positions /\ w.acked \in Positions /\ w.checkpoint \in Positions
         /\ w.reach \in Positions /\ w.copied \in BOOLEAN /\ w.listed \subseteq Sequences
         /\ w.sent \in Nat /\ w.acked \in Nat /\ w.checkpoint \in Nat /\ w.reach \in Nat
BY SourceFacts DEF WorkerRecord

LEMMA TaskNumbers ==
  ASSUME NEW t \in TaskRecord
  PROVE  /\ t.at \in Nat /\ t.at <= Len(Source) + 1 /\ t.to \in Positions /\ t.to \in Nat
         /\ t.base \in Metadata /\ t.obsolete \subseteq Sequences
BY SourceFacts DEF TaskRecord

\* The checkpoint trails what is done, and that what was ever dispatched.
LEMMA DoneFacts ==
  ASSUME BigQueryInv, worker.copied
  PROVE  Done \in Positions /\ worker.checkpoint <= Done /\ Done <= worker.reach
<1>1. worker \in WorkerRecord /\ Task \in TaskRecord
  BY InvFacts
<1>2. worker.acked \in Nat /\ worker.checkpoint \in Nat /\ worker.reach \in Nat /\ worker.sent \in Nat
      /\ worker.reach <= Len(Source) /\ Len(Source) \in Nat /\ Positions = 0 .. Len(Source)
  BY <1>1, WorkerFacts, SourceFacts
<1>3. Task.at \in Nat /\ Task.to \in Nat
  BY <1>1, TaskNumbers
<1>4. PositionInv
  BY DEF BigQueryInv
<1>5. CASE Task.kind = "events"
  BY <1>2, <1>3, <1>4, <1>5 DEF PositionInv, Done
<1>6. CASE Task.kind # "events"
  BY <1>2, <1>4, <1>6 DEF PositionInv, Done
<1> QED
  BY <1>5, <1>6

\* Of a task: which it is, and that it has a table to write to.
LEMMA StepFacts ==
  ASSUME BigQueryInv, NEW x \in Sides, run[x].pc # "none"
  PROVE  /\ TypeOK /\ SoleTask /\ PositionInv /\ CopyInv /\ WriteInv /\ RelationInv /\ TruncateInv
         /\ ResetInv /\ CopiedInv /\ CacheInv /\ RowsInv /\ CleanupInv
         /\ Task = run[x] /\ Task.kind \in {"copy", "events"}
         /\ Task.kind = "copy" => worker.phase = "copying" /\ ~worker.copied
         /\ Task.kind = "events" => worker.phase \in {"stream", "failed"} /\ worker.copied
         /\ worker.phase \in {"copying", "stream", "failed"}
<1>1. TypeOK /\ SoleTask /\ PositionInv
  BY DEF BigQueryInv
<1>2. /\ Task = run[x] /\ Task.kind \in {"copy", "events"}
      /\ Task.kind = "copy" => worker.phase = "copying"
      /\ Task.kind = "events" => worker.phase \in {"stream", "failed"}
  BY <1>1, TaskOf
<1>3. Task.kind = "events" => worker.copied
  BY <1>1 DEF PositionInv
<1>4. worker.phase = "copying" => ~worker.copied
  BY <1>1 DEF PositionInv
<1> QED
  BY <1>2, <1>3, <1>4 DEF BigQueryInv

\* After a failure the replay starts at the checkpoint.
LEMMA FailureKeeps ==
  ASSUME BigQueryInv, NEW x \in Sides, run[x].pc \notin {"none", "cache_view"}, Fails(x),
         UNCHANGED <<meta, view, created_views, cleanups>>, faults' \in 0 .. MaxFaults,
         tables' \in [Sequences -> TableRecord], RowsInv',
         meta = NoMetadata => tables' = tables,
         worker.copied =>
           /\ tables'[meta.table].shape = tables[meta.table].shape
           /\ Accounted(worker.checkpoint, worker.reach, tables'[meta.table].rows)
  PROVE  BigQueryInv'
<1>1. TypeOK /\ SoleTask /\ PositionInv /\ ResetInv /\ CopiedInv /\ CacheInv /\ CleanupInv
      /\ CopyInv /\ RelationInv
  BY DEF BigQueryInv
<1>2. /\ Task' = NotRunning /\ SoleTask' /\ run' \in [Sides -> TaskRecord]
      /\ worker' = [worker EXCEPT !.phase = "failed"] /\ lock' \in {"free", "cur", "old"}
  BY <1>1, TaskEnds
<1>3. meta' = meta /\ view' = view /\ created_views' = created_views /\ cleanups' = cleanups
  OBVIOUS
<1>4. meta \in Metadata /\ worker \in WorkerRecord
  BY InvFacts
<1>5. /\ worker' \in WorkerRecord /\ worker'.phase = "failed" /\ worker'.sent = worker.sent
      /\ worker'.acked = worker.acked /\ worker'.checkpoint = worker.checkpoint
      /\ worker'.reach = worker.reach /\ worker'.copied = worker.copied
  BY <1>2, <1>4 DEF WorkerRecord
<1>6. Task'.kind = "none" /\ Task'.pc = "none"
  BY <1>2 DEF NotRunning
<1>7. TypeOK'
  BY <1>1, <1>2, <1>3, <1>5 DEF TypeOK, TaskRecord, TableRecord, WorkerRecord, Sides
<1>8. PositionInv'
  BY <1>1, <1>5, <1>6 DEF PositionInv
<1>9. CopyInv' /\ WriteInv' /\ RelationInv' /\ TruncateInv'
  BY <1>6 DEF CopyInv, WriteInv, RelationInv, TruncateInv
<1>10. ResetInv'
  BY <1>1, <1>3, <1>5 DEF ResetInv, Blank
<1>11. Done' = worker.checkpoint
  BY <1>5, <1>6 DEF Done
<1>12. ASSUME worker.copied PROVE Truncates(Done + 1, worker.reach) => Truncates(Done' + 1, worker'.reach)
  <2>1. Done \in Nat /\ worker.checkpoint \in Nat /\ worker.checkpoint <= Done /\ worker.reach \in Nat
    BY <1>4, <1>12, DoneFacts, WorkerFacts, SourceFacts
  <2> QED
    BY <1>5, <1>11, <2>1 DEF Truncates
<1>13. CopiedInv'
  BY <1>1, <1>3, <1>5, <1>11, <1>12 DEF CopiedInv, Exists
<1>14. CacheInv'
  <2>1. CASE worker.copied
    <3>1. Task.pc # "cache_view"
      BY <1>1, TaskOf
    <3> QED
      BY <1>1, <1>3, <1>5, <2>1, <3>1 DEF CacheInv
  <2>2. CASE ~worker.copied
    BY <1>5, <2>2 DEF CacheInv
  <2> QED
    BY <2>1, <2>2
<1>15. CleanupInv'
  BY <1>1, <1>3 DEF CleanupInv
<1> QED
  BY <1>2, <1>7, <1>8, <1>9, <1>10, <1>13, <1>14, <1>15 DEF BigQueryInv

\* A call that fails leaves nothing behind.
LEMMA PlainFailureKeeps ==
  ASSUME BigQueryInv, NEW x \in Sides, run[x].pc \notin {"none", "cache_view"}, Fails(x),
         UNCHANGED <<meta, tables, view, created_views, cleanups>>, faults' \in 0 .. MaxFaults
  PROVE  BigQueryInv'
<1>1. tables' = tables /\ tables \in [Sequences -> TableRecord] /\ RowsInv /\ CopiedInv
  BY InvFacts DEF BigQueryInv
<1>2. RowsInv'
  BY <1>1 DEF RowsInv, Exists
<1>3. ASSUME worker.copied
      PROVE  Accounted(worker.checkpoint, worker.reach, tables[meta.table].rows)
  <2>1. Accounted(Done, worker.reach, tables[meta.table].rows) /\ meta # NoMetadata
    BY <1>1, <1>3, InvFacts, MetadataFacts DEF CopiedInv
  <2>2. meta.table \in Sequences /\ tables[meta.table].rows \subseteq RowPositions
    BY <1>1, <2>1, InvFacts, MetadataFacts DEF RowsInv
  <2>3. worker.checkpoint \in Positions /\ worker.reach \in Positions
    BY InvFacts, WorkerFacts
  <2> QED
    BY <1>3, <2>1, <2>2, <2>3, DoneFacts, AccountedBack
<1> QED
  BY <1>1, <1>2, <1>3, FailureKeeps

LEMMA ViewEnsured == ASSUME BigQueryInv, NEW x \in Sides, EnsureView(x) PROVE BigQueryInv'
<1>2. /\ run[x].pc = "view" /\ worker' = worker /\ meta' = meta /\ tables' = tables
      /\ cleanups' = cleanups /\ faults' = faults /\ lock' = "free"
  BY DEF EnsureView, Release
<1>1. /\ TypeOK /\ SoleTask /\ PositionInv /\ CopyInv /\ WriteInv /\ RelationInv /\ TruncateInv
      /\ ResetInv /\ CopiedInv /\ CacheInv /\ RowsInv /\ CleanupInv
  BY DEF BigQueryInv
<1>3. /\ Task = run[x] /\ Task.pc = "view" /\ Task.kind \in {"copy", "events"}
      /\ worker.copied \/ worker.phase = "copying"
      /\ worker.phase \in {"copying", "stream", "failed"}
  BY <1>2, StepFacts
<1>4. /\ Task' = [Task EXCEPT !.pc = "append"] /\ SoleTask' /\ run' \in [Sides -> TaskRecord]
      /\ Task'.pc = "append" /\ Task'.kind = Task.kind /\ Task'.at = Task.at /\ Task'.to = Task.to
      /\ Task'.base = Task.base /\ Task'.obsolete = Task.obsolete
  BY <1>1, <1>2, TaskGoes DEF EnsureView
<1>5. meta.state = "applied" /\ Task.base.table = meta.table /\ meta.table \in Sequences
      /\ meta # NoMetadata
  BY <1>1, <1>3, InvFacts, MetadataFacts DEF WriteInv
<1>7. view' = meta.table /\ created_views' = meta.table
  <2>1. created_views \in {None, view}
    BY <1>1, <1>3 DEF CacheInv
  <2>2. meta.table # None
    BY <1>5, SourceFacts DEF None
  <2> QED
    BY <1>3, <1>5, <2>1, <2>2 DEF EnsureView, ensure_view_points_to_table
<1>8. TypeOK'
  BY <1>1, <1>2, <1>4, <1>5, <1>7 DEF TypeOK, TaskRecord, Sides
<1>9. PositionInv'
  BY <1>1, <1>2, <1>3, <1>4 DEF PositionInv
<1>10. Done' = Done
  BY <1>2, <1>4 DEF Done
<1>11. TaskSnapshot' = TaskSnapshot
  BY <1>4 DEF TaskSnapshot
<1>12. CopyInv'
  BY <1>1, <1>2, <1>3, <1>4 DEF CopyInv, TableIs
<1>13. WriteInv' /\ RelationInv' /\ TruncateInv'
  BY <1>1, <1>2, <1>3, <1>4, <1>7, <1>11 DEF WriteInv, RelationInv, TruncateInv
<1>14. ResetInv'
  BY <1>1, <1>2, <1>3, <1>5 DEF ResetInv, Blank
<1>15. CopiedInv'
  BY <1>1, <1>2, <1>7, <1>10 DEF CopiedInv, Exists
<1>16. CacheInv' /\ RowsInv' /\ CleanupInv'
  BY <1>1, <1>2, <1>7 DEF CacheInv, RowsInv, Exists, CleanupInv
<1> QED
  BY <1>4, <1>8, <1>9, <1>12, <1>13, <1>14, <1>15, <1>16 DEF BigQueryInv

LEMMA TableResolved == ASSUME BigQueryInv, NEW x \in Sides, ResolveTable(x) PROVE BigQueryInv'
<1>1. /\ TypeOK /\ SoleTask /\ PositionInv /\ CopyInv /\ WriteInv /\ RelationInv /\ TruncateInv
      /\ ResetInv /\ CopiedInv /\ CacheInv /\ RowsInv /\ CleanupInv
  BY DEF BigQueryInv
<1>2. /\ run[x].pc = "next"
      /\ (CopiesRows(x) /\ run[x].at <= run[x].to) \/ AtEvent(x, "row")
      /\ tables' = tables /\ view' = view /\ created_views' = created_views
      /\ cleanups' = cleanups /\ faults' = faults
  BY DEF ResolveTable
<1>3. /\ Task = run[x] /\ Task.pc = "next" /\ Task.kind \in {"copy", "events"}
      /\ Task.kind = "copy" => worker.phase = "copying" /\ ~worker.copied
      /\ Task.kind = "events" => worker.copied
      /\ worker.phase \in {"copying", "stream", "failed"}
  BY <1>2, StepFacts
<1>4. CASE ~ResolveAccepts(SnapshotOf(x))
  <2>1. Fails(x) /\ meta' = meta
    BY <1>4 DEF ResolveTable
  <2>2. faults' \in 0 .. MaxFaults
    BY <1>1, <1>2 DEF TypeOK
  <2> QED
    BY <1>2, <2>1, <2>2, PlainFailureKeeps
<1>5. CASE ResolveAccepts(SnapshotOf(x))
  <2> DEFINE created == [state |-> "creating", table |-> 0, snapshot |-> SnapshotOf(x)]
             p == IF meta.state = "applied" THEN "view" ELSE "create"
  <2>1. /\ meta' = IF meta = NoMetadata THEN created ELSE meta
        /\ run' = [run EXCEPT ![x].pc = p, ![x].base = meta']
        /\ lock' = x /\ worker' = worker
    BY <1>5 DEF ResolveTable, Hold
  <2>2. meta \in Metadata /\ Task \in TaskRecord /\ Task.at \in Nat /\ Task.to \in Nat /\ Task.to \in Positions
        /\ Task.at <= Len(Source) + 1
    BY InvFacts, TaskNumbers
  <2>3. SnapshotOf(x) = TaskSnapshot
    BY <1>3 DEF SnapshotOf, TaskSnapshot, CopiesRows
  <2>4. TaskSnapshot \in Positions
    <3>1. CASE Task.kind = "copy"
      BY <2>2, <3>1, SnapshotType DEF TaskSnapshot
    <3>2. CASE Task.kind = "events"
      <4>1. Task.at <= Task.to
        BY <1>2, <1>3, <3>2 DEF CopiesRows, AtEvent
      <4>2. Task.at \in Positions
        BY <2>2, <4>1, SourceFacts
      <4> QED
        BY <3>2, <4>2, SnapshotType DEF TaskSnapshot
    <3> QED
      BY <1>3, <3>1, <3>2
  <2>5. created \in Metadata /\ created.state = "creating" /\ created.table = 0
        /\ created.snapshot = TaskSnapshot /\ created # NoMetadata
    BY <2>3, <2>4, SourceFacts DEF Metadata, NoMetadata
  <2>6. meta' \in Metadata
    BY <2>1, <2>2, <2>5
  <2> HIDE DEF created
  <2>7. /\ SoleTask' /\ run' \in [Sides -> TaskRecord]
        /\ Task'.pc = p /\ Task'.kind = Task.kind /\ Task'.at = Task.at /\ Task'.to = Task.to
        /\ Task'.base = meta' /\ Task'.obsolete = Task.obsolete
    <3>1. p \in {"create", "view", "ddl"}
      OBVIOUS
    <3> HIDE DEF p
    <3> QED
      BY <1>1, <1>2, <2>1, <2>6, <3>1, TaskRebased
  <2>8. TypeOK'
    BY <1>1, <1>2, <2>1, <2>6, <2>7 DEF TypeOK, TaskRecord, Sides
  <2>9. Done' = Done /\ TaskSnapshot' = TaskSnapshot
    BY <2>1, <2>7 DEF Done, TaskSnapshot
  <2>10. CASE Task.kind = "copy"
    <3>1. Task.at = Task.to /\ meta = NoMetadata
      <4>1. Task.at <= Task.to
        BY <1>2, <1>3, <2>10 DEF CopiesRows, AtEvent
      <4>2. Task.at = Task.to
        BY <1>1, <2>2, <2>10, <4>1 DEF PositionInv
      <4> QED
        BY <1>1, <1>3, <2>10, <4>2 DEF CopyInv
    <3>2. meta.state = "none" /\ p = "create" /\ meta' = created
      BY <2>1, <3>1 DEF NoMetadata
    <3>3. PositionInv'
      BY <1>1, <1>3, <2>1, <2>2, <2>7, <2>10, <3>1, <3>2 DEF PositionInv
    <3>4. CopyInv'
      BY <1>1, <1>2, <2>5, <2>7, <2>9, <3>1, <3>2 DEF CopyInv, ResetInv, Blank
    <3>5. WriteInv' /\ RelationInv' /\ TruncateInv'
      BY <2>7, <3>2 DEF WriteInv, RelationInv, TruncateInv
    <3>6. ResetInv'
      BY <1>3, <2>1, <2>5, <2>10, <3>2 DEF ResetInv
    <3>7. CopiedInv' /\ RowsInv'
      BY <1>1, <1>2, <1>3, <2>1, <2>10 DEF CopiedInv, RowsInv, Exists
    <3>8. CacheInv' /\ CleanupInv'
      BY <1>1, <1>2, <3>1 DEF CacheInv, ResetInv, CleanupInv
    <3> QED
      BY <2>7, <2>8, <3>3, <3>4, <3>5, <3>6, <3>7, <3>8 DEF BigQueryInv
  <2>11. CASE Task.kind = "events"
    <3>1. /\ meta.state = "applied" /\ meta # NoMetadata /\ meta' = meta /\ p = "view"
          /\ meta.snapshot = TaskSnapshot
      BY <1>1, <1>3, <1>5, <2>1, <2>2, <2>3, <2>11, MetadataFacts
         DEF CopiedInv, ResolveAccepts, ensure_destination_schema_matches_metadata
    <3>2. Source[Task.at] = "row" /\ Task.at <= Task.to
      BY <1>2, <1>3, <2>11 DEF AtEvent, CopiesRows
    <3>3. PositionInv'
      BY <1>1, <1>3, <2>1, <2>7, <2>11, <3>1, <3>2 DEF PositionInv
    <3>4. CopyInv' /\ WriteInv' /\ RelationInv' /\ TruncateInv'
      BY <2>7, <2>9, <2>11, <3>1, <3>2 DEF CopyInv, WriteInv, RelationInv, TruncateInv
    <3>5. ResetInv'
      BY <1>3, <2>1, <3>1 DEF ResetInv
    <3>6. CopiedInv' /\ RowsInv'
      BY <1>1, <1>2, <2>1, <2>9, <3>1 DEF CopiedInv, RowsInv, Exists
    <3>7. CacheInv' /\ CleanupInv'
      BY <1>1, <1>2, <1>3, <2>1, <3>1 DEF CacheInv, CleanupInv
    <3> QED
      BY <2>7, <2>8, <3>3, <3>4, <3>5, <3>6, <3>7 DEF BigQueryInv
  <2> QED
    BY <1>3, <2>10, <2>11
<1> QED
  BY <1>4, <1>5

LEMMA TableCreated == ASSUME BigQueryInv, NEW x \in Sides, CreateTableIfMissing(x) PROVE BigQueryInv'
<1>1. /\ TypeOK /\ SoleTask /\ PositionInv /\ CopyInv /\ WriteInv /\ RelationInv /\ TruncateInv
      /\ ResetInv /\ CopiedInv /\ CacheInv /\ RowsInv /\ CleanupInv
  BY DEF BigQueryInv
<1>2. /\ run[x].pc = "create" /\ meta' = meta /\ view' = view /\ created_views' = created_views
      /\ lock' = lock /\ cleanups' = cleanups /\ worker' = worker /\ faults' = faults
  BY DEF CreateTableIfMissing
<1>3. Task = run[x] /\ Task.pc = "create" /\ Task.kind \in {"copy", "events"}
  BY <1>2, StepFacts
<1>4. Task.kind = "copy" /\ worker.phase = "copying" /\ ~worker.copied
  BY <1>1, <1>2, <1>3, StepFacts DEF PositionInv
<1>5. /\ SoleTask' /\ run' \in [Sides -> TaskRecord]
      /\ Task'.pc = "store" /\ Task'.kind = Task.kind /\ Task'.at = Task.at /\ Task'.to = Task.to
      /\ Task'.base = Task.base /\ Task'.obsolete = Task.obsolete
  BY <1>1, <1>2, TaskGoes DEF CreateTableIfMissing
<1>6. /\ meta.state = "creating" /\ Task.base = meta /\ meta.snapshot = TaskSnapshot
      /\ Blank /\ cleanups = {}
  BY <1>1, <1>3, <1>4 DEF CopyInv
<1>7. meta \in Metadata /\ meta # NoMetadata /\ meta.table \in Sequences /\ meta.snapshot \in Positions
      /\ tables \in [Sequences -> TableRecord]
  BY <1>6, InvFacts, MetadataFacts
<1>8. tables' = [tables EXCEPT ![meta.table] = Fresh(meta.snapshot)]
  BY <1>3, <1>6, <1>7 DEF CreateTableIfMissing, Blank, Exists, Missing
<1>9. Fresh(meta.snapshot) = [shape |-> meta.snapshot, rows |-> {}]
      /\ Fresh(meta.snapshot) \in TableRecord
  BY <1>7 DEF Fresh, TableRecord
<1>10. /\ tables' \in [Sequences -> TableRecord] /\ tables'[meta.table] = Fresh(meta.snapshot)
       /\ \A n \in Sequences : n # meta.table => tables'[n] = tables[n]
  BY <1>7, <1>8, <1>9
<1>11. TypeOK'
  BY <1>1, <1>2, <1>5, <1>10 DEF TypeOK, TaskRecord, TableRecord, Sides
<1>12. TaskSnapshot' = TaskSnapshot
  BY <1>5 DEF TaskSnapshot
<1>13. PositionInv'
  BY <1>1, <1>2, <1>3, <1>4, <1>5 DEF PositionInv
<1>14. CopyInv' /\ WriteInv' /\ RelationInv' /\ TruncateInv'
  BY <1>1, <1>2, <1>5, <1>6, <1>9, <1>10, <1>12 DEF CopyInv, WriteInv, RelationInv, TruncateInv, TableIs
<1>15. ResetInv' /\ CopiedInv'
  BY <1>2, <1>4, <1>7 DEF ResetInv, CopiedInv
<1>16. RowsInv'
  <2>1. meta.snapshot # None
    BY <1>7, SourceFacts DEF None
  <2> QED
    BY <1>1, <1>9, <1>10, <2>1 DEF RowsInv, Exists
<1>17. CacheInv' /\ CleanupInv'
  BY <1>1, <1>2, <1>3, <1>6 DEF CacheInv, CleanupInv
<1> QED
  BY <1>5, <1>11, <1>13, <1>14, <1>15, <1>16, <1>17 DEF BigQueryInv

LEMMA AppliedStored == ASSUME BigQueryInv, NEW x \in Sides, StoreApplied(x) PROVE BigQueryInv'
<1>1. /\ TypeOK /\ SoleTask /\ PositionInv /\ CopyInv /\ WriteInv /\ RelationInv /\ TruncateInv
      /\ ResetInv /\ CopiedInv /\ CacheInv /\ RowsInv /\ CleanupInv
  BY DEF BigQueryInv
<1>2. /\ run[x].pc = "store" /\ tables' = tables /\ view' = view /\ created_views' = created_views
      /\ lock' = lock /\ cleanups' = cleanups /\ worker' = worker /\ faults' = faults
      /\ meta' = [run[x].base EXCEPT !.state = "applied"]
  BY DEF StoreApplied
<1>3. Task = run[x] /\ Task.pc = "store" /\ Task.kind \in {"copy", "events"}
  BY <1>2, StepFacts
<1>4. Task.kind = "copy" /\ worker.phase = "copying" /\ ~worker.copied
  BY <1>1, <1>2, <1>3, StepFacts DEF PositionInv
<1>5. /\ SoleTask' /\ run' \in [Sides -> TaskRecord]
      /\ Task'.pc = "view" /\ Task'.kind = Task.kind /\ Task'.at = Task.at /\ Task'.to = Task.to
      /\ Task'.base = Task.base /\ Task'.obsolete = Task.obsolete
  BY <1>1, <1>2, TaskGoes DEF StoreApplied
<1>6. /\ meta.state = "creating" /\ Task.base = meta /\ meta.snapshot = TaskSnapshot
      /\ TableIs(meta.snapshot, {}) /\ cleanups = {}
  BY <1>1, <1>3, <1>4 DEF CopyInv
<1>7. meta \in Metadata /\ meta # NoMetadata
  BY <1>6, InvFacts, MetadataFacts
<1>8. /\ meta' \in Metadata /\ meta'.state = "applied" /\ meta'.table = meta.table
      /\ meta'.snapshot = meta.snapshot /\ meta' # NoMetadata
  BY <1>2, <1>3, <1>6, <1>7 DEF Metadata, NoMetadata
<1>9. TypeOK'
  BY <1>1, <1>2, <1>5, <1>8 DEF TypeOK, TaskRecord, TableRecord, Sides
<1>10. TaskSnapshot' = TaskSnapshot
  BY <1>5 DEF TaskSnapshot
<1>11. PositionInv'
  BY <1>1, <1>2, <1>3, <1>4, <1>5 DEF PositionInv
<1>12. CopyInv' /\ WriteInv' /\ RelationInv' /\ TruncateInv'
  BY <1>1, <1>2, <1>4, <1>5, <1>6, <1>8, <1>10 DEF CopyInv, WriteInv, RelationInv, TruncateInv, TableIs
<1>13. ResetInv' /\ CopiedInv'
  BY <1>2, <1>4, <1>8 DEF ResetInv, CopiedInv
<1>14. RowsInv' /\ CacheInv' /\ CleanupInv'
  BY <1>1, <1>2, <1>3, <1>6 DEF RowsInv, Exists, CacheInv, CleanupInv
<1> QED
  BY <1>5, <1>9, <1>11, <1>12, <1>13, <1>14 DEF BigQueryInv

\* What the rows of an append are.
LEMMA RowsToAppend ==
  ASSUME BigQueryInv, NEW x \in Sides, run[x].pc = "append"
  PROVE  /\ RowsOf(x) \subseteq RowPositions
         /\ Task.kind = "copy" => RowsOf(x) = RowsAt(Task.to) /\ Task.at = Task.to
         /\ Task.kind = "events" =>
              LET last == LastOfRun(Task.at, Task.to)
              IN  /\ last \in Positions /\ Done <= last /\ last <= Task.to /\ last <= worker.reach
                  /\ RowsOf(x) = Done + 1 .. last /\ Done = Task.at - 1
                  /\ \A k \in Done + 1 .. last : Source[k] = "row"
<1>1. PositionInv /\ WriteInv /\ Task = run[x] /\ Task.kind \in {"copy", "events"} /\ Task.pc = "append"
  BY StepFacts
<1>2. Task.at \in Nat /\ Task.to \in Nat /\ Task.to \in Positions /\ Task.at <= Task.to
      /\ worker.reach \in Nat /\ worker.checkpoint \in Nat
  BY <1>1, InvFacts, TaskNumbers, WorkerFacts DEF PositionInv
<1>3. CASE Task.kind = "copy"
  <2>1. RowsOf(x) = RowsAt(Task.to)
    BY <1>1, <1>3 DEF RowsOf, CopiesRows
  <2>2. Task.at = Task.to
    BY <1>1, <1>2, <1>3 DEF PositionInv
  <2> QED
    BY <1>2, <1>3, <2>1, <2>2, RowsInSource
<1>4. CASE Task.kind = "events"
  <2> DEFINE last == LastOfRun(Task.at, Task.to)
  <2>1. last \in Task.at .. Task.to /\ \A j \in Task.at .. last : Source[j] = Source[Task.at]
    BY <1>2, LastOfRunFacts
  <2>2. RowsOf(x) = Task.at .. last
    BY <1>1, <1>4 DEF RowsOf, CopiesRows
  <2>3. Source[Task.at] = "row"
    BY <1>1, <1>4 DEF WriteInv
  <2>4. Done = Task.at - 1
    BY <1>4 DEF Done
  <2>5. Task.to <= worker.reach /\ worker.checkpoint < Task.at
    BY <1>1, <1>4 DEF PositionInv
  <2> HIDE DEF last
  <2>6. last \in Positions /\ Task.at - 1 <= last /\ last <= Task.to /\ last <= worker.reach
        /\ Task.at - 1 + 1 = Task.at /\ Task.at >= 1
    BY <1>2, <2>1, <2>5, SourceFacts
  <2>7. Task.at .. last \subseteq RowPositions
    BY <1>2, <2>1, <2>3, <2>6, SourceFacts DEF RowPositions
  <2> QED
    BY <1>4, <2>1, <2>2, <2>3, <2>4, <2>6, <2>7 DEF last
<1> QED
  BY <1>1, <1>3, <1>4

\* An append finds its table.
LEMMA AppendsToTable ==
  ASSUME BigQueryInv, NEW x \in Sides, run[x].pc = "append"
  PROVE  Exists(meta.table)
<1>1. /\ CopyInv /\ WriteInv /\ CopiedInv /\ Task = run[x] /\ Task.kind \in {"copy", "events"}
      /\ Task.kind = "events" => worker.copied
  BY StepFacts
<1>2. meta.snapshot \in Positions /\ meta.snapshot # None
  BY <1>1, InvFacts, MetadataFacts, SourceFacts DEF WriteInv, None
<1> QED
  BY <1>1, <1>2 DEF CopyInv, CopiedInv, TableIs, Exists

LEMMA RowsAdded ==
  ASSUME tables \in [Sequences -> TableRecord], RowsInv, NEW n \in Sequences, Exists(n),
         NEW more, more \subseteq RowPositions,
         tables' = [tables EXCEPT ![n].rows = @ \cup more]
  PROVE  /\ tables' \in [Sequences -> TableRecord] /\ RowsInv'
         /\ tables'[n].shape = tables[n].shape /\ tables'[n].rows = tables[n].rows \cup more
         /\ tables'[n] = [shape |-> tables[n].shape, rows |-> tables[n].rows \cup more]
<1>1. tables[n] \in TableRecord
  OBVIOUS
<1>2. PICK t : t = [shape |-> tables[n].shape, rows |-> tables[n].rows \cup more]
  OBVIOUS
<1>3. t \in TableRecord /\ t.shape = tables[n].shape /\ t.rows = tables[n].rows \cup more
  BY <1>1, <1>2, RowPositionsType DEF TableRecord
<1>4. tables' = [tables EXCEPT ![n] = [tables[n] EXCEPT !.rows = tables[n].rows \cup more]]
  OBVIOUS
<1>5. tables' = [tables EXCEPT ![n] = t]
  <2>1. PICK b : b = tables[n].rows \cup more
    OBVIOUS
  <2>2. [tables[n] EXCEPT !.rows = b] = [shape |-> tables[n].shape, rows |-> b]
    BY <1>1 DEF TableRecord
  <2> QED
    BY <1>2, <1>4, <2>1, <2>2
<1>6. tables' \in [Sequences -> TableRecord] /\ tables'[n] = t
      /\ \A m \in Sequences : m # n => tables'[m] = tables[m]
  BY <1>3, <1>5
<1>7. RowsInv'
  BY <1>3, <1>6 DEF RowsInv, Exists
<1> QED
  BY <1>2, <1>3, <1>6, <1>7

LEMMA RowsAppendedToTable == ASSUME BigQueryInv, NEW x \in Sides, AppendRows(x) PROVE BigQueryInv'
<1>1. /\ TypeOK /\ SoleTask /\ PositionInv /\ CopyInv /\ WriteInv /\ RelationInv /\ TruncateInv
      /\ ResetInv /\ CopiedInv /\ CacheInv /\ RowsInv /\ CleanupInv
  BY DEF BigQueryInv
<1>2. /\ run[x].pc = "append" /\ meta' = meta /\ view' = view /\ created_views' = created_views
      /\ cleanups' = cleanups /\ faults' = faults
  BY DEF AppendRows
<1>3. /\ Task = run[x] /\ Task.pc = "append" /\ Task.kind \in {"copy", "events"}
      /\ Task.kind = "copy" => worker.phase = "copying" /\ ~worker.copied
      /\ Task.kind = "events" => worker.copied
      /\ worker.phase \in {"copying", "stream", "failed"}
  BY <1>2, StepFacts
<1>4. CASE ~CanAppend(x)
  <2>1. Fails(x) /\ tables' = tables
    BY <1>4 DEF AppendRows
  <2>2. faults' \in 0 .. MaxFaults
    BY <1>1, <1>2 DEF TypeOK
  <2> QED
    BY <1>2, <2>1, <2>2, PlainFailureKeeps
<1>5. CASE CanAppend(x)
  <2>1. /\ tables' = [tables EXCEPT ![run[x].base.table].rows = @ \cup RowsOf(x)]
        /\ run' = [run EXCEPT ![x] =
             Past(x, IF CopiesRows(x) THEN run[x].to ELSE LastOfRun(run[x].at, run[x].to))]
        /\ lock' = lock /\ worker' = worker
    BY <1>5 DEF AppendRows
  <2>2. /\ meta.state = "applied" /\ Task.base.table = meta.table /\ meta.snapshot = TaskSnapshot
        /\ Task.kind = "events" => Source[Task.at] = "row"
        /\ view = meta.table
    BY <1>1, <1>3 DEF WriteInv
  <2>3. meta # NoMetadata /\ meta.table \in Sequences /\ tables \in [Sequences -> TableRecord]
    BY <2>2, InvFacts, MetadataFacts
  <2>4. /\ tables' \in [Sequences -> TableRecord] /\ RowsInv'
        /\ tables'[meta.table].shape = tables[meta.table].shape
        /\ tables'[meta.table].rows = tables[meta.table].rows \cup RowsOf(x)
        /\ tables'[meta.table] = [shape |-> tables[meta.table].shape,
                                  rows |-> tables[meta.table].rows \cup RowsOf(x)]
    BY <1>1, <1>2, <1>3, <2>1, <2>2, <2>3, RowsToAppend, AppendsToTable, RowsAdded
  <2>5. Task.at \in Nat /\ Task.to \in Nat /\ Task.to \in Positions /\ worker \in WorkerRecord
    BY InvFacts, TaskNumbers
  <2>6. CASE Task.kind = "copy"
    <3>1. /\ SoleTask' /\ run' \in [Sides -> TaskRecord]
          /\ Task'.pc = "next" /\ Task'.kind = Task.kind /\ Task'.at = Task.to + 1
          /\ Task'.to = Task.to
      <4>1. run' = [run EXCEPT ![x] = Past(x, Task.to)]
        BY <1>3, <2>1, <2>6 DEF CopiesRows
      <4> QED
        BY <1>1, <1>2, <2>1, <2>5, <4>1, TaskPasses
    <3>2. TypeOK'
      BY <1>1, <1>2, <2>1, <2>4, <3>1 DEF TypeOK, TaskRecord, TableRecord, Sides
    <3>3. PositionInv'
      BY <1>1, <1>3, <2>1, <2>5, <2>6, <3>1 DEF PositionInv
    <3>4. TableIs(meta.snapshot, RowsAt(Task.to))'
      <4>1. tables[meta.table] = [shape |-> meta.snapshot, rows |-> {}] /\ RowsOf(x) = RowsAt(Task.to)
        BY <1>1, <1>2, <1>3, <2>6, RowsToAppend DEF CopyInv, TableIs
      <4>2. tables'[meta.table] = [shape |-> meta.snapshot, rows |-> RowsAt(Task.to)]
        BY <2>4, <4>1
      <4> QED
        BY <1>2, <3>1, <4>2 DEF TableIs
    <3>5. CopyInv' /\ WriteInv' /\ RelationInv' /\ TruncateInv'
      BY <1>1, <1>2, <2>2, <2>5, <2>6, <3>1, <3>4 DEF CopyInv, WriteInv, RelationInv, TruncateInv
    <3>6. ResetInv' /\ CopiedInv'
      BY <1>2, <1>3, <2>1, <2>3, <2>6 DEF ResetInv, CopiedInv
    <3>7. CacheInv' /\ CleanupInv'
      BY <1>1, <1>2, <1>3, <2>1 DEF CacheInv, CleanupInv
    <3> QED
      BY <2>4, <3>1, <3>2, <3>3, <3>5, <3>6, <3>7 DEF BigQueryInv
  <2>7. CASE Task.kind = "events"
    <3> DEFINE last == LastOfRun(Task.at, Task.to)
    <3>1. /\ last \in Positions /\ Done <= last /\ last <= Task.to /\ last <= worker.reach
          /\ RowsOf(x) = Done + 1 .. last /\ Done = Task.at - 1
          /\ \A k \in Done + 1 .. last : Source[k] = "row"
      BY <1>2, <2>7, RowsToAppend
    <3> HIDE DEF last
    <3>2. /\ SoleTask' /\ run' \in [Sides -> TaskRecord]
          /\ Task'.pc = "next" /\ Task'.kind = Task.kind /\ Task'.at = last + 1
          /\ Task'.to = Task.to
      <4>1. run' = [run EXCEPT ![x] = Past(x, last)]
        BY <1>3, <2>1, <2>7 DEF CopiesRows, last
      <4> QED
        BY <1>1, <1>2, <2>1, <3>1, <4>1, TaskPasses
    <3>3. TypeOK'
      BY <1>1, <1>2, <2>1, <2>4, <3>2 DEF TypeOK, TaskRecord, TableRecord, Sides
    <3>4. last \in Nat /\ worker.acked \in Nat /\ worker.checkpoint \in Nat /\ worker.reach \in Nat
          /\ worker.reach \in Positions
      BY <2>5, <3>1, WorkerFacts, SourceFacts
    <3>5. PositionInv'
      BY <1>1, <1>3, <2>1, <2>5, <2>7, <3>1, <3>2, <3>4 DEF PositionInv
    <3>6. CopyInv' /\ WriteInv' /\ RelationInv' /\ TruncateInv'
      BY <2>7, <3>2 DEF CopyInv, WriteInv, RelationInv, TruncateInv
    <3>7. ResetInv'
      BY <1>2, <1>3, <2>1, <2>3 DEF ResetInv
    <3>8. Done' = last
      BY <2>7, <3>2, <3>4 DEF Done
    <3>9. Accounted(last, worker.reach, tables[meta.table].rows \cup (Done + 1 .. last))
      BY <1>1, <1>3, <2>3, <2>7, <3>1, <3>4, DoneFacts, AccountedRows DEF CopiedInv, RowsInv
    <3>10. CopiedInv'
      BY <1>1, <1>2, <1>3, <2>1, <2>2, <2>4, <2>7, <3>1, <3>8, <3>9 DEF CopiedInv, Exists
    <3>11. CacheInv' /\ CleanupInv'
      BY <1>1, <1>2, <1>3, <2>1 DEF CacheInv, CleanupInv
    <3> QED
      BY <2>4, <3>2, <3>3, <3>5, <3>6, <3>7, <3>10, <3>11 DEF BigQueryInv
  <2> QED
    BY <1>3, <2>6, <2>7
<1> QED
  BY <1>4, <1>5

LEMMA RowsAppendedInPart == ASSUME BigQueryInv, NEW x \in Sides, AppendInPart(x) PROVE BigQueryInv'
<1>1. TypeOK /\ WriteInv /\ CopiedInv /\ RowsInv
  BY DEF BigQueryInv
<1>2. /\ run[x].pc = "append" /\ meta' = meta /\ view' = view /\ created_views' = created_views
      /\ cleanups' = cleanups /\ Fails(x) /\ faults < MaxFaults /\ faults' = faults + 1
  BY DEF AppendInPart
<1>3. /\ Task = run[x] /\ Task.pc = "append" /\ Task.kind \in {"copy", "events"}
      /\ Task.kind = "copy" => ~worker.copied
  BY <1>2, StepFacts
<1>4. PICK done \in SUBSET RowsOf(x) :
        tables' = [tables EXCEPT ![run[x].base.table].rows = @ \cup done]
  BY DEF AppendInPart
<1>5. faults' \in 0 .. MaxFaults
  BY <1>1, <1>2, BigQueryAssumption DEF TypeOK
<1>6. meta.state = "applied" /\ Task.base.table = meta.table
  BY <1>1, <1>3 DEF WriteInv
<1>7. meta # NoMetadata /\ meta.table \in Sequences /\ tables \in [Sequences -> TableRecord]
  BY <1>6, InvFacts, MetadataFacts
<1>8. /\ tables' \in [Sequences -> TableRecord] /\ RowsInv'
      /\ tables'[meta.table].shape = tables[meta.table].shape
      /\ tables'[meta.table].rows = tables[meta.table].rows \cup done
  BY <1>1, <1>2, <1>3, <1>4, <1>6, <1>7, RowsToAppend, AppendsToTable, RowsAdded
<1>9. ASSUME worker.copied
      PROVE  Accounted(worker.checkpoint, worker.reach, tables'[meta.table].rows)
  <2>1. Task.kind = "events"
    BY <1>3, <1>9
  <2> DEFINE last == LastOfRun(Task.at, Task.to)
  <2>2. last \in Positions /\ RowsOf(x) = Done + 1 .. last
    BY <1>2, <2>1, RowsToAppend
  <2> HIDE DEF last
  <2>3. /\ worker.checkpoint \in Positions /\ worker.reach \in Positions
        /\ Done \in Positions /\ worker.checkpoint <= Done
    BY <1>9, InvFacts, WorkerFacts, DoneFacts
  <2>4. done \subseteq Done + 1 .. Len(Source)
    BY <2>2, <2>3, SourceFacts
  <2>5. Accounted(Done, worker.reach, tables[meta.table].rows \cup done)
    BY <1>1, <1>9, <2>3, <2>4, AccountedMore DEF CopiedInv
  <2>6. tables'[meta.table].rows \subseteq RowPositions
    BY <1>7, <1>8 DEF RowsInv
  <2> QED
    BY <1>8, <2>3, <2>5, <2>6, AccountedBack
<1> QED
  BY <1>2, <1>5, <1>7, <1>8, <1>9, FailureKeeps

LEMMA CallFailed == ASSUME BigQueryInv, NEW x \in Sides, CallFails(x) PROVE BigQueryInv'
<1>1. faults' \in 0 .. MaxFaults
  BY BigQueryAssumption DEF CallFails, BigQueryInv, TypeOK
<1> QED
  BY <1>1, PlainFailureKeeps DEF CallFails

LEMMA PlanFailed == ASSUME BigQueryInv, NEW x \in Sides, PlanMissesTable(x) PROVE BigQueryInv'
<1>1. faults' \in 0 .. MaxFaults
  BY DEF PlanMissesTable, BigQueryInv, TypeOK
<1> QED
  BY <1>1, PlainFailureKeeps DEF PlanMissesTable

--------------------------------------------------------------------------------
(* Schema changes.                                                          *)

LEMMA ShapeChanged ==
  ASSUME tables \in [Sequences -> TableRecord], RowsInv, NEW n \in Sequences,
         NEW s \in Positions \cup {Mixed}, tables' = [tables EXCEPT ![n].shape = s]
  PROVE  /\ tables' \in [Sequences -> TableRecord] /\ RowsInv'
         /\ tables'[n].shape = s /\ tables'[n].rows = tables[n].rows /\ s # None
<1>1. tables[n] \in TableRecord
  OBVIOUS
<1>2. PICK t : t = [tables[n] EXCEPT !.shape = s]
  OBVIOUS
<1>3. t \in TableRecord /\ t.shape = s /\ t.rows = tables[n].rows
  BY <1>1, <1>2 DEF TableRecord
<1>4. tables' = [tables EXCEPT ![n] = t]
  BY <1>2
<1>5. tables' \in [Sequences -> TableRecord] /\ tables'[n] = t
      /\ \A m \in Sequences : m # n => tables'[m] = tables[m]
  BY <1>3, <1>4
<1>6. s # None
  BY SourceFacts DEF Mixed, None
<1>7. RowsInv'
  BY <1>3, <1>5, <1>6 DEF RowsInv, Exists
<1> QED
  BY <1>3, <1>5, <1>6, <1>7

\* Past a relation nothing else is to be replayed.
LEMMA RelationPassed ==
  ASSUME BigQueryInv, Task.kind = "events", Task.at <= Task.to, Source[Task.at] = "relation"
  PROVE  /\ Task.at \in Positions /\ Done = Task.at - 1
         /\ Accounted(Task.at, worker.reach, tables[meta.table].rows)
         /\ Truncates(Done + 1, worker.reach) => Truncates(Task.at + 1, worker.reach)
<1>1. PositionInv /\ CopiedInv /\ RowsInv
  BY DEF BigQueryInv
<1>2. /\ worker.copied /\ worker.checkpoint < Task.at /\ Task.to <= worker.reach
  BY <1>1 DEF PositionInv
<1>3. Task.at \in Nat /\ Task.to \in Positions /\ worker.reach \in Positions /\ worker.checkpoint \in Nat
      /\ worker.reach \in Nat
  BY InvFacts, TaskNumbers, WorkerFacts
<1>4. Done = Task.at - 1 /\ Done \in Positions
  BY <1>2, DoneFacts DEF Done
<1>5. Task.at = Done + 1 /\ Task.at \in Positions /\ Task.at <= worker.reach
  BY <1>2, <1>3, <1>4, SourceFacts
<1>6. meta # NoMetadata /\ meta.table \in Sequences
  BY <1>1, <1>2, InvFacts, MetadataFacts DEF CopiedInv
<1>7. Accounted(Done + 1, worker.reach, tables[meta.table].rows)
  BY <1>1, <1>2, <1>3, <1>4, <1>5, <1>6, AccountedRelation DEF CopiedInv, RowsInv
<1>8. Truncates(Done + 1, worker.reach) => Truncates(Task.at + 1, worker.reach)
  BY <1>3, <1>4, <1>5 DEF Truncates
<1> QED
  BY <1>4, <1>5, <1>7, <1>8

LEMMA RelationHandled == ASSUME BigQueryInv, NEW x \in Sides, HandleRelation(x) PROVE BigQueryInv'
<1>1. /\ TypeOK /\ SoleTask /\ PositionInv /\ CopyInv /\ WriteInv /\ RelationInv /\ TruncateInv
      /\ ResetInv /\ CopiedInv /\ CacheInv /\ RowsInv /\ CleanupInv
  BY DEF BigQueryInv
<1>2. /\ run[x].pc = "next" /\ AtEvent(x, "relation") /\ tables' = tables /\ view' = view
      /\ created_views' = created_views /\ cleanups' = cleanups /\ faults' = faults
  BY DEF HandleRelation
<1>3. /\ Task = run[x] /\ Task.pc = "next" /\ Task.kind = "events" /\ worker.copied
      /\ worker.phase \in {"stream", "failed"} /\ Task.at <= Task.to /\ Source[Task.at] = "relation"
  BY <1>2, StepFacts DEF AtEvent
<1>4. /\ Task.at \in Positions /\ Done = Task.at - 1
      /\ Accounted(Task.at, worker.reach, tables[meta.table].rows)
      /\ Truncates(Done + 1, worker.reach) => Truncates(Task.at + 1, worker.reach)
  BY <1>3, RelationPassed
<1>5. SnapshotOf(x) \in Positions
  BY <1>3, <1>4, SnapshotType DEF SnapshotOf, CopiesRows
<1>6. Task.at \in Nat /\ Task.to \in Nat /\ worker.acked \in Nat /\ worker.checkpoint \in Nat
      /\ meta \in Metadata
  BY InvFacts, TaskNumbers, WorkerFacts
<1>7. CASE Fails(x) /\ meta' = meta
  <2>1. faults' \in 0 .. MaxFaults
    BY <1>1, <1>2 DEF TypeOK
  <2> QED
    BY <1>2, <1>7, <2>1, PlainFailureKeeps
<1>8. CASE /\ run' = [run EXCEPT ![x] = Past(x, run[x].at)]
           /\ UNCHANGED <<meta, lock, worker>>
  <2>1. /\ SoleTask' /\ run' \in [Sides -> TaskRecord]
        /\ Task'.pc = "next" /\ Task'.kind = Task.kind /\ Task'.at = Task.at + 1
        /\ Task'.to = Task.to
    BY <1>1, <1>2, <1>3, <1>4, <1>8, TaskPasses
  <2>2. TypeOK'
    BY <1>1, <1>2, <1>8, <2>1 DEF TypeOK, TaskRecord, Sides
  <2>3. PositionInv'
    BY <1>1, <1>3, <1>6, <1>8, <2>1 DEF PositionInv
  <2>4. CopyInv' /\ WriteInv' /\ RelationInv' /\ TruncateInv'
    BY <1>3, <2>1 DEF CopyInv, WriteInv, RelationInv, TruncateInv
  <2>5. ResetInv'
    BY <1>1, <1>2, <1>8 DEF ResetInv, Blank
  <2>6. Done' = Task.at
    BY <1>3, <1>6, <2>1 DEF Done
  <2>7. CopiedInv' /\ RowsInv'
    BY <1>1, <1>2, <1>3, <1>4, <1>8, <2>6 DEF CopiedInv, RowsInv, Exists
  <2>8. CacheInv' /\ CleanupInv'
    BY <1>1, <1>2, <1>3, <1>8 DEF CacheInv, CleanupInv
  <2> QED
    BY <2>1, <2>2, <2>3, <2>4, <2>5, <2>7, <2>8 DEF BigQueryInv
<1>9. CASE /\ meta.state = "applied"
           /\ meta' = [meta EXCEPT !.state = "applying", !.snapshot = SnapshotOf(x)]
           /\ run' = [run EXCEPT ![x].pc = "ddl", ![x].base = meta']
           /\ UNCHANGED <<lock, worker>>
  <2>1. /\ meta' \in Metadata /\ meta'.state = "applying" /\ meta'.table = meta.table
        /\ meta' # NoMetadata /\ meta # NoMetadata
    <3>1. PICK s \in Positions : s = SnapshotOf(x)
      BY <1>5
    <3>2. meta \in [state : {"creating", "applying", "applied"}, table : Sequences, snapshot : Positions]
      BY <1>6, <1>9 DEF Metadata, NoMetadata
    <3>3. meta' = [meta EXCEPT !.state = "applying", !.snapshot = s]
      BY <1>9, <3>1
    <3>4. /\ meta' \in [state : {"creating", "applying", "applied"}, table : Sequences, snapshot : Positions]
          /\ meta'.state = "applying" /\ meta'.table = meta.table
      BY <3>2, <3>3
    <3> QED
      BY <1>9, <3>4 DEF Metadata, NoMetadata
  <2>2. /\ SoleTask' /\ run' \in [Sides -> TaskRecord]
        /\ Task'.pc = "ddl" /\ Task'.kind = Task.kind /\ Task'.at = Task.at /\ Task'.to = Task.to
        /\ Task'.base = meta'
    BY <1>1, <1>2, <1>9, <2>1, TaskRebased
  <2>3. TypeOK'
    BY <1>1, <1>2, <1>9, <2>1, <2>2 DEF TypeOK, TaskRecord, Sides
  <2>4. PositionInv'
    BY <1>1, <1>3, <1>9, <2>2 DEF PositionInv
  <2>5. CopyInv' /\ WriteInv' /\ RelationInv' /\ TruncateInv'
    BY <1>3, <2>1, <2>2 DEF CopyInv, WriteInv, RelationInv, TruncateInv
  <2>6. ResetInv'
    BY <1>3, <1>9, <2>1 DEF ResetInv
  <2>7. Done' = Done
    BY <1>9, <2>2 DEF Done
  <2>8. CopiedInv' /\ RowsInv'
    BY <1>1, <1>2, <1>3, <1>9, <2>1, <2>7 DEF CopiedInv, RowsInv, Exists
  <2>9. CacheInv' /\ CleanupInv'
    BY <1>1, <1>2, <1>3, <1>9, <2>1 DEF CacheInv, CleanupInv
  <2> QED
    BY <2>2, <2>3, <2>4, <2>5, <2>6, <2>8, <2>9 DEF BigQueryInv
<1> QED
  BY <1>7, <1>8, <1>9 DEF HandleRelation

LEMMA PlanApplied == ASSUME BigQueryInv, NEW x \in Sides, ApplySchemaPlan(x) PROVE BigQueryInv'
<1>1. /\ TypeOK /\ SoleTask /\ PositionInv /\ CopyInv /\ WriteInv /\ RelationInv /\ TruncateInv
      /\ ResetInv /\ CopiedInv /\ CacheInv /\ RowsInv /\ CleanupInv
  BY DEF BigQueryInv
<1>2. /\ run[x].pc \in {"ddl", "ddl_rest"} /\ meta' = meta /\ view' = view
      /\ created_views' = created_views /\ lock' = lock /\ cleanups' = cleanups
      /\ worker' = worker /\ faults' = faults
  BY DEF ApplySchemaPlan
<1>3. /\ Task = run[x] /\ Task.pc \in {"ddl", "ddl_rest"} /\ Task.kind = "events" /\ worker.copied
      /\ worker.phase \in {"stream", "failed"} /\ Source[Task.at] = "relation"
      /\ meta.state = "applying" /\ Task.base = meta
  BY <1>1, <1>2, StepFacts DEF RelationInv
<1>4. meta # NoMetadata /\ meta.table \in Sequences /\ meta.snapshot \in Positions
      /\ tables \in [Sequences -> TableRecord]
  BY <1>3, InvFacts, MetadataFacts
<1>5. PICK s \in {Mixed, meta.snapshot}, p \in {"ddl_rest", "recreate_view"} :
        /\ tables' = [tables EXCEPT ![meta.table].shape = s] /\ Goto(x, p)
        /\ p = "recreate_view" => s = meta.snapshot
  BY <1>3 DEF ApplySchemaPlan
<1>6. /\ tables' \in [Sequences -> TableRecord] /\ RowsInv' /\ tables'[meta.table].shape = s
      /\ tables'[meta.table].rows = tables[meta.table].rows /\ s # None
  BY <1>1, <1>4, <1>5, ShapeChanged
<1>7. /\ SoleTask' /\ run' \in [Sides -> TaskRecord]
      /\ Task'.pc = p /\ Task'.kind = Task.kind /\ Task'.at = Task.at /\ Task'.to = Task.to
      /\ Task'.base = Task.base
  BY <1>1, <1>2, <1>5, TaskGoes
<1>8. TypeOK'
  BY <1>1, <1>2, <1>6, <1>7 DEF TypeOK, TaskRecord, TableRecord, Sides
<1>9. PositionInv'
  BY <1>1, <1>2, <1>3, <1>5, <1>7 DEF PositionInv
<1>10. CopyInv' /\ WriteInv' /\ RelationInv' /\ TruncateInv'
  BY <1>2, <1>3, <1>5, <1>6, <1>7 DEF CopyInv, WriteInv, RelationInv, TruncateInv
<1>11. ResetInv'
  BY <1>2, <1>3, <1>4 DEF ResetInv
<1>12. Done' = Done
  BY <1>2, <1>7 DEF Done
<1>13. CopiedInv'
  BY <1>1, <1>2, <1>3, <1>6, <1>12 DEF CopiedInv, Exists
<1>14. CacheInv' /\ CleanupInv'
  BY <1>1, <1>2, <1>3 DEF CacheInv, CleanupInv
<1> QED
  BY <1>6, <1>7, <1>8, <1>9, <1>10, <1>11, <1>13, <1>14 DEF BigQueryInv

LEMMA ViewRecreated == ASSUME BigQueryInv, NEW x \in Sides, RecreateView(x) PROVE BigQueryInv'
<1>1. /\ TypeOK /\ SoleTask /\ PositionInv /\ CopyInv /\ WriteInv /\ RelationInv /\ TruncateInv
      /\ ResetInv /\ CopiedInv /\ CacheInv /\ RowsInv /\ CleanupInv
  BY DEF BigQueryInv
<1>2. /\ run[x].pc \in {"recreate_view", "cache_view"} /\ meta' = meta /\ tables' = tables
      /\ lock' = lock /\ cleanups' = cleanups /\ worker' = worker /\ faults' = faults
  BY DEF RecreateView
<1>3. /\ Task = run[x] /\ Task.pc \in {"recreate_view", "cache_view"} /\ Task.kind = "events"
      /\ worker.copied /\ worker.phase \in {"stream", "failed"} /\ Source[Task.at] = "relation"
      /\ meta.state = "applying" /\ Task.base = meta /\ tables[meta.table].shape = meta.snapshot
  BY <1>1, <1>2, StepFacts DEF RelationInv
<1>4. meta # NoMetadata /\ meta.table \in Sequences
  BY <1>3, InvFacts, MetadataFacts
<1>5. PICK p \in {"cache_view", "relation_applied"} :
        /\ Goto(x, p) /\ view' = meta.table
        /\ p = "relation_applied" => created_views' = meta.table
        /\ created_views' \in {created_views, meta.table}
  BY <1>1, <1>3 DEF RecreateView, RelationInv
<1>6. /\ SoleTask' /\ run' \in [Sides -> TaskRecord]
      /\ Task'.pc = p /\ Task'.kind = Task.kind /\ Task'.at = Task.at /\ Task'.to = Task.to
      /\ Task'.base = Task.base
  BY <1>1, <1>2, <1>5, TaskGoes
<1>7. TypeOK'
  BY <1>1, <1>2, <1>4, <1>5, <1>6 DEF TypeOK, TaskRecord, Sides
<1>8. PositionInv'
  BY <1>1, <1>2, <1>3, <1>5, <1>6 DEF PositionInv
<1>9. CopyInv' /\ WriteInv' /\ RelationInv' /\ TruncateInv'
  BY <1>2, <1>3, <1>5, <1>6 DEF CopyInv, WriteInv, RelationInv, TruncateInv
<1>10. ResetInv'
  BY <1>2, <1>3, <1>4 DEF ResetInv
<1>11. Done' = Done
  BY <1>2, <1>6 DEF Done
<1>12. CopiedInv' /\ RowsInv'
  BY <1>1, <1>2, <1>3, <1>5, <1>11 DEF CopiedInv, RowsInv, Exists
<1>13. CacheInv' /\ CleanupInv'
  BY <1>1, <1>2, <1>5, <1>6 DEF CacheInv, CleanupInv
<1> QED
  BY <1>6, <1>7, <1>8, <1>9, <1>10, <1>12, <1>13 DEF BigQueryInv

LEMMA RelationStored == ASSUME BigQueryInv, NEW x \in Sides, RelationApplied(x) PROVE BigQueryInv'
<1>1. /\ TypeOK /\ SoleTask /\ PositionInv /\ CopyInv /\ WriteInv /\ RelationInv /\ TruncateInv
      /\ ResetInv /\ CopiedInv /\ CacheInv /\ RowsInv /\ CleanupInv
  BY DEF BigQueryInv
<1>2. /\ run[x].pc = "relation_applied" /\ tables' = tables /\ view' = view
      /\ created_views' = created_views /\ lock' = lock /\ cleanups' = cleanups
      /\ worker' = worker /\ faults' = faults
      /\ meta' = [run[x].base EXCEPT !.state = "applied"]
      /\ run' = [run EXCEPT ![x] = Past(x, run[x].at)]
  BY DEF RelationApplied
<1>3. /\ Task = run[x] /\ Task.pc = "relation_applied" /\ Task.kind = "events"
      /\ worker.copied /\ worker.phase \in {"stream", "failed"} /\ Source[Task.at] = "relation"
      /\ meta.state = "applying" /\ Task.base = meta /\ tables[meta.table].shape = meta.snapshot
      /\ view = meta.table
  BY <1>1, <1>2, StepFacts DEF RelationInv
<1>4. Task.at <= Task.to
  BY <1>1, <1>3 DEF PositionInv
<1>5. Task.at \in Positions /\ Accounted(Task.at, worker.reach, tables[meta.table].rows)
  BY <1>3, <1>4, RelationPassed
<1>6. /\ meta' \in Metadata /\ meta'.state = "applied" /\ meta'.table = meta.table
      /\ meta'.snapshot = meta.snapshot /\ meta' # NoMetadata
  BY <1>2, <1>3, InvFacts DEF Metadata, NoMetadata
<1>7. /\ SoleTask' /\ run' \in [Sides -> TaskRecord]
      /\ Task'.pc = "next" /\ Task'.kind = Task.kind /\ Task'.at = Task.at + 1
      /\ Task'.to = Task.to
  BY <1>1, <1>2, <1>3, <1>5, TaskPasses
<1>8. Task.at \in Nat /\ Task.to \in Nat /\ worker.acked \in Nat /\ worker.checkpoint \in Nat
  BY InvFacts, TaskNumbers, WorkerFacts
<1>9. TypeOK'
  BY <1>1, <1>2, <1>6, <1>7 DEF TypeOK, TaskRecord, Sides
<1>10. PositionInv'
  BY <1>1, <1>2, <1>3, <1>4, <1>7, <1>8 DEF PositionInv
<1>11. CopyInv' /\ WriteInv' /\ RelationInv' /\ TruncateInv'
  BY <1>3, <1>7 DEF CopyInv, WriteInv, RelationInv, TruncateInv
<1>12. ResetInv'
  BY <1>2, <1>3, <1>6 DEF ResetInv
<1>13. Done' = Task.at
  BY <1>3, <1>7, <1>8 DEF Done
<1>14. CopiedInv' /\ RowsInv'
  BY <1>1, <1>2, <1>3, <1>5, <1>6, <1>13 DEF CopiedInv, RowsInv, Exists
<1>15. CacheInv' /\ CleanupInv'
  BY <1>1, <1>2, <1>3, <1>6 DEF CacheInv, CleanupInv
<1> QED
  BY <1>7, <1>9, <1>10, <1>11, <1>12, <1>14, <1>15 DEF BigQueryInv

--------------------------------------------------------------------------------
(* Truncates.                                                               *)

LEMMA TruncateRun ==
  ASSUME BigQueryInv, Task.kind = "events", Task.at <= Task.to, Source[Task.at] = "truncate"
  PROVE  LET last == LastOfRun(Task.at, Task.to)
         IN  /\ last \in Positions /\ Task.at <= last /\ last <= Task.to
             /\ Accounted(last, worker.reach, {})
             /\ Truncates(Done + 1, worker.reach)
<1>1. PositionInv
  BY DEF BigQueryInv
<1>2. /\ worker.copied /\ worker.checkpoint < Task.at /\ Task.to <= worker.reach
  BY <1>1 DEF PositionInv
<1>3. Task.at \in Nat /\ Task.to \in Positions /\ Task.to \in Nat /\ worker.reach \in Positions
      /\ worker.checkpoint \in Nat /\ worker.reach \in Nat
  BY InvFacts, TaskNumbers, WorkerFacts
<1> DEFINE last == LastOfRun(Task.at, Task.to)
<1>4. last \in Task.at .. Task.to /\ \A j \in Task.at .. last : Source[j] = Source[Task.at]
  BY <1>3, LastOfRunFacts
<1>5. Done = Task.at - 1
  BY DEF Done
<1> HIDE DEF last
<1>6. last \in Positions /\ last >= 1 /\ last <= worker.reach /\ Source[last] = "truncate"
  BY <1>2, <1>3, <1>4, SourceFacts
<1>7. Accounted(last, worker.reach, {})
  BY <1>3, <1>6, AccountedTruncate
<1>8. Truncates(Done + 1, worker.reach)
  BY <1>2, <1>3, <1>5 DEF Truncates
<1> QED
  BY <1>3, <1>4, <1>6, <1>7, <1>8 DEF last

LEMMA TruncateProcessed == ASSUME BigQueryInv, NEW x \in Sides, ProcessTruncate(x) PROVE BigQueryInv'
<1>1. /\ TypeOK /\ SoleTask /\ PositionInv /\ CopyInv /\ WriteInv /\ RelationInv /\ TruncateInv
      /\ ResetInv /\ CopiedInv /\ CacheInv /\ RowsInv /\ CleanupInv
  BY DEF BigQueryInv
<1>2. /\ run[x].pc = "next" /\ AtEvent(x, "truncate") /\ meta' = meta /\ tables' = tables
      /\ view' = view /\ created_views' = created_views /\ cleanups' = cleanups /\ faults' = faults
  BY DEF ProcessTruncate
<1>3. /\ Task = run[x] /\ Task.pc = "next" /\ Task.kind = "events" /\ worker.copied
      /\ worker.phase \in {"stream", "failed"} /\ Task.at <= Task.to /\ Source[Task.at] = "truncate"
  BY <1>2, StepFacts DEF AtEvent
<1>4. meta \in Metadata /\ meta # NoMetadata /\ meta.table \in Sequences /\ meta.table \in Int
  BY <1>1, <1>3, InvFacts, MetadataFacts, SourceFacts DEF CopiedInv
<1>5. CASE Fails(x)
  <2>1. faults' \in 0 .. MaxFaults
    BY <1>1, <1>2 DEF TypeOK
  <2> QED
    BY <1>2, <1>5, <2>1, PlainFailureKeeps
<1>6. CASE /\ meta.state = "applied" /\ NextSequence <= MaxSequence
           /\ run' = [run EXCEPT ![x].pc = "new_table",
                                 ![x].base = [meta EXCEPT !.table = NextSequence],
                                 ![x].obsolete = ObsoleteBefore(NextSequence)]
           /\ lock' = x /\ worker' = worker
  <2>1. NextSequence \in Sequences /\ NextSequence > meta.table /\ NextSequence \in Nat
    BY <1>4, <1>6, NextSequenceFacts, SourceFacts
  <2>2. PICK n \in Sequences : n = NextSequence
    BY <2>1
  <2>3. PICK m : m = [meta EXCEPT !.table = n]
    OBVIOUS
  <2>4. m \in Metadata /\ m.state = "applied" /\ m.snapshot = meta.snapshot /\ m.table = n
    <3>1. meta \in [state : {"creating", "applying", "applied"}, table : Sequences, snapshot : Positions]
      BY <1>4 DEF Metadata
    <3> QED
      BY <1>6, <2>3, <3>1 DEF Metadata
  <2>5. PICK o : o = ObsoleteBefore(n)
    OBVIOUS
  <2>6. o \in SUBSET Sequences /\ \A k \in o : k < n
    <3>1. meta.table \in Nat /\ n \in Nat /\ n <= MaxSequence /\ MaxSequence \in Nat
      BY <1>4, SourceFacts
    <3> QED
      BY <2>5, <3>1, SourceFacts DEF ObsoleteBefore
  <2>7. /\ SoleTask' /\ run' \in [Sides -> TaskRecord]
        /\ Task'.pc = "new_table" /\ Task'.kind = Task.kind /\ Task'.at = Task.at
        /\ Task'.to = Task.to /\ Task'.base = m /\ Task'.obsolete = o
    <3>0. PICK r : r = [run[x] EXCEPT !.pc = "new_table", !.base = m, !.obsolete = o]
      OBVIOUS
    <3>1. run' = [run EXCEPT ![x] = r]
      BY <1>1, <1>6, <2>2, <2>3, <2>5, <3>0 DEF TypeOK, Sides
    <3>2. worker' = worker /\ run[x].pc # "none"
      BY <1>2, <1>6
    <3> QED
      BY <1>1, <2>4, <2>6, <3>0, <3>1, <3>2, TaskTruncates
  <2>8. TypeOK'
    BY <1>1, <1>2, <1>6, <2>7 DEF TypeOK, TaskRecord, Sides
  <2>9. PositionInv'
    BY <1>1, <1>3, <1>6, <2>7 DEF PositionInv
  <2>10. CopyInv' /\ WriteInv' /\ RelationInv' /\ TruncateInv'
    BY <1>2, <1>3, <1>6, <2>1, <2>2, <2>4, <2>6, <2>7 DEF CopyInv, WriteInv, RelationInv, TruncateInv
  <2>11. ResetInv'
    BY <1>2, <1>3, <1>4, <1>6 DEF ResetInv
  <2>12. Done' = Done
    BY <1>6, <2>7 DEF Done
  <2>13. CopiedInv' /\ RowsInv'
    BY <1>1, <1>2, <1>3, <1>6, <2>12 DEF CopiedInv, RowsInv, Exists
  <2>14. CacheInv' /\ CleanupInv'
    BY <1>1, <1>2, <1>3, <1>6 DEF CacheInv, CleanupInv
  <2> QED
    BY <2>7, <2>8, <2>9, <2>10, <2>11, <2>13, <2>14 DEF BigQueryInv
<1> QED
  BY <1>4, <1>5, <1>6 DEF ProcessTruncate, Hold

LEMMA GenerationCreated == ASSUME BigQueryInv, NEW x \in Sides, CreateGeneration(x) PROVE BigQueryInv'
<1>1. /\ TypeOK /\ SoleTask /\ PositionInv /\ CopyInv /\ WriteInv /\ RelationInv /\ TruncateInv
      /\ ResetInv /\ CopiedInv /\ CacheInv /\ RowsInv /\ CleanupInv
  BY DEF BigQueryInv
<1>2. /\ run[x].pc = "new_table" /\ meta' = meta /\ view' = view /\ created_views' = created_views
      /\ lock' = lock /\ cleanups' = cleanups /\ worker' = worker /\ faults' = faults
  BY DEF CreateGeneration
<1>3. /\ Task = run[x] /\ Task.pc = "new_table" /\ Task.kind = "events" /\ worker.copied
      /\ worker.phase \in {"stream", "failed"} /\ Source[Task.at] = "truncate"
      /\ meta.state = "applied" /\ meta.table < Task.base.table
      /\ Task.base.state = "applied" /\ Task.base.snapshot = meta.snapshot
      /\ \A n \in Task.obsolete : n < Task.base.table
  BY <1>1, <1>2, StepFacts DEF TruncateInv
<1>4. /\ meta # NoMetadata /\ meta.table \in Sequences /\ meta.snapshot \in Positions
      /\ Task.base \in Metadata /\ Task.base.table \in Sequences /\ Task.base.table # meta.table
      /\ tables \in [Sequences -> TableRecord]
  BY <1>3, InvFacts, TaskNumbers, MetadataFacts, SourceFacts
<1>5. /\ SoleTask' /\ run' \in [Sides -> TaskRecord]
      /\ Task'.pc = "new_view" /\ Task'.kind = Task.kind /\ Task'.at = Task.at /\ Task'.to = Task.to
      /\ Task'.base = Task.base /\ Task'.obsolete = Task.obsolete
  BY <1>1, <1>2, TaskGoes DEF CreateGeneration
<1>6. tables' = [tables EXCEPT ![Task.base.table] = Fresh(meta.snapshot)]
  BY <1>3 DEF CreateGeneration
<1>7. Fresh(meta.snapshot) \in TableRecord /\ Fresh(meta.snapshot).rows = {}
  BY <1>4 DEF Fresh, TableRecord
<1>8. /\ tables' \in [Sequences -> TableRecord] /\ tables'[Task.base.table] = Fresh(meta.snapshot)
      /\ \A n \in Sequences : n # Task.base.table => tables'[n] = tables[n]
  BY <1>4, <1>6, <1>7
<1>9. tables'[meta.table] = tables[meta.table]
  BY <1>4, <1>8
<1>10. TypeOK'
  BY <1>1, <1>2, <1>5, <1>8 DEF TypeOK, TaskRecord, TableRecord, Sides
<1>11. PositionInv'
  BY <1>1, <1>2, <1>3, <1>5 DEF PositionInv
<1>12. CopyInv' /\ WriteInv' /\ RelationInv' /\ TruncateInv'
  BY <1>2, <1>3, <1>5, <1>8 DEF CopyInv, WriteInv, RelationInv, TruncateInv, Fresh
<1>13. ResetInv'
  BY <1>2, <1>3, <1>4 DEF ResetInv
<1>14. Done' = Done
  BY <1>2, <1>5 DEF Done
<1>15. CopiedInv'
  BY <1>1, <1>2, <1>9, <1>14 DEF CopiedInv, Exists
<1>16. RowsInv'
  <2>1. Fresh(meta.snapshot).shape # None
    BY <1>4, SourceFacts DEF Fresh, None
  <2> QED
    BY <1>1, <1>7, <1>8, <2>1 DEF RowsInv, Exists
<1>17. CacheInv' /\ CleanupInv'
  BY <1>1, <1>2, <1>3 DEF CacheInv, CleanupInv
<1> QED
  BY <1>5, <1>10, <1>11, <1>12, <1>13, <1>15, <1>16, <1>17 DEF BigQueryInv

LEMMA ViewMoved == ASSUME BigQueryInv, NEW x \in Sides, MoveView(x) PROVE BigQueryInv'
<1>1. /\ TypeOK /\ SoleTask /\ PositionInv /\ CopyInv /\ WriteInv /\ RelationInv /\ TruncateInv
      /\ ResetInv /\ CopiedInv /\ CacheInv /\ RowsInv /\ CleanupInv
  BY DEF BigQueryInv
<1>2. /\ run[x].pc = "new_view" /\ meta' = meta /\ tables' = tables
      /\ lock' = lock /\ cleanups' = cleanups /\ worker' = worker /\ faults' = faults
  BY DEF MoveView
<1>3. /\ Task = run[x] /\ Task.pc = "new_view" /\ Task.kind = "events" /\ worker.copied
      /\ worker.phase \in {"stream", "failed"} /\ Source[Task.at] = "truncate"
      /\ meta.state = "applied" /\ meta.table < Task.base.table
      /\ Task.base.state = "applied" /\ Task.base.snapshot = meta.snapshot
      /\ \A n \in Task.obsolete : n < Task.base.table
      /\ tables[Task.base.table] = Fresh(meta.snapshot)
  BY <1>1, <1>2, StepFacts DEF TruncateInv
<1>4. meta # NoMetadata /\ Task.base.table \in Sequences
  BY <1>3, InvFacts, TaskNumbers, MetadataFacts
<1>5. /\ SoleTask' /\ run' \in [Sides -> TaskRecord]
      /\ Task'.pc = "new_metadata" /\ Task'.kind = Task.kind /\ Task'.at = Task.at /\ Task'.to = Task.to
      /\ Task'.base = Task.base /\ Task'.obsolete = Task.obsolete
  BY <1>1, <1>2, TaskGoes DEF MoveView
<1>6. view' = Task.base.table /\ created_views' = Task.base.table
  <2>1. created_views \in {None, view}
    BY <1>1, <1>3 DEF CacheInv
  <2>2. Task.base.table # None
    BY <1>4, SourceFacts DEF None
  <2> QED
    BY <1>3, <2>1, <2>2 DEF MoveView, ensure_view_points_to_table
<1>7. TypeOK'
  BY <1>1, <1>2, <1>4, <1>5, <1>6 DEF TypeOK, TaskRecord, Sides
<1>8. PositionInv'
  BY <1>1, <1>2, <1>3, <1>5 DEF PositionInv
<1>9. CopyInv' /\ WriteInv' /\ RelationInv' /\ TruncateInv'
  BY <1>2, <1>3, <1>5, <1>6 DEF CopyInv, WriteInv, RelationInv, TruncateInv, Fresh
<1>10. ResetInv'
  BY <1>2, <1>3, <1>4 DEF ResetInv
<1>11. Done' = Done
  BY <1>2, <1>5 DEF Done
<1>12. Truncates(Done + 1, worker.reach)
  <2>1. Task.at <= Task.to
    BY <1>1, <1>3 DEF PositionInv
  <2> QED
    BY <1>3, <2>1, TruncateRun
<1>13. CopiedInv' /\ RowsInv'
  BY <1>1, <1>2, <1>11, <1>12 DEF CopiedInv, RowsInv, Exists
<1>14. CacheInv' /\ CleanupInv'
  BY <1>1, <1>2, <1>6 DEF CacheInv, CleanupInv
<1> QED
  BY <1>5, <1>7, <1>8, <1>9, <1>10, <1>13, <1>14 DEF BigQueryInv

LEMMA MetadataMoved == ASSUME BigQueryInv, NEW x \in Sides, MoveMetadata(x) PROVE BigQueryInv'
<1>1. /\ TypeOK /\ SoleTask /\ PositionInv /\ CopyInv /\ WriteInv /\ RelationInv /\ TruncateInv
      /\ ResetInv /\ CopiedInv /\ CacheInv /\ RowsInv /\ CleanupInv
  BY DEF BigQueryInv
<1>2. /\ run[x].pc = "new_metadata" /\ tables' = tables /\ view' = view
      /\ created_views' = created_views /\ worker' = worker /\ faults' = faults /\ lock' = "free"
      /\ meta' = run[x].base /\ cleanups' = cleanups \cup run[x].obsolete
      /\ run' = [run EXCEPT ![x] = Past(x, LastOfRun(run[x].at, run[x].to))]
  BY DEF MoveMetadata, Release
<1>3. /\ Task = run[x] /\ Task.pc = "new_metadata" /\ Task.kind = "events" /\ worker.copied
      /\ worker.phase \in {"stream", "failed"} /\ Source[Task.at] = "truncate"
      /\ meta.state = "applied" /\ meta.table < Task.base.table
      /\ Task.base.state = "applied" /\ Task.base.snapshot = meta.snapshot
      /\ \A n \in Task.obsolete : n < Task.base.table
      /\ tables[Task.base.table] = Fresh(meta.snapshot) /\ view = Task.base.table
  BY <1>1, <1>2, StepFacts DEF TruncateInv
<1>4. /\ meta # NoMetadata /\ meta.table \in Sequences /\ meta.snapshot \in Positions
      /\ Task.base \in Metadata /\ Task.base.table \in Sequences /\ Task.base # NoMetadata
      /\ Task.obsolete \subseteq Sequences /\ Task.at \in Nat /\ Task.to \in Nat
      /\ worker.checkpoint \in Nat /\ worker.acked \in Nat
  BY <1>3, InvFacts, TaskNumbers, MetadataFacts, WorkerFacts
<1>5. Task.at <= Task.to
  BY <1>1, <1>3 DEF PositionInv
<1> DEFINE last == LastOfRun(Task.at, Task.to)
<1>6. last \in Positions /\ Task.at <= last /\ last <= Task.to /\ Accounted(last, worker.reach, {})
  BY <1>3, <1>5, TruncateRun
<1> HIDE DEF last
<1>7. /\ SoleTask' /\ run' \in [Sides -> TaskRecord]
      /\ Task'.pc = "next" /\ Task'.kind = Task.kind /\ Task'.at = last + 1
      /\ Task'.to = Task.to
  <2>1. run' = [run EXCEPT ![x] = Past(x, last)]
    BY <1>2, <1>3 DEF last
  <2> QED
    BY <1>1, <1>2, <1>6, <2>1, TaskPasses
<1>8. last \in Nat
  BY <1>6, SourceFacts
<1>9. TypeOK'
  BY <1>1, <1>2, <1>3, <1>4, <1>7 DEF TypeOK, TaskRecord, Sides
<1>10. PositionInv'
  BY <1>1, <1>2, <1>3, <1>4, <1>6, <1>7, <1>8 DEF PositionInv
<1>11. CopyInv' /\ WriteInv' /\ RelationInv' /\ TruncateInv'
  BY <1>3, <1>7 DEF CopyInv, WriteInv, RelationInv, TruncateInv
<1>12. ResetInv'
  BY <1>2, <1>3, <1>4 DEF ResetInv
<1>13. Done' = last
  BY <1>3, <1>7, <1>8 DEF Done
<1>14. Fresh(meta.snapshot).rows = {} /\ Fresh(meta.snapshot).shape = meta.snapshot
       /\ meta.snapshot # None
  BY <1>4, SourceFacts DEF Fresh, None
<1>15. CopiedInv' /\ RowsInv'
  BY <1>1, <1>2, <1>3, <1>6, <1>13, <1>14 DEF CopiedInv, RowsInv, Exists
<1>16. CacheInv'
  BY <1>1, <1>2, <1>3 DEF CacheInv
<1>17. CleanupInv'
  <2>1. meta.table \in Nat /\ Task.base.table \in Nat /\ cleanups \subseteq Nat
    BY <1>1, <1>4, SourceFacts DEF TypeOK
  <2> QED
    BY <1>1, <1>2, <1>3, <2>1 DEF CleanupInv
<1> QED
  BY <1>7, <1>9, <1>10, <1>11, <1>12, <1>15, <1>16, <1>17 DEF BigQueryInv

--------------------------------------------------------------------------------
(* The end of a task and the cleanups.                                      *)

LEMMA TaskCleared ==
  ASSUME TypeOK, SoleTask, NEW x \in Sides, run[x].pc # "none",
         run' = [run EXCEPT ![x] = NotRunning], worker'.phase # "copying"
  PROVE  /\ Task' = NotRunning /\ Task'.pc = "none" /\ Task'.kind = "none"
         /\ SoleTask' /\ run' \in [Sides -> TaskRecord]
<1>1. run \in [Sides -> TaskRecord]
  BY DEF TypeOK, TaskRecord, Sides
<1>2. NotRunning \in TaskRecord
  BY SourceFacts DEF NotRunning, TaskRecord, Metadata
<1>3. run' \in [Sides -> TaskRecord] /\ run'[x] = NotRunning
      /\ \A y \in Sides : y # x => run'[y] = run[y]
  BY <1>1, <1>2
<1>4. run'["cur"] = NotRunning /\ run'["old"] = NotRunning
  BY <1>3, TaskOf DEF Sides
<1>5. NotRunning.pc = "none" /\ NotRunning.kind = "none"
  BY DEF NotRunning
<1>6. Task' = NotRunning
  BY <1>4 DEF Task
<1>7. SoleTask'
  BY <1>4, <1>5 DEF SoleTask
<1> QED
  BY <1>3, <1>5, <1>6, <1>7

\* The parts of the invariant that only speak of a task.
LEMMA NoTaskInv ==
  ASSUME Task'.pc = "none", Task'.kind = "none"
  PROVE  CopyInv' /\ WriteInv' /\ RelationInv' /\ TruncateInv'
BY DEF CopyInv, WriteInv, RelationInv, TruncateInv

\* A replay from an earlier position accounts for the same table.
LEMMA ReplayAccounts ==
  ASSUME BigQueryInv, worker.copied, NEW c \in Positions, c <= Done
  PROVE  /\ Accounted(c, worker.reach, tables[meta.table].rows)
         /\ Truncates(Done + 1, worker.reach) => Truncates(c + 1, worker.reach)
<1>1. CopiedInv /\ RowsInv /\ meta \in Metadata
  BY InvFacts DEF BigQueryInv
<1>2. Accounted(Done, worker.reach, tables[meta.table].rows) /\ meta.table \in Sequences
  BY <1>1, MetadataFacts DEF CopiedInv
<1>3. Done \in Positions /\ worker.reach \in Positions
  BY DoneFacts, InvFacts, WorkerFacts
<1>4. tables[meta.table].rows \subseteq RowPositions
  BY <1>1, <1>2 DEF RowsInv
<1>5. Accounted(c, worker.reach, tables[meta.table].rows)
  BY <1>2, <1>3, <1>4, AccountedBack
<1>6. Truncates(Done + 1, worker.reach) => Truncates(c + 1, worker.reach)
  BY <1>3, SourceFacts DEF Truncates
<1> QED
  BY <1>5, <1>6

LEMMA EventsEnd == ASSUME BigQueryInv, NEW x \in Sides, EventsWritten(x) PROVE BigQueryInv'
<1>1. /\ TypeOK /\ SoleTask /\ PositionInv /\ CopyInv /\ WriteInv /\ RelationInv /\ TruncateInv
      /\ ResetInv /\ CopiedInv /\ CacheInv /\ RowsInv /\ CleanupInv
  BY DEF BigQueryInv
<1>2. /\ run[x].kind = "events" /\ run[x].pc = "next" /\ run[x].at > run[x].to
      /\ meta' = meta /\ tables' = tables /\ view' = view /\ created_views' = created_views
      /\ lock' = lock /\ cleanups' = cleanups /\ faults' = faults
      /\ run' = [run EXCEPT ![x] = NotRunning]
  BY DEF EventsWritten, Ended
<1>3. /\ Task = run[x] /\ Task.pc = "next" /\ Task.kind = "events" /\ worker.copied
      /\ worker.phase = IF x = "old" THEN "failed" ELSE "stream"
  BY <1>1, <1>2, StepFacts, TaskOf
<1>4. worker \in WorkerRecord /\ Task.at \in Nat /\ Task.to \in Nat /\ Task.to \in Positions
  BY InvFacts, TaskNumbers
<1>5. /\ worker.checkpoint \in Nat /\ worker.acked \in Nat /\ worker.sent \in Nat /\ worker.reach \in Nat
      /\ worker.checkpoint \in Positions
  BY <1>4, WorkerFacts
<1>6. /\ Task.at = Task.to + 1 /\ worker.checkpoint < Task.at /\ Task.to <= worker.reach
      /\ worker.phase = "stream" => Task.to = worker.sent
  BY <1>1, <1>2, <1>3, <1>4 DEF PositionInv
<1>7. Done = Task.to
  BY <1>3, <1>4, <1>6 DEF Done
<1>8. /\ worker' \in WorkerRecord /\ worker'.phase = worker.phase /\ worker'.sent = worker.sent
      /\ worker'.checkpoint = worker.checkpoint /\ worker'.reach = worker.reach
      /\ worker'.copied = worker.copied /\ worker'.listed = worker.listed
      /\ worker'.acked = IF worker.phase = "stream" THEN Task.to ELSE worker.acked
  <2>1. CASE x = "cur"
    <3>1. worker' = [worker EXCEPT !.acked = Task.to] /\ worker.phase = "stream"
      BY <1>3, <2>1 DEF EventsWritten
    <3> QED
      BY <1>4, <3>1 DEF WorkerRecord
  <2>2. CASE x = "old"
    BY <1>3, <1>4, <2>2 DEF EventsWritten
  <2> QED
    BY <2>1, <2>2 DEF Sides
<1>9. /\ Task'.pc = "none" /\ Task'.kind = "none" /\ SoleTask' /\ run' \in [Sides -> TaskRecord]
  <2>1. worker'.phase # "copying"
    BY <1>3, <1>8
  <2> QED
    BY <1>1, <1>2, <2>1, TaskCleared
<1>10. TypeOK'
  BY <1>1, <1>2, <1>8, <1>9 DEF TypeOK, TaskRecord, WorkerRecord, Sides
<1>11. PositionInv'
  BY <1>1, <1>3, <1>4, <1>5, <1>6, <1>8, <1>9 DEF PositionInv
<1>12. CopyInv' /\ WriteInv' /\ RelationInv' /\ TruncateInv'
  BY <1>9, NoTaskInv
<1>13. ResetInv'
  BY <1>1, <1>2, <1>8 DEF ResetInv, Blank
<1>14. PICK c \in Positions : c = Done' /\ c <= Done
  BY <1>4, <1>5, <1>6, <1>7, <1>8, <1>9 DEF Done
<1>15. CopiedInv'
  BY <1>1, <1>2, <1>3, <1>8, <1>14, ReplayAccounts DEF CopiedInv, Exists
<1>16. CacheInv' /\ RowsInv' /\ CleanupInv'
  BY <1>1, <1>2, <1>3, <1>8 DEF CacheInv, RowsInv, Exists, CleanupInv
<1> QED
  BY <1>9, <1>10, <1>11, <1>12, <1>13, <1>15, <1>16 DEF BigQueryInv

LEMMA CleanedUp == ASSUME BigQueryInv, NEW n \in Sequences, CleanUp(n) PROVE BigQueryInv'
<1>1. /\ TypeOK /\ SoleTask /\ PositionInv /\ CopyInv /\ WriteInv /\ RelationInv /\ TruncateInv
      /\ ResetInv /\ CopiedInv /\ CacheInv /\ RowsInv /\ CleanupInv
  BY DEF BigQueryInv
<1>2. /\ n \in cleanups /\ cleanups' = cleanups \ {n} /\ meta' = meta /\ view' = view
      /\ created_views' = created_views /\ lock' = lock /\ run' = run /\ worker' = worker
      /\ tables' = [tables EXCEPT ![n] = Missing] \/ tables' = tables
      /\ faults' = faults \/ (faults < MaxFaults /\ faults' = faults + 1)
  BY DEF CleanUp
<1>3. Task' = Task /\ Done' = Done
  BY <1>2 DEF Task, Done
<1>4. /\ meta # NoMetadata /\ Task.kind # "copy" /\ n < meta.table
      /\ worker.phase \notin {"copy", "drop_view", "drop_tables", "clear_cache", "prepare"}
  BY <1>1, <1>2 DEF ResetInv, CopyInv, CleanupInv
<1>5. /\ meta.table \in Sequences /\ tables \in [Sequences -> TableRecord] /\ Task.base \in Metadata
      /\ n # meta.table
  BY <1>4, InvFacts, TaskNumbers, MetadataFacts, SourceFacts
<1>6. Missing \in TableRecord /\ Missing.rows = {}
  BY DEF Missing, TableRecord
<1>7. /\ tables' \in [Sequences -> TableRecord] /\ tables'[n] \in {Missing, tables[n]}
      /\ \A m \in Sequences : m # n => tables'[m] = tables[m]
  BY <1>2, <1>5, <1>6
<1>8. tables'[meta.table] = tables[meta.table]
  BY <1>5, <1>7
<1>9. ASSUME Task.pc \in {"new_table", "new_view", "new_metadata"}
      PROVE  tables'[Task.base.table] = tables[Task.base.table]
  <2>1. meta.table < Task.base.table /\ Task.base.state = "applied"
    BY <1>1, <1>9 DEF TruncateInv
  <2>2. Task.base.table \in Sequences /\ Task.base.table # n
    BY <1>4, <1>5, <2>1, MetadataFacts, SourceFacts
  <2> QED
    BY <1>7, <2>2
<1>10. TypeOK'
  BY <1>1, <1>2, <1>7, BigQueryAssumption DEF TypeOK, TableRecord
<1>11. SoleTask'
  BY <1>1, <1>2 DEF SoleTask
<1>12. PositionInv'
  BY <1>1, <1>2, <1>3 DEF PositionInv
<1>13. CopyInv' /\ WriteInv'
  BY <1>1, <1>2, <1>3, <1>4 DEF CopyInv, WriteInv, TaskSnapshot
<1>14. RelationInv' /\ TruncateInv'
  BY <1>1, <1>2, <1>3, <1>8, <1>9 DEF RelationInv, TruncateInv, Fresh
<1>15. ResetInv'
  BY <1>2, <1>4 DEF ResetInv
<1>16. CopiedInv'
  BY <1>1, <1>2, <1>3, <1>8 DEF CopiedInv, Exists
<1>17. RowsInv'
  BY <1>1, <1>6, <1>7 DEF RowsInv, Exists
<1>18. CacheInv' /\ CleanupInv'
  BY <1>1, <1>2, <1>3 DEF CacheInv, CleanupInv
<1> QED
  BY <1>10, <1>11, <1>12, <1>13, <1>14, <1>15, <1>16, <1>17, <1>18 DEF BigQueryInv
--------------------------------------------------------------------------------
(* The worker: a task starts.                                               *)

LEMMA TaskStarts ==
  ASSUME TypeOK, SoleTask, run["cur"].pc = "none", run["old"].pc = "none",
         NEW k \in {"copy", "events"}, NEW a \in 0 .. Len(Source) + 1, NEW t \in Positions,
         run' = [run EXCEPT !["cur"] = [NotRunning EXCEPT !.pc = "next", !.kind = k,
                                          !.at = a, !.to = t]],
         worker'.phase = IF k = "copy" THEN "copying" ELSE "stream"
  PROVE  /\ Task'.pc = "next" /\ Task'.kind = k /\ Task'.at = a /\ Task'.to = t
         /\ SoleTask' /\ run' \in [Sides -> TaskRecord]
<1>1. run \in [Sides -> TaskRecord]
  BY DEF TypeOK, TaskRecord, Sides
<1>2. PICK r : r = [NotRunning EXCEPT !.pc = "next", !.kind = k, !.at = a, !.to = t]
  OBVIOUS
<1>3. NotRunning \in TaskRecord /\ NotRunning.pc = "none"
  BY SourceFacts DEF NotRunning, TaskRecord, Metadata
<1>4. r \in TaskRecord /\ r.pc = "next" /\ r.kind = k /\ r.at = a /\ r.to = t
  BY <1>2, <1>3 DEF TaskRecord
<1>5. run' = [run EXCEPT !["cur"] = r]
  BY <1>2
<1>6. run' \in [Sides -> TaskRecord] /\ run'["cur"] = r /\ run'["old"] = run["old"]
  BY <1>1, <1>4, <1>5 DEF Sides
<1>7. run["old"] = NotRunning
  BY DEF SoleTask
<1>8. Task' = r
  BY <1>3, <1>6, <1>7 DEF Task
<1>9. SoleTask'
  BY <1>3, <1>4, <1>6, <1>7 DEF SoleTask
<1> QED
  BY <1>4, <1>6, <1>8, <1>9

\* Without a task there is none to wait for.
LEMMA Idle ==
  ASSUME TypeOK, SoleTask, run["cur"].pc = "none", run["old"].pc = "none"
  PROVE  Task = NotRunning /\ Task.pc = "none" /\ Task.kind = "none"
BY DEF SoleTask, Task, NotRunning

LEMMA NoOldTask ==
  ASSUME SoleTask, worker.phase # "failed"
  PROVE  run["old"].pc = "none"
BY DEF SoleTask

LEMMA CopyStarts == ASSUME BigQueryInv, StartCopy PROVE BigQueryInv'
<1>1. /\ TypeOK /\ SoleTask /\ PositionInv /\ ResetInv /\ CopiedInv /\ CacheInv /\ RowsInv /\ CleanupInv
  BY DEF BigQueryInv
<1>2. /\ worker.phase = "copy" /\ run["cur"].pc = "none" /\ meta' = meta /\ tables' = tables
      /\ view' = view /\ created_views' = created_views /\ lock' = lock /\ cleanups' = cleanups
      /\ faults' = faults /\ worker' = [worker EXCEPT !.phase = "copying"]
  BY DEF StartCopy
<1>3. PICK s \in worker.reach .. Len(Source) :
        run' = [run EXCEPT !["cur"] = [NotRunning EXCEPT !.pc = "next", !.kind = "copy",
                                         !.at = s, !.to = s]]
  BY DEF StartCopy
<1>4. worker \in WorkerRecord /\ worker.reach \in Nat
  BY InvFacts, WorkerFacts
<1>5. s \in Positions /\ s \in 0 .. Len(Source) + 1 /\ worker.reach <= s
  BY <1>3, <1>4, SourceFacts
<1>6. /\ worker' \in WorkerRecord /\ worker'.phase = "copying" /\ worker'.sent = worker.sent
      /\ worker'.acked = worker.acked /\ worker'.checkpoint = worker.checkpoint
      /\ worker'.reach = worker.reach /\ worker'.copied = worker.copied
  BY <1>2, <1>4 DEF WorkerRecord
<1>7. /\ Task'.pc = "next" /\ Task'.kind = "copy" /\ Task'.at = s /\ Task'.to = s
      /\ SoleTask' /\ run' \in [Sides -> TaskRecord]
  BY <1>1, <1>2, <1>3, <1>5, <1>6, TaskStarts, NoOldTask
<1>8. ~worker.copied /\ meta = NoMetadata /\ cleanups = {} /\ created_views = None
  BY <1>1, <1>2 DEF PositionInv, ResetInv
<1>9. TypeOK'
  BY <1>1, <1>2, <1>6, <1>7 DEF TypeOK, TaskRecord, WorkerRecord, Sides
<1>10. PositionInv'
  BY <1>1, <1>5, <1>6, <1>7, <1>8 DEF PositionInv
<1>11. CopyInv' /\ WriteInv' /\ RelationInv' /\ TruncateInv'
  BY <1>2, <1>7, <1>8 DEF CopyInv, WriteInv, RelationInv, TruncateInv
<1>12. ResetInv'
  BY <1>1, <1>2, <1>6 DEF ResetInv, Blank
<1>13. CopiedInv'
  BY <1>6, <1>8 DEF CopiedInv
<1>14. CacheInv' /\ RowsInv' /\ CleanupInv'
  BY <1>1, <1>2, <1>8 DEF CacheInv, RowsInv, Exists, CleanupInv
<1> QED
  BY <1>7, <1>9, <1>10, <1>11, <1>12, <1>13, <1>14 DEF BigQueryInv

LEMMA CopyEnds == ASSUME BigQueryInv, CopyDone PROVE BigQueryInv'
<1>1. /\ TypeOK /\ SoleTask /\ PositionInv /\ CopyInv /\ ResetInv /\ CacheInv /\ RowsInv /\ CleanupInv
  BY DEF BigQueryInv
<1>2. /\ worker.phase = "copying" /\ run["cur"].pc = "next" /\ run["cur"].at > run["cur"].to
      /\ meta' = meta /\ tables' = tables /\ view' = view /\ created_views' = created_views
      /\ lock' = lock /\ cleanups' = cleanups /\ faults' = faults
      /\ run' = [run EXCEPT !["cur"] = NotRunning]
  BY DEF CopyDone, Ended
<1>3. Task = run["cur"] /\ Task.kind = "copy" /\ Task.pc = "next"
  BY <1>1, <1>2, TaskOf DEF Sides
<1>4. worker \in WorkerRecord /\ Task.at \in Nat /\ Task.to \in Nat /\ Task.to \in Positions
  BY InvFacts, TaskNumbers
<1>5. worker' = [worker EXCEPT !.phase = "stream", !.sent = Task.to, !.acked = Task.to,
                               !.checkpoint = Task.to, !.reach = Task.to, !.copied = TRUE]
  BY <1>3 DEF CopyDone
<1>6. /\ worker' \in WorkerRecord /\ worker'.phase = "stream" /\ worker'.sent = Task.to
      /\ worker'.acked = Task.to /\ worker'.checkpoint = Task.to /\ worker'.reach = Task.to
      /\ worker'.copied
  BY <1>4, <1>5 DEF WorkerRecord
<1>7. Task.at # Task.to
  BY <1>2, <1>3, <1>4
<1>8. /\ meta.state = "applied" /\ view = meta.table /\ tables[meta.table].shape = meta.snapshot
      /\ tables[meta.table].rows = RowsAt(Task.to)
  BY <1>1, <1>3, <1>7 DEF CopyInv, TableIs
<1>9. meta # NoMetadata /\ meta.snapshot # None
  BY <1>8, InvFacts, MetadataFacts, SourceFacts DEF None
<1>10. /\ Task'.pc = "none" /\ Task'.kind = "none" /\ SoleTask' /\ run' \in [Sides -> TaskRecord]
  BY <1>1, <1>2, <1>6, TaskCleared DEF Sides
<1>11. TypeOK'
  BY <1>1, <1>2, <1>6, <1>10 DEF TypeOK, TaskRecord, WorkerRecord, Sides
<1>12. PositionInv'
  BY <1>4, <1>6, <1>10 DEF PositionInv
<1>13. CopyInv' /\ WriteInv' /\ RelationInv' /\ TruncateInv'
  BY <1>10, NoTaskInv
<1>14. ResetInv'
  BY <1>2, <1>6, <1>9 DEF ResetInv
<1>15. Done' = Task.to
  BY <1>6, <1>10 DEF Done
<1>16. CopiedInv'
  BY <1>2, <1>4, <1>6, <1>8, <1>9, <1>15, AccountedCopy DEF CopiedInv, Exists
<1>17. CacheInv' /\ RowsInv' /\ CleanupInv'
  BY <1>1, <1>2, <1>3 DEF CacheInv, RowsInv, Exists, CleanupInv
<1> QED
  BY <1>10, <1>11, <1>12, <1>13, <1>14, <1>16, <1>17 DEF BigQueryInv

LEMMA EventsStart == ASSUME BigQueryInv, write_events PROVE BigQueryInv'
<1>1. /\ TypeOK /\ SoleTask /\ PositionInv /\ ResetInv /\ CopiedInv /\ CacheInv /\ RowsInv /\ CleanupInv
  BY DEF BigQueryInv
<1>2. /\ worker.phase = "stream" /\ run["cur"].pc = "none" /\ meta' = meta /\ tables' = tables
      /\ view' = view /\ created_views' = created_views /\ lock' = lock /\ cleanups' = cleanups
      /\ faults' = faults
  BY DEF write_events
<1>3. PICK to \in worker.sent + 1 .. Len(Source) :
        /\ run' = [run EXCEPT !["cur"] = [NotRunning EXCEPT !.pc = "next", !.kind = "events",
                                            !.at = worker.sent + 1, !.to = to]]
        /\ worker' = [worker EXCEPT !.sent = to, !.reach = Max({worker.reach, to})]
  BY DEF write_events
<1>4. /\ worker \in WorkerRecord /\ worker.reach \in Nat /\ worker.sent \in Nat /\ worker.acked \in Nat
      /\ worker.checkpoint \in Nat /\ worker.reach \in Positions
  BY InvFacts, WorkerFacts
<1>5. /\ to \in Positions /\ worker.sent + 1 \in 0 .. Len(Source) + 1 /\ worker.sent + 1 <= to
      /\ to \in Nat
  BY <1>3, <1>4, SourceFacts
<1>6. PICK r \in Positions : r = Max({worker.reach, to}) /\ r >= worker.reach /\ r >= to /\ r \in Nat
  <2>1. Max({worker.reach, to}) \in {worker.reach, to} /\ Max({worker.reach, to}) >= worker.reach
        /\ Max({worker.reach, to}) >= to
    <3>1. worker.reach \in Int /\ to \in Int
      BY <1>4, <1>5
    <3> QED
      BY <3>1, MaxOfTwo
  <2>2. Max({worker.reach, to}) \in Positions
    BY <1>4, <1>5, <2>1
  <2> QED
    BY <2>1, <2>2, SourceFacts
<1>7. PICK a \in 0 .. Len(Source) + 1 : a = worker.sent + 1
  BY <1>5
<1>8. worker' = [worker EXCEPT !.sent = to, !.reach = r]
  BY <1>3, <1>6
<1>9. /\ worker' \in WorkerRecord /\ worker'.phase = "stream" /\ worker'.sent = to
      /\ worker'.acked = worker.acked /\ worker'.checkpoint = worker.checkpoint
      /\ worker'.reach = r /\ worker'.copied = worker.copied
  BY <1>2, <1>4, <1>5, <1>6, <1>8 DEF WorkerRecord
<1>10. run["old"].pc = "none"
  BY <1>1, <1>2, NoOldTask
<1>11. /\ Task'.pc = "next" /\ Task'.kind = "events" /\ Task'.at = a /\ Task'.to = to
       /\ SoleTask' /\ run' \in [Sides -> TaskRecord]
  <2>1. run' = [run EXCEPT !["cur"] = [NotRunning EXCEPT !.pc = "next", !.kind = "events",
                                         !.at = a, !.to = to]]
    BY <1>3, <1>7
  <2> QED
    BY <1>1, <1>2, <1>5, <1>9, <1>10, <2>1, TaskStarts
<1>12. Task.pc = "none" /\ Task.kind = "none"
  BY <1>1, <1>2, <1>10, Idle
<1>13. worker.acked = worker.sent /\ worker.copied /\ Done = worker.acked
  BY <1>1, <1>2, <1>12 DEF PositionInv, Done
<1>14. TypeOK'
  BY <1>1, <1>2, <1>9, <1>11 DEF TypeOK, TaskRecord, WorkerRecord, Sides
<1>15. PositionInv'
  BY <1>1, <1>4, <1>5, <1>6, <1>7, <1>9, <1>11, <1>13 DEF PositionInv
<1>16. CopyInv' /\ WriteInv' /\ RelationInv' /\ TruncateInv'
  BY <1>11 DEF CopyInv, WriteInv, RelationInv, TruncateInv
<1>17. ResetInv'
  BY <1>1, <1>2, <1>9 DEF ResetInv, Blank
<1>18. Done' = Done
  BY <1>4, <1>7, <1>11, <1>13 DEF Done
<1>19. Accounted(Done, r, tables[meta.table].rows)
  BY <1>1, <1>4, <1>6, <1>13, DoneFacts, AccountedFurther DEF CopiedInv
<1>20. Truncates(Done + 1, worker.reach) => Truncates(Done + 1, r)
  BY <1>4, <1>6, <1>13 DEF Truncates
<1>21. CopiedInv'
  BY <1>1, <1>2, <1>9, <1>13, <1>18, <1>19, <1>20 DEF CopiedInv, Exists
<1>22. CacheInv' /\ RowsInv' /\ CleanupInv'
  BY <1>1, <1>2, <1>12, <1>13 DEF CacheInv, RowsInv, Exists, CleanupInv
<1> QED
  BY <1>11, <1>14, <1>15, <1>16, <1>17, <1>21, <1>22 DEF BigQueryInv
--------------------------------------------------------------------------------
(* The worker: it goes on, fails and starts again.                          *)

LEMMA CheckpointPersisted == ASSUME BigQueryInv, PersistCheckpoint PROVE BigQueryInv'
<1>1. /\ TypeOK /\ SoleTask /\ PositionInv /\ CopyInv /\ WriteInv /\ RelationInv /\ TruncateInv
      /\ ResetInv /\ CopiedInv /\ CacheInv /\ RowsInv /\ CleanupInv
  BY DEF BigQueryInv
<1>2. /\ worker.phase = "stream" /\ meta' = meta /\ tables' = tables /\ view' = view
      /\ created_views' = created_views /\ lock' = lock /\ run' = run /\ cleanups' = cleanups
      /\ faults' = faults /\ worker' = [worker EXCEPT !.checkpoint = worker.acked]
  BY DEF PersistCheckpoint
<1>3. worker \in WorkerRecord /\ worker.acked \in Positions /\ worker.acked \in Nat
  BY InvFacts, WorkerFacts
<1>4. /\ worker' \in WorkerRecord /\ worker'.phase = "stream" /\ worker'.sent = worker.sent
      /\ worker'.acked = worker.acked /\ worker'.checkpoint = worker.acked
      /\ worker'.reach = worker.reach /\ worker'.copied = worker.copied
  BY <1>2, <1>3 DEF WorkerRecord
<1>5. Task' = Task
  BY <1>2 DEF Task
<1>6. Done' = Done
  BY <1>2, <1>4, <1>5 DEF Done
<1>7. TypeOK'
  BY <1>1, <1>2, <1>4 DEF TypeOK, WorkerRecord
<1>8. SoleTask'
  BY <1>1, <1>2, <1>4 DEF SoleTask
<1>9. PositionInv'
  BY <1>1, <1>2, <1>3, <1>4, <1>5 DEF PositionInv
<1>10. CopyInv' /\ WriteInv' /\ RelationInv' /\ TruncateInv'
  BY <1>1, <1>2, <1>5
     DEF CopyInv, WriteInv, RelationInv, TruncateInv, TaskSnapshot, TableIs, Blank, Fresh
<1>11. ResetInv'
  BY <1>1, <1>2, <1>4 DEF ResetInv, Blank
<1>12. CopiedInv'
  BY <1>1, <1>2, <1>4, <1>6 DEF CopiedInv, Exists
<1>13. CacheInv' /\ RowsInv' /\ CleanupInv'
  BY <1>1, <1>2, <1>4, <1>5 DEF CacheInv, RowsInv, Exists, CleanupInv
<1> QED
  BY <1>7, <1>8, <1>9, <1>10, <1>11, <1>12, <1>13 DEF BigQueryInv

LEMMA WorkerFailed == ASSUME BigQueryInv, WorkerFails PROVE BigQueryInv'
<1>1. /\ TypeOK /\ SoleTask /\ PositionInv /\ CopyInv /\ WriteInv /\ RelationInv /\ TruncateInv
      /\ ResetInv /\ CopiedInv /\ CacheInv /\ RowsInv /\ CleanupInv
  BY DEF BigQueryInv
<1>2. /\ worker.phase = "stream" /\ meta' = meta /\ tables' = tables /\ view' = view
      /\ created_views' = created_views /\ cleanups' = cleanups /\ faults < MaxFaults
      /\ faults' = faults + 1 /\ worker' = [worker EXCEPT !.phase = "failed"]
  BY DEF WorkerFails
<1>3. worker \in WorkerRecord /\ worker.checkpoint \in Positions
  BY InvFacts, WorkerFacts
<1>4. /\ worker' \in WorkerRecord /\ worker'.phase = "failed" /\ worker'.sent = worker.sent
      /\ worker'.acked = worker.acked /\ worker'.checkpoint = worker.checkpoint
      /\ worker'.reach = worker.reach /\ worker'.copied = worker.copied
  BY <1>2, <1>3 DEF WorkerRecord
<1>5. worker.copied /\ run["old"].pc = "none"
  BY <1>1, <1>2, NoOldTask DEF PositionInv
<1>6. faults' \in 0 .. MaxFaults
  BY <1>1, <1>2, BigQueryAssumption DEF TypeOK
<1>7. /\ Task' = Task /\ SoleTask' /\ run' \in [Sides -> TaskRecord]
      /\ lock' \in {"free", "cur", "old"}
  <2>1. run \in [Sides -> TaskRecord] /\ lock \in {"free", "cur", "old"}
    BY <1>1 DEF TypeOK, TaskRecord, Sides
  <2>2. NotRunning \in TaskRecord /\ NotRunning.pc = "none" /\ NotRunning.kind = "none"
    BY SourceFacts DEF NotRunning, TaskRecord, Metadata
  <2>3. CASE run["cur"].pc = "none"
    <3>1. run' = run /\ lock' = lock
      BY <2>3 DEF WorkerFails
    <3>2. run["cur"] = NotRunning /\ run["old"] = NotRunning
      BY <1>1, <1>5, <2>3 DEF SoleTask
    <3>3. SoleTask'
      BY <1>4, <2>2, <3>1, <3>2 DEF SoleTask
    <3> QED
      BY <2>1, <3>1, <3>3 DEF Task
  <2>4. CASE run["cur"].pc # "none"
    <3>1. run' = [run EXCEPT !["old"] = run["cur"], !["cur"] = NotRunning]
          /\ lock' = IF lock = "cur" THEN "old" ELSE lock
      BY <2>4 DEF WorkerFails
    <3>2. run' \in [Sides -> TaskRecord] /\ run'["old"] = run["cur"] /\ run'["cur"] = NotRunning
      BY <2>1, <2>2, <3>1 DEF Sides
    <3>3. Task = run["cur"] /\ Task.kind = "events"
      BY <1>1, <1>2, <2>4, TaskOf DEF Sides
    <3>4. Task' = run["cur"]
      BY <2>4, <3>2 DEF Task
    <3>5. SoleTask'
      BY <1>4, <2>2, <2>4, <3>2, <3>3 DEF SoleTask
    <3> QED
      BY <2>1, <3>1, <3>2, <3>3, <3>4, <3>5
  <2> QED
    BY <2>3, <2>4
<1>8. TypeOK'
  BY <1>1, <1>2, <1>4, <1>6, <1>7 DEF TypeOK, TaskRecord, WorkerRecord, Sides
<1>9. PositionInv'
  BY <1>1, <1>2, <1>4, <1>5, <1>7 DEF PositionInv
<1>10. CopyInv' /\ WriteInv' /\ RelationInv' /\ TruncateInv'
  BY <1>1, <1>2, <1>7
     DEF CopyInv, WriteInv, RelationInv, TruncateInv, TaskSnapshot, TableIs, Blank, Fresh
<1>11. ResetInv'
  BY <1>1, <1>2, <1>4 DEF ResetInv, Blank
<1>12. PICK c \in Positions : c = Done' /\ c <= Done
  <2>1. Done \in Positions /\ worker.checkpoint <= Done
    BY <1>5, DoneFacts
  <2>2. Done' = Done \/ Done' = worker.checkpoint
    BY <1>4, <1>7 DEF Done
  <2>3. Done <= Done
    BY <2>1, SourceFacts
  <2> QED
    BY <1>3, <2>1, <2>2, <2>3
<1>13. CopiedInv'
  BY <1>1, <1>2, <1>4, <1>5, <1>12, ReplayAccounts DEF CopiedInv, Exists
<1>14. CacheInv' /\ RowsInv' /\ CleanupInv'
  BY <1>1, <1>2, <1>4, <1>5, <1>7 DEF CacheInv, RowsInv, Exists, CleanupInv
<1> QED
  BY <1>7, <1>8, <1>9, <1>10, <1>11, <1>13, <1>14 DEF BigQueryInv

LEMMA StreamRetried ==
  ASSUME BigQueryInv, OverlappingRetries = {}, RetryStream PROVE BigQueryInv'
<1>1. /\ TypeOK /\ SoleTask /\ PositionInv /\ ResetInv /\ CopiedInv /\ CacheInv /\ RowsInv /\ CleanupInv
  BY DEF BigQueryInv
<1>2. /\ worker.phase = "failed" /\ worker.copied /\ run["old"].pc = "none" /\ meta' = meta
      /\ tables' = tables /\ view' = view /\ created_views' = created_views /\ lock' = lock
      /\ run' = run /\ cleanups' = cleanups /\ faults' = faults
      /\ worker' = [worker EXCEPT !.phase = "stream", !.sent = worker.checkpoint,
                                  !.acked = worker.checkpoint]
  BY DEF RetryStream
<1>3. worker \in WorkerRecord /\ worker.checkpoint \in Positions /\ worker.checkpoint \in Nat
      /\ worker.acked \in Nat /\ worker.sent \in Nat /\ worker.reach \in Nat
  BY InvFacts, WorkerFacts
<1>4. /\ worker' \in WorkerRecord /\ worker'.phase = "stream" /\ worker'.sent = worker.checkpoint
      /\ worker'.acked = worker.checkpoint /\ worker'.checkpoint = worker.checkpoint
      /\ worker'.reach = worker.reach /\ worker'.copied
  BY <1>2, <1>3 DEF WorkerRecord
<1>5. run["cur"].pc = "none" /\ run["cur"] = NotRunning /\ run["old"] = NotRunning
  BY <1>1, <1>2 DEF SoleTask
<1>6. Task.pc = "none" /\ Task.kind = "none" /\ Task' = Task
  BY <1>1, <1>2, <1>5, Idle DEF Task
<1>7. Done = worker.checkpoint /\ Done' = worker.checkpoint
  BY <1>2, <1>4, <1>6 DEF Done
<1>8. TypeOK'
  BY <1>1, <1>2, <1>4 DEF TypeOK, WorkerRecord
<1>9. SoleTask'
  BY <1>2, <1>4, <1>5 DEF SoleTask, NotRunning
<1>10. PositionInv'
  BY <1>1, <1>3, <1>4, <1>6 DEF PositionInv
<1>11. CopyInv' /\ WriteInv' /\ RelationInv' /\ TruncateInv'
  BY <1>6, NoTaskInv
<1>12. ResetInv'
  BY <1>1, <1>2, <1>4 DEF ResetInv, Blank
<1>13. CopiedInv'
  BY <1>1, <1>2, <1>4, <1>7 DEF CopiedInv, Exists
<1>14. CacheInv' /\ RowsInv' /\ CleanupInv'
  BY <1>1, <1>2, <1>6 DEF CacheInv, RowsInv, Exists, CleanupInv
<1> QED
  BY <1>8, <1>9, <1>10, <1>11, <1>12, <1>13, <1>14 DEF BigQueryInv

\* While the table is being reset no task runs and nothing counts as copied.
LEMMA ResetStep ==
  ASSUME BigQueryInv, run' = run, run["cur"].pc = "none", run["old"].pc = "none",
         worker' \in WorkerRecord, worker'.phase \notin {"copying", "stream"},
         ~worker'.copied, worker'.checkpoint = worker.checkpoint,
         worker'.acked = worker.acked, worker'.sent = worker.sent, worker'.reach = worker.reach,
         meta' \in Metadata, tables' \in [Sequences -> TableRecord],
         view' \in Sequences \cup {None}, created_views' \in Sequences \cup {None},
         lock' = lock, cleanups' = cleanups, faults' \in 0 .. MaxFaults,
         ResetInv', RowsInv', CleanupInv'
  PROVE  BigQueryInv'
<1>1. TypeOK /\ SoleTask /\ PositionInv
  BY DEF BigQueryInv
<1>2. run["cur"] = NotRunning /\ run["old"] = NotRunning
  BY <1>1 DEF SoleTask
<1>3. Task.pc = "none" /\ Task.kind = "none" /\ Task' = Task
  BY <1>1, Idle DEF Task
<1>4. TypeOK'
  BY <1>1 DEF TypeOK, TableRecord, WorkerRecord
<1>5. SoleTask'
  BY <1>2 DEF SoleTask, NotRunning
<1>6. PositionInv'
  BY <1>1, <1>3 DEF PositionInv
<1>7. CopyInv' /\ WriteInv' /\ RelationInv' /\ TruncateInv'
  BY <1>3, NoTaskInv
<1>8. CopiedInv' /\ (worker'.phase # "copy" => CacheInv')
  BY DEF CopiedInv, CacheInv
<1>9. worker'.phase = "copy" => CacheInv'
  BY DEF ResetInv, CacheInv
<1> QED
  BY <1>4, <1>5, <1>6, <1>7, <1>8, <1>9 DEF BigQueryInv

LEMMA ResetFacts ==
  ASSUME BigQueryInv,
         worker.phase \in {"drop_view", "drop_tables", "clear_cache", "prepare", "copy"}
  PROVE  /\ run["cur"].pc = "none" /\ run["old"].pc = "none" /\ ~worker.copied
         /\ worker.phase # "copy" => cleanups = {}
BY NoOldTask DEF BigQueryInv, SoleTask, PositionInv, ResetInv

LEMMA CopyRetried ==
  ASSUME BigQueryInv, OverlappingRetries = {}, RetryCopy PROVE BigQueryInv'
<1>1. TypeOK /\ SoleTask /\ ResetInv /\ RowsInv /\ CleanupInv
  BY DEF BigQueryInv
<1>2. /\ worker.phase = "failed" /\ worker.attempt < MaxAttempts /\ run["old"].pc = "none"
      /\ cleanups = {} /\ meta' = meta
      /\ tables' = tables /\ view' = view /\ created_views' = created_views /\ lock' = lock
      /\ run' = run /\ cleanups' = cleanups /\ faults' = faults
  BY DEF RetryCopy
<1>3. worker \in WorkerRecord /\ meta \in Metadata /\ tables \in [Sequences -> TableRecord]
  BY InvFacts
<1>4. PICK l : l = {n \in Sequences : Exists(n)} \cup ({meta.table} \ {None})
  OBVIOUS
<1>5. l \in SUBSET Sequences /\ \A n \in Sequences : n \in l \/ tables[n] = Missing
  <2>1. meta.table \in Sequences \cup {None}
    BY <1>3, MetadataFacts
  <2> QED
    BY <1>1, <1>4, <2>1 DEF RowsInv
<1>6. PICK p : p = IF meta = NoMetadata THEN "prepare" ELSE "drop_view"
  OBVIOUS
<1>7. PICK a \in 0 .. MaxAttempts : a = worker.attempt + 1
  BY <1>2, <1>3, BigQueryAssumption DEF WorkerRecord
<1>8. worker' = [worker EXCEPT !.phase = p, !.attempt = a, !.copied = FALSE, !.listed = l]
  BY <1>4, <1>6, <1>7 DEF RetryCopy
<1>9. /\ worker' \in WorkerRecord /\ worker'.phase = p /\ worker'.sent = worker.sent
      /\ worker'.acked = worker.acked /\ worker'.checkpoint = worker.checkpoint
      /\ worker'.reach = worker.reach /\ ~worker'.copied /\ worker'.listed = l
  BY <1>3, <1>5, <1>6, <1>8 DEF WorkerRecord
<1>10. run["cur"].pc = "none"
  BY <1>1, <1>2 DEF SoleTask
<1>11. ResetInv'
  BY <1>1, <1>2, <1>5, <1>6, <1>9 DEF ResetInv, Blank
<1>12. RowsInv' /\ CleanupInv'
  BY <1>1, <1>2 DEF RowsInv, Exists, CleanupInv
<1>13. /\ view' \in Sequences \cup {None} /\ created_views' \in Sequences \cup {None}
       /\ faults' \in 0 .. MaxFaults /\ worker'.phase \notin {"copying", "stream"}
  BY <1>1, <1>2, <1>6, <1>9 DEF TypeOK
<1> QED
  BY <1>2, <1>3, <1>9, <1>10, <1>11, <1>12, <1>13, ResetStep

LEMMA ViewDropped == ASSUME BigQueryInv, DropView PROVE BigQueryInv'
<1>1. TypeOK /\ ResetInv /\ RowsInv /\ CleanupInv
  BY DEF BigQueryInv
<1>2. /\ worker.phase = "drop_view" /\ view' = None /\ meta' = meta /\ tables' = tables
      /\ created_views' = created_views /\ lock' = lock /\ run' = run /\ cleanups' = cleanups
      /\ faults' = faults /\ worker' = [worker EXCEPT !.phase = "drop_tables"]
  BY DEF DropView
<1>3. worker \in WorkerRecord /\ meta \in Metadata /\ tables \in [Sequences -> TableRecord]
  BY InvFacts
<1>4. /\ worker' \in WorkerRecord /\ worker'.phase = "drop_tables" /\ worker'.sent = worker.sent
      /\ worker'.acked = worker.acked /\ worker'.checkpoint = worker.checkpoint
      /\ worker'.reach = worker.reach /\ worker'.copied = worker.copied
      /\ worker'.listed = worker.listed
  BY <1>2, <1>3 DEF WorkerRecord
<1>5. run["cur"].pc = "none" /\ run["old"].pc = "none" /\ ~worker.copied /\ cleanups = {}
  BY <1>2, ResetFacts
<1>6. ResetInv' /\ RowsInv' /\ CleanupInv'
  BY <1>1, <1>2, <1>4 DEF ResetInv, Blank, RowsInv, Exists, CleanupInv
<1>7. view' \in Sequences \cup {None} /\ created_views' \in Sequences \cup {None} /\ faults' \in 0 .. MaxFaults
  BY <1>1, <1>2 DEF TypeOK
<1> QED
  BY <1>2, <1>3, <1>4, <1>5, <1>6, <1>7, ResetStep

LEMMA TablesDropped == ASSUME BigQueryInv, DropTables PROVE BigQueryInv'
<1>1. TypeOK /\ ResetInv /\ RowsInv /\ CleanupInv
  BY DEF BigQueryInv
<1>2. /\ worker.phase = "drop_tables" /\ meta' = meta /\ view' = view
      /\ created_views' = created_views /\ lock' = lock /\ run' = run /\ cleanups' = cleanups
      /\ faults' = faults
  BY DEF DropTables
<1>3. worker \in WorkerRecord /\ meta \in Metadata /\ tables \in [Sequences -> TableRecord]
  BY InvFacts
<1>4. run["cur"].pc = "none" /\ run["old"].pc = "none" /\ ~worker.copied /\ cleanups = {}
  BY <1>2, ResetFacts
<1>5. view' \in Sequences \cup {None} /\ created_views' \in Sequences \cup {None} /\ faults' \in 0 .. MaxFaults
  BY <1>1, <1>2 DEF TypeOK
<1>6. \A m \in Sequences : m \in worker.listed \/ tables[m] = Missing
  BY <1>1, <1>2 DEF ResetInv
<1>7. CASE \E n \in worker.listed :
             /\ tables' = [tables EXCEPT ![n] = Missing]
             /\ worker' = [worker EXCEPT !.listed = worker.listed \ {n}]
  <2>1. PICK n \in worker.listed :
          /\ tables' = [tables EXCEPT ![n] = Missing]
          /\ worker' = [worker EXCEPT !.listed = worker.listed \ {n}]
    BY <1>7
  <2>2. PICK l : l = worker.listed \ {n}
    OBVIOUS
  <2>3. l \in SUBSET Sequences /\ n \in Sequences
    BY <1>3, <2>1, <2>2, WorkerFacts
  <2>4. worker' = [worker EXCEPT !.listed = l]
    BY <2>1, <2>2
  <2>5. /\ worker' \in WorkerRecord /\ worker'.phase = "drop_tables" /\ worker'.sent = worker.sent
        /\ worker'.acked = worker.acked /\ worker'.checkpoint = worker.checkpoint
        /\ worker'.reach = worker.reach /\ worker'.copied = worker.copied /\ worker'.listed = l
    BY <1>2, <1>3, <2>3, <2>4 DEF WorkerRecord
  <2>6. Missing \in TableRecord /\ Missing.rows = {}
    BY DEF Missing, TableRecord
  <2>7. /\ tables' \in [Sequences -> TableRecord] /\ tables'[n] = Missing
        /\ \A m \in Sequences : m # n => tables'[m] = tables[m]
    BY <1>3, <2>1, <2>3, <2>6
  <2>8. \A m \in Sequences : m \in l \/ tables'[m] = Missing
    BY <1>6, <2>2, <2>7
  <2>9. Blank => Blank'
    BY <2>7 DEF Blank
  <2>10. ResetInv'
    BY <1>1, <1>2, <2>5, <2>8, <2>9 DEF ResetInv
  <2>11. RowsInv' /\ CleanupInv'
    BY <1>1, <1>2, <2>6, <2>7 DEF RowsInv, Exists, CleanupInv
  <2> QED
    BY <1>2, <1>3, <1>4, <1>5, <2>5, <2>7, <2>10, <2>11, ResetStep
<1>8. CASE worker.listed = {} /\ worker' = [worker EXCEPT !.phase = "clear_cache"] /\ tables' = tables
  <2>1. /\ worker' \in WorkerRecord /\ worker'.phase = "clear_cache" /\ worker'.sent = worker.sent
        /\ worker'.acked = worker.acked /\ worker'.checkpoint = worker.checkpoint
        /\ worker'.reach = worker.reach /\ worker'.copied = worker.copied
    BY <1>3, <1>8 DEF WorkerRecord
  <2>2. Blank'
    BY <1>6, <1>8 DEF Blank
  <2>3. ResetInv' /\ RowsInv' /\ CleanupInv'
    BY <1>1, <1>2, <1>4, <1>8, <2>1, <2>2 DEF ResetInv, RowsInv, Exists, CleanupInv
  <2> QED
    BY <1>2, <1>3, <1>4, <1>5, <1>8, <2>1, <2>3, ResetStep
<1> QED
  BY <1>7, <1>8 DEF DropTables

LEMMA CacheCleared == ASSUME BigQueryInv, ClearViewCache PROVE BigQueryInv'
<1>1. TypeOK /\ ResetInv /\ RowsInv /\ CleanupInv
  BY DEF BigQueryInv
<1>2. /\ worker.phase = "clear_cache" /\ created_views' = None /\ meta' = meta /\ tables' = tables
      /\ view' = view /\ lock' = lock /\ run' = run /\ cleanups' = cleanups
      /\ faults' = faults /\ worker' = [worker EXCEPT !.phase = "prepare"]
  BY DEF ClearViewCache, clear_view_cache
<1>3. worker \in WorkerRecord /\ meta \in Metadata /\ tables \in [Sequences -> TableRecord]
  BY InvFacts
<1>4. /\ worker' \in WorkerRecord /\ worker'.phase = "prepare" /\ worker'.sent = worker.sent
      /\ worker'.acked = worker.acked /\ worker'.checkpoint = worker.checkpoint
      /\ worker'.reach = worker.reach /\ worker'.copied = worker.copied
  BY <1>2, <1>3 DEF WorkerRecord
<1>5. run["cur"].pc = "none" /\ run["old"].pc = "none" /\ ~worker.copied /\ cleanups = {}
  BY <1>2, ResetFacts
<1>6. ResetInv' /\ RowsInv' /\ CleanupInv'
  BY <1>1, <1>2, <1>4, <1>5 DEF ResetInv, Blank, RowsInv, Exists, CleanupInv
<1>7. view' \in Sequences \cup {None} /\ created_views' \in Sequences \cup {None} /\ faults' \in 0 .. MaxFaults
  BY <1>1, <1>2 DEF TypeOK
<1> QED
  BY <1>2, <1>3, <1>4, <1>5, <1>6, <1>7, ResetStep

LEMMA DropFailed == ASSUME BigQueryInv, DropFails PROVE BigQueryInv'
<1>1. TypeOK /\ ResetInv /\ RowsInv /\ CleanupInv
  BY DEF BigQueryInv
<1>2. /\ worker.phase \in {"drop_view", "drop_tables", "prepare"} /\ meta' = meta /\ tables' = tables
      /\ view' = view /\ created_views' = created_views /\ lock' = lock /\ run' = run
      /\ cleanups' = cleanups /\ faults < MaxFaults /\ faults' = faults + 1
      /\ worker' = [worker EXCEPT !.phase = "failed"]
  BY DEF DropFails
<1>3. worker \in WorkerRecord /\ meta \in Metadata /\ tables \in [Sequences -> TableRecord]
  BY InvFacts
<1>4. /\ worker' \in WorkerRecord /\ worker'.phase = "failed" /\ worker'.sent = worker.sent
      /\ worker'.acked = worker.acked /\ worker'.checkpoint = worker.checkpoint
      /\ worker'.reach = worker.reach /\ worker'.copied = worker.copied
  BY <1>2, <1>3 DEF WorkerRecord
<1>5. run["cur"].pc = "none" /\ run["old"].pc = "none" /\ ~worker.copied
  BY <1>2, ResetFacts
<1>6. ResetInv' /\ RowsInv' /\ CleanupInv'
  BY <1>1, <1>2, <1>4 DEF ResetInv, Blank, RowsInv, Exists, CleanupInv
<1>7. view' \in Sequences \cup {None} /\ created_views' \in Sequences \cup {None} /\ faults' \in 0 .. MaxFaults
  BY <1>1, <1>2, BigQueryAssumption DEF TypeOK
<1> QED
  BY <1>2, <1>3, <1>4, <1>5, <1>6, <1>7, ResetStep

LEMMA CopyPrepared == ASSUME BigQueryInv, PrepareForCopy PROVE BigQueryInv'
<1>1. TypeOK /\ ResetInv /\ RowsInv /\ CleanupInv
  BY DEF BigQueryInv
<1>2. /\ worker.phase = "prepare" /\ meta' = NoMetadata /\ tables' = tables
      /\ view' = view /\ created_views' = created_views /\ lock' = lock /\ run' = run
      /\ cleanups' = cleanups /\ faults' = faults
      /\ worker' = [worker EXCEPT !.phase = "copy"]
  BY DEF PrepareForCopy
<1>3. worker \in WorkerRecord /\ meta' \in Metadata /\ tables \in [Sequences -> TableRecord]
  BY <1>2, InvFacts DEF Metadata
<1>4. /\ worker' \in WorkerRecord /\ worker'.phase = "copy" /\ worker'.sent = worker.sent
      /\ worker'.acked = worker.acked /\ worker'.checkpoint = worker.checkpoint
      /\ worker'.reach = worker.reach /\ worker'.copied = worker.copied
  BY <1>2, <1>3 DEF WorkerRecord
<1>5. run["cur"].pc = "none" /\ run["old"].pc = "none" /\ ~worker.copied /\ cleanups = {}
  BY <1>2, ResetFacts
<1>6. ResetInv' /\ RowsInv' /\ CleanupInv'
  BY <1>1, <1>2, <1>4, <1>5 DEF ResetInv, Blank, RowsInv, Exists, CleanupInv
<1>7. view' \in Sequences \cup {None} /\ created_views' \in Sequences \cup {None} /\ faults' \in 0 .. MaxFaults
  BY <1>1, <1>2 DEF TypeOK
<1> QED
  BY <1>2, <1>3, <1>4, <1>5, <1>6, <1>7, ResetStep

LEMMA Crashed == ASSUME BigQueryInv, Crash PROVE BigQueryInv'
<1>1. TypeOK /\ PositionInv /\ ResetInv /\ CopiedInv /\ RowsInv
  BY DEF BigQueryInv
<1>2. /\ run' = [x \in {"cur", "old"} |-> NotRunning] /\ lock' = "free" /\ created_views' = None
      /\ cleanups' = {} /\ meta' = meta /\ tables' = tables /\ view' = view /\ faults < MaxFaults
      /\ faults' = faults + 1 /\ worker' = [worker EXCEPT !.phase = "failed", !.listed = {}]
  BY DEF Crash
<1>3. worker \in WorkerRecord /\ worker.checkpoint \in Positions
  BY InvFacts, WorkerFacts
<1>4. /\ worker' \in WorkerRecord /\ worker'.phase = "failed" /\ worker'.sent = worker.sent
      /\ worker'.acked = worker.acked /\ worker'.checkpoint = worker.checkpoint
      /\ worker'.reach = worker.reach /\ worker'.copied = worker.copied
  BY <1>2, <1>3 DEF WorkerRecord
<1>5. /\ run' \in [Sides -> TaskRecord] /\ run'["cur"] = NotRunning /\ run'["old"] = NotRunning
      /\ NotRunning.pc = "none" /\ NotRunning.kind = "none"
  <2>1. NotRunning \in TaskRecord
    BY SourceFacts DEF NotRunning, TaskRecord, Metadata
  <2> QED
    BY <1>2, <2>1 DEF Sides, NotRunning
<1>6. Task'.pc = "none" /\ Task'.kind = "none"
  BY <1>5 DEF Task
<1>7. TypeOK'
  BY <1>1, <1>2, <1>4, <1>5, BigQueryAssumption DEF TypeOK, TaskRecord, WorkerRecord, Sides
<1>8. SoleTask'
  BY <1>4, <1>5 DEF SoleTask
<1>9. PositionInv'
  BY <1>1, <1>4, <1>6 DEF PositionInv
<1>10. CopyInv' /\ WriteInv' /\ RelationInv' /\ TruncateInv'
  BY <1>6, NoTaskInv
<1>11. ResetInv'
  BY <1>1, <1>2, <1>4 DEF ResetInv, Blank
<1>12. Done' = worker.checkpoint
  BY <1>4, <1>6 DEF Done
<1>13. CopiedInv'
  <2>1. CASE worker.copied
    <3>1. worker.checkpoint <= Done
      BY <2>1, DoneFacts
    <3>2. /\ Accounted(worker.checkpoint, worker.reach, tables[meta.table].rows)
          /\ Truncates(Done + 1, worker.reach) => Truncates(worker.checkpoint + 1, worker.reach)
      BY <1>3, <2>1, <3>1, ReplayAccounts
    <3> QED
      BY <1>1, <1>2, <1>4, <1>12, <2>1, <3>2 DEF CopiedInv, Exists
  <2>2. CASE ~worker.copied
    BY <1>4, <2>2 DEF CopiedInv
  <2> QED
    BY <2>1, <2>2
<1>14. CacheInv' /\ RowsInv' /\ CleanupInv'
  BY <1>1, <1>2 DEF CacheInv, RowsInv, Exists, CleanupInv
<1> QED
  BY <1>7, <1>8, <1>9, <1>10, <1>11, <1>13, <1>14 DEF BigQueryInv
--------------------------------------------------------------------------------
(* The invariant and the theorems.                                          *)

LEMMA BigQueryInitially == Init => BigQueryInv
<1> SUFFICES ASSUME Init PROVE BigQueryInv
  OBVIOUS
<1>1. /\ meta = NoMetadata /\ tables = [n \in Sequences |-> Missing] /\ view = None
      /\ created_views = None /\ lock = "free" /\ run = [x \in Sides |-> NotRunning]
      /\ cleanups = {} /\ faults = 0
      /\ worker = [phase |-> "copy", attempt |-> 1, sent |-> 0, acked |-> 0,
                   checkpoint |-> 0, reach |-> 0, copied |-> FALSE, listed |-> {}]
  BY DEF Init, Sides
<1>2. NotRunning \in TaskRecord /\ NotRunning.pc = "none" /\ NotRunning.kind = "none"
  BY SourceFacts DEF NotRunning, TaskRecord, Metadata
<1>3. run \in [Sides -> TaskRecord] /\ run["cur"] = NotRunning /\ run["old"] = NotRunning
  BY <1>1, <1>2 DEF Sides
<1>4. Task.pc = "none" /\ Task.kind = "none"
  BY <1>2, <1>3 DEF Task
<1>5. /\ worker \in WorkerRecord /\ worker.phase = "copy" /\ worker.sent = 0 /\ worker.acked = 0
      /\ worker.checkpoint = 0 /\ worker.reach = 0 /\ ~worker.copied
  BY <1>1, SourceFacts, BigQueryAssumption DEF WorkerRecord
<1>6. Missing \in TableRecord /\ Missing.rows = {}
  BY DEF Missing, TableRecord
<1>7. tables \in [Sequences -> TableRecord] /\ \A n \in Sequences : tables[n] = Missing
  BY <1>1, <1>6
<1>8. faults \in 0 .. MaxFaults /\ NoMetadata \in Metadata
  BY <1>1, BigQueryAssumption DEF Metadata
<1>9. TypeOK
  BY <1>1, <1>3, <1>5, <1>7, <1>8 DEF TypeOK, TaskRecord, TableRecord, WorkerRecord, Sides
<1>10. SoleTask /\ PositionInv
  BY <1>2, <1>3, <1>4, <1>5 DEF SoleTask, PositionInv
<1>11. CopyInv /\ WriteInv /\ RelationInv /\ TruncateInv
  BY <1>4 DEF CopyInv, WriteInv, RelationInv, TruncateInv
<1>12. ResetInv /\ CopiedInv
  BY <1>1, <1>5, <1>7 DEF ResetInv, Blank, CopiedInv
<1>13. CacheInv /\ RowsInv /\ CleanupInv
  BY <1>1, <1>6, <1>7 DEF CacheInv, RowsInv, CleanupInv
<1> QED
  BY <1>9, <1>10, <1>11, <1>12, <1>13 DEF BigQueryInv

LEMMA BigQueryTaskStep == ASSUME BigQueryInv, NEW x \in Sides, Step(x) PROVE BigQueryInv'
BY TableResolved, TableCreated, AppliedStored, ViewEnsured, RowsAppendedToTable,
   RowsAppendedInPart, CallFailed, RelationHandled, PlanApplied, PlanFailed, ViewRecreated,
   RelationStored, TruncateProcessed, GenerationCreated, ViewMoved, MetadataMoved, EventsEnd
   DEF Step

LEMMA BigQueryStutter == ASSUME BigQueryInv, UNCHANGED vars PROVE BigQueryInv'
<1>1. /\ meta' = meta /\ tables' = tables /\ view' = view /\ created_views' = created_views
      /\ lock' = lock /\ run' = run /\ cleanups' = cleanups /\ worker' = worker /\ faults' = faults
  BY DEF vars
<1>2. Task' = Task /\ Done' = Done
  BY <1>1 DEF Task, Done
<1>3. TypeOK' /\ SoleTask' /\ PositionInv'
  BY <1>1, <1>2 DEF BigQueryInv, TypeOK, SoleTask, PositionInv
<1>4. CopyInv' /\ WriteInv' /\ RelationInv' /\ TruncateInv'
  BY <1>1, <1>2 DEF BigQueryInv, CopyInv, WriteInv, RelationInv, TruncateInv, TaskSnapshot,
                    TableIs, Blank, Fresh
<1>5. ResetInv' /\ CopiedInv' /\ CacheInv' /\ RowsInv' /\ CleanupInv'
  BY <1>1, <1>2 DEF BigQueryInv, ResetInv, CopiedInv, CacheInv, RowsInv, CleanupInv, Blank, Exists
<1> QED
  BY <1>3, <1>4, <1>5 DEF BigQueryInv

LEMMA BigQueryStep ==
  ASSUME OverlappingRetries = {}, BigQueryInv, [Next]_vars
  PROVE  BigQueryInv'
<1>1. ASSUME NEW x \in {"cur", "old"}, Step(x) PROVE BigQueryInv'
  BY <1>1, BigQueryTaskStep DEF Sides
<1>2. ASSUME NEW n \in Sequences, CleanUp(n) PROVE BigQueryInv'
  BY <1>2, CleanedUp
<1>3. CASE StartCopy \/ CopyDone \/ write_events \/ PersistCheckpoint \/ WorkerFails
  BY <1>3, CopyStarts, CopyEnds, EventsStart, CheckpointPersisted, WorkerFailed
<1>4. CASE RetryStream \/ RetryCopy
  BY <1>4, StreamRetried, CopyRetried
<1>5. CASE DropView \/ DropTables \/ ClearViewCache \/ DropFails \/ PrepareForCopy
  BY <1>5, ViewDropped, TablesDropped, CacheCleared, DropFailed, CopyPrepared
<1>6. CASE Crash
  BY <1>6, Crashed
<1>7. CASE UNCHANGED vars
  BY <1>7, BigQueryStutter
<1> QED
  BY <1>1, <1>2, <1>3, <1>4, <1>5, <1>6, <1>7 DEF Next

\* The invariant of a table at BigQuery holds in every behaviour whose retries
\* wait for the task before them.
THEOREM BigQueryInvariance == ASSUME OverlappingRetries = {} PROVE Spec => []BigQueryInv
<1>1. Init => BigQueryInv
  BY BigQueryInitially
<1>2. BigQueryInv /\ [Next]_vars => BigQueryInv'
  BY BigQueryStep
<1> QED
  BY <1>1, <1>2, PTL DEF Spec

\* What is done lies past the checkpoint, so the rows are accounted for from
\* there too.
LEMMA InvAccounts == BigQueryInv => RowsAccounted
<1> SUFFICES ASSUME BigQueryInv, worker.copied
             PROVE  /\ meta # NoMetadata /\ Exists(meta.table)
                    /\ Accounted(worker.checkpoint, worker.reach, tables[meta.table].rows)
  BY DEF RowsAccounted, Accounted
<1>1. CopiedInv
  BY DEF BigQueryInv
<1>2. meta # NoMetadata /\ Exists(meta.table)
  BY <1>1 DEF CopiedInv, NoMetadata
<1>3. worker.checkpoint \in Positions /\ worker.checkpoint <= Done
  BY InvFacts, WorkerFacts, DoneFacts
<1> QED
  BY <1>2, <1>3, ReplayAccounts

\* Without a position between what is done and what was dispatched no truncate
\* can be left to replay.
LEMMA InvView == BigQueryInv => ViewIsCurrent
<1> SUFFICES ASSUME BigQueryInv, worker.copied, worker.checkpoint = worker.reach
             PROVE  view = meta.table
  BY DEF ViewIsCurrent
<1>1. view = meta.table \/ Truncates(Done + 1, worker.reach)
  BY DEF BigQueryInv, CopiedInv
<1>2. Done \in Nat /\ worker.reach \in Nat /\ Done = worker.reach
  <2>1. worker.checkpoint <= Done /\ Done <= worker.reach /\ Done \in Positions
    BY DoneFacts
  <2>2. worker.reach \in Nat
    BY InvFacts, WorkerFacts
  <2> QED
    BY <2>1, <2>2, SourceFacts
<1>3. ~Truncates(Done + 1, worker.reach)
  BY <1>2 DEF Truncates
<1> QED
  BY <1>1, <1>3

LEMMA InvFits == BigQueryInv => WritesFitTheTable
<1> SUFFICES ASSUME BigQueryInv, NEW x \in Sides, run[x].pc = "append" PROVE CanAppend(x)
  BY DEF WritesFitTheTable, Sides
<1>1. /\ CopyInv /\ WriteInv /\ CopiedInv /\ Task = run[x] /\ Task.kind \in {"copy", "events"}
      /\ Task.kind = "events" => worker.copied
  BY StepFacts
<1>2. meta.state = "applied" /\ Task.base.table = meta.table /\ meta.snapshot = TaskSnapshot
  BY <1>1 DEF WriteInv
<1>3. SnapshotOf(x) = TaskSnapshot
  BY <1>1 DEF SnapshotOf, TaskSnapshot, CopiesRows
<1>4. tables[meta.table].shape = meta.snapshot
  BY <1>1, <1>2 DEF CopyInv, CopiedInv, TableIs
<1> QED
  BY <1>1, <1>2, <1>3, <1>4 DEF CanAppend

\* Of a copied table the physical table the metadata names holds, whatever was
\* interrupted, the source's rows of a position that the replay from the
\* checkpoint reaches, and beyond those only rows the replay deals with again
\* (process_truncate_for_schemas, resolve_or_create_table_for_schema).
THEOREM BigQueryRowsAccounted == ASSUME OverlappingRetries = {} PROVE Spec => []RowsAccounted
<1>1. Spec => []BigQueryInv
  BY BigQueryInvariance
<1> QED
  BY <1>1, InvAccounts, PTL

\* Once everything dispatched is durable the view shows the table the metadata
\* names: the view cache hides no missing or outdated view
\* (ensure_view_points_to_table, clear_view_cache).
THEOREM BigQueryViewIsCurrent == ASSUME OverlappingRetries = {} PROVE Spec => []ViewIsCurrent
<1>1. Spec => []BigQueryInv
  BY BigQueryInvariance
<1> QED
  BY <1>1, InvView, PTL

\* No write is prepared for a table that does not have the shape of its rows
\* (the is_applying check, ensure_destination_schema_matches_metadata).
THEOREM BigQueryWritesFit == ASSUME OverlappingRetries = {} PROVE Spec => []WritesFitTheTable
<1>1. Spec => []BigQueryInv
  BY BigQueryInvariance
<1> QED
  BY <1>1, InvFits, PTL

\* Every variable keeps its type.
THEOREM BigQueryTypeCorrect == ASSUME OverlappingRetries = {} PROVE Spec => []TypeOK
<1>1. Spec => []BigQueryInv
  BY BigQueryInvariance
<1>2. BigQueryInv => TypeOK
  BY DEF BigQueryInv
<1> QED
  BY <1>1, <1>2, PTL

================================================================================
