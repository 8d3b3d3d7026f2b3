------------------------- MODULE SchemaDecodingProofs -------------------------
(***************************************************************************)
(* TLAPS proofs about SchemaDecoding, for every WAL, every cache and queue *)
(* capacity and any number of breaks: cleanup never deletes a schema the   *)
(* destination still needs, and where commit records do not touch, the     *)
(* apply loop has a schema for every row and decodes it with the schema    *)
(* and the masks in force; and about ApplySlot, for any tables, WAL and    *)
(* number of faults: an attempt streams from a position that misses        *)
(* nothing, whichever call of a slot recreation a crash came after.        *)
(***************************************************************************)
EXTENDS MCSchemaDecoding, SequenceTheorems, FiniteSetTheorems, NaturalsInduction,
        WellFoundedInduction, TLAPS

-----------------------------------------------------------------------------
(* The inductive invariant.                                                *)

Snapshots(S) == S \subseteq Nat \ {NoSnapshot} /\ \E b \in Nat : \A s \in S : s <= b

(* The oldest schema the destination may still ask for.  It never moves    *)
(* back: a change replaces it only once the newer endpoint is reached.     *)
Floor == IF meta.previous = NoSnapshot THEN meta.snap ELSE meta.previous

(* A snapshot the destination may be told to move to is stored. *)
Kept(s) == s \in Nat /\ (s >= Floor => s \in stored)

EventKept(e) ==
    /\ e.type = "relation" => Kept(e.snap)
    /\ e.type = "commit" => e.snap \in Nat

ConnTypes ==
    /\ conn = [tx |-> conn.tx, item |-> conn.item, sent |-> conn.sent,
               bootstrap |-> conn.bootstrap, dec |-> conn.dec]
    /\ conn.tx \in Nat /\ conn.item \in Nat

DecodingTypes ==
    /\ Snapshots(stored) /\ Snapshots(cached)
    /\ checkpoint \in Nat /\ ConnTypes
    /\ meta \in [status : {"applied", "applying", "interrupted"}, snap : Nat, previous : Nat]

(* The endpoints of a change, and where there is one. *)
ChangeInv ==
    /\ meta.status = "applied" <=> meta.previous = NoSnapshot
    /\ meta.previous <= meta.snap
    /\ meta.status = "interrupted" => queue = <<>>

CacheKept == \A s \in cached : Kept(s)

OutboxKept == \E S : outbox \in Seq(S) /\ \A e \in S : EventKept(e)

(* Whatever the checkpoint was when a cleanup was queued, and however long *)
(* it waits, it stops short of the floor.                                  *)
QueueInv == queue \in Seq(0..Floor)

RetentionInv ==
    DecodingTypes /\ ChangeInv /\ EndpointsRetained /\ CacheKept /\ OutboxKept /\ QueueInv

-----------------------------------------------------------------------------
(* Greatest and least elements.                                            *)

LEMMA LeastElement ==
    ASSUME NEW S, S \subseteq Nat, S # {}
    PROVE  \E m \in S : \A s \in S : m <= s
<1>1. PICK m \in S : \A s \in S : ~ (<<s, m>> \in OpToRel(<, Nat))
  BY NatLessThanWellFounded, WFMin, Zenon
<1>2. \A s \in S : ~ (s < m)
  BY <1>1 DEF OpToRel
<1> QED
  BY <1>2

LEMMA MinIsLeast ==
    ASSUME NEW S, S \subseteq Nat, S # {}
    PROVE  Min(S) \in S /\ \A s \in S : Min(S) <= s
BY LeastElement DEF Min

LEMMA GreatestElement ==
    ASSUME NEW S, S \subseteq Nat, NEW b \in Nat, \A s \in S : s <= b, S # {}
    PROVE  \E m \in S : \A s \in S : m >= s
<1> DEFINE U == {u \in Nat : \A s \in S : s <= u}
<1>1. U \subseteq Nat /\ U # {}
  OBVIOUS
<1>2. PICK m \in U : \A u \in U : m <= u
  <2> HIDE DEF U
  <2> QED
    BY <1>1, LeastElement
<1>3. m \in S
  <2>1. SUFFICES ASSUME m \notin S PROVE FALSE
    OBVIOUS
  <2>2. \A s \in S : s \in Nat /\ s < m
    BY <1>2, <2>1
  <2>0. m \in Nat
    BY <1>2
  <2>4. PICK e \in S : TRUE
    OBVIOUS
  <2>5. m - 1 \in Nat
    <3> HIDE DEF U
    <3> QED
      BY <2>0, <2>2, <2>4
  <2>3. m \in Nat /\ m - 1 \in Nat /\ \A s \in S : s <= m - 1
    <3> HIDE DEF U
    <3> QED
      BY <2>0, <2>2, <2>5
  <2> QED
    BY <1>2, <2>3
<1> QED
  BY <1>2, <1>3

LEMMA MaxIsGreatest ==
    ASSUME NEW S, S \subseteq Nat, NEW b \in Nat, \A s \in S : s <= b, S # {}
    PROVE  Max(S) \in S /\ \A s \in S : Max(S) >= s
BY GreatestElement DEF Max

(* A finite set has an element that a function takes furthest. *)
LEMMA FurthestElement ==
    ASSUME NEW S, IsFiniteSet(S), S # {}, NEW f \in [S -> Nat]
    PROVE  \E m \in S : \A s \in S : f[s] <= f[m]
<1> DEFINE Furthest(T) == \E m \in T : \A s \in T : f[s] <= f[m]
           Bad == {n \in Nat : \E T \in SUBSET S : T # {} /\ Cardinality(T) = n /\ ~ Furthest(T)}
<1>1. SUFFICES ASSUME ~ Furthest(S) PROVE FALSE
  OBVIOUS
<1>2. Cardinality(S) \in Bad
  BY <1>1, FS_CardinalityType
<1>3. PICK n \in Bad : \A k \in Bad : n <= k
  <2>1. Bad \subseteq Nat /\ Bad # {}
    BY <1>2
  <2> HIDE DEF Bad
  <2> QED
    BY <2>1, LeastElement
<1>4. PICK T \in SUBSET S : T # {} /\ Cardinality(T) = n /\ ~ Furthest(T)
  BY <1>3
<1>5. PICK x \in T : TRUE
  BY <1>4
<1>6. IsFiniteSet(T) /\ n \in Nat
  BY <1>3, <1>4, FS_Subset
<1>7. Cardinality(T \ {x}) = n - 1 /\ Cardinality(T \ {x}) \in Nat
  BY <1>4, <1>5, <1>6, FS_RemoveElement, FS_CardinalityType
<1>8. T \ {x} # {}
  BY <1>4, <1>5
<1>9. n - 1 \in Nat /\ n - 1 \notin Bad
  <2> HIDE DEF Bad
  <2> QED
    BY <1>3, <1>6, <1>7
<1>10. Furthest(T \ {x})
  BY <1>4, <1>7, <1>8, <1>9
<1>11. PICK m \in T \ {x} : \A s \in T \ {x} : f[s] <= f[m]
  BY <1>10
<1>12. f[x] \in Nat /\ f[m] \in Nat /\ \A s \in T : f[s] \in Nat
  BY <1>4, <1>5, <1>11
<1>13. CASE f[x] <= f[m]
  BY <1>4, <1>11, <1>13
<1>14. CASE f[m] <= f[x]
  <2>1. \A s \in T : f[s] <= f[x]
    BY <1>11, <1>12, <1>14
  <2> QED
    BY <1>4, <1>5, <2>1
<1> QED
  BY <1>12, <1>13, <1>14

-----------------------------------------------------------------------------
(* Positions and snapshots.                                                *)

LEMMA WidthBounds == Width \in Nat \ {0} /\ \A s \in Shapes : Len(s) < Width
<1> DEFINE f == [s \in Shapes |-> Len(s)]
           L == {Len(s) : s \in Shapes}
<1>1. \A s \in Shapes : Len(s) \in Nat
  BY DecodingAssumption, LenProperties
<1>2. PICK m \in Shapes : \A s \in Shapes : f[s] <= f[m]
  <2>1. f \in [Shapes -> Nat]
    BY <1>1
  <2> HIDE DEF f
  <2> QED
    BY <2>1, DecodingAssumption, FurthestElement
<1>3. L \subseteq Nat /\ L # {} /\ Len(m) \in Nat /\ \A l \in L : l <= Len(m)
  BY <1>1, <1>2, DecodingAssumption
<1>4. Max(L) \in L /\ \A l \in L : Max(L) >= l
  <2> HIDE DEF L
  <2> QED
    BY <1>3, MaxIsGreatest
<1>5. Width = Max(L) + 1
  BY DEF Width
<1>6. \A s \in Shapes : Len(s) \in L
  BY Zenon
<1>7. PICK k \in Nat : k = Max(L)
  BY <1>3, <1>4
<1>8. \A s \in Shapes : Len(s) <= k
  BY <1>1, <1>4, <1>6, <1>7
<1> HIDE DEF L, f
<1> QED
  BY <1>1, <1>5, <1>7, <1>8

LEMMA ProductBounds ==
    ASSUME NEW i \in Nat, NEW n \in Nat, i <= n, NEW w \in Nat
    PROVE  i * w \in Nat /\ n * w \in Nat /\ i * w <= n * w
OBVIOUS

LEMMA SnapBounds ==
    ASSUME NEW i \in Nat, NEW j \in Nat, NEW n \in Nat, i <= n, j < Width
    PROVE  Snap(i, j) \in Nat \ {NoSnapshot} /\ Snap(i, j) <= n * Width + Width + 1
           /\ n * Width + Width + 1 \in Nat
<1>1. Width \in Nat
  BY WidthBounds
<1>2. i * Width \in Nat /\ n * Width \in Nat /\ i * Width <= n * Width
  BY <1>1, ProductBounds
<1>3. PICK a : a = i * Width
  OBVIOUS
<1>4. PICK b : b = n * Width
  OBVIOUS
<1>5. Snap(i, j) = a + j + 1
  BY <1>3 DEF Snap
<1> QED
  BY <1>1, <1>2, <1>3, <1>4, <1>5 DEF NoSnapshot

LEMMA SnapType ==
    ASSUME NEW i \in Nat, NEW j \in Nat
    PROVE  Snap(i, j) \in Nat \ {NoSnapshot}
<1>1. i * Width \in Nat
  BY WidthBounds, ProductBounds
<1>2. PICK a : a = i * Width
  OBVIOUS
<1> QED
  BY <1>1, <1>2 DEF Snap, NoSnapshot

LEMMA CommitLsnType == \A i \in Nat : CommitLsn(i) \in Nat /\ EndLsn(i) \in Nat
BY DEF CommitLsn, EndLsn

LEMMA AtLsnType == ASSUME NEW lsn \in Nat PROVE AtLsn(lsn) \in Nat
<1> DEFINE K == {k \in 0..NumTx : CommitLsn(k) <= lsn}
           A == {(i + 1) * Width : i \in K}
<1>0. Width \in Nat /\ NumTx \in Nat
  BY WidthBounds, DecodingAssumption
<1>1. PICK b \in Nat : b = (NumTx + 1) * Width
  BY <1>0, ProductBounds
<1>2. \A i \in K : (i + 1) * Width \in Nat /\ (i + 1) * Width <= b
  <2>1. SUFFICES ASSUME NEW i \in K PROVE (i + 1) * Width \in Nat /\ (i + 1) * Width <= b
    OBVIOUS
  <2>2. i + 1 \in Nat /\ NumTx + 1 \in Nat /\ i + 1 <= NumTx + 1
    BY <1>0
  <2> QED
    BY <1>0, <1>1, <2>2, ProductBounds
<1>3. 0 \in K
  BY <1>0 DEF CommitLsn
<1>4. A \subseteq Nat /\ A # {} /\ \A a \in A : a <= b
  <2> HIDE DEF K
  <2> QED
    BY <1>2, <1>3
<1>5. AtLsn(lsn) = Max(A)
  BY DEF AtLsn
<1> HIDE DEF A
<1> QED
  BY <1>1, <1>4, <1>5, MaxIsGreatest

LEMMA ResumeTxType == ASSUME NEW lsn PROVE ResumeTx(lsn) \in Nat
<1> DEFINE I == {i \in 1..NumTx + 1 : i = NumTx + 1 \/ CommitLsn(i) >= lsn}
<1>1. I \subseteq Nat /\ I # {}
  <2>1. NumTx + 1 \in I
    BY DecodingAssumption
  <2>2. I \subseteq Nat
    BY DecodingAssumption
  <2> QED
    BY <2>1, <2>2
<1>2. ResumeTx(lsn) = Min(I)
  BY DEF ResumeTx
<1> HIDE DEF I
<1> QED
  BY <1>1, <1>2, MinIsLeast

-----------------------------------------------------------------------------
(* Sets of snapshots.                                                      *)

LEMMA SnapshotsSub ==
    ASSUME NEW S, NEW T, Snapshots(S), T \subseteq S
    PROVE  Snapshots(T)
BY DEF Snapshots

LEMMA SnapshotsAdd ==
    ASSUME NEW S, Snapshots(S), NEW id \in Nat \ {NoSnapshot}
    PROVE  Snapshots(S \cup {id})
<1>1. PICK b \in Nat : \A s \in S : s <= b
  BY DEF Snapshots
<1>2. PICK d \in Nat : b <= d /\ id <= d
  BY <1>1
<1>3. \A s \in S \cup {id} : s <= d
  BY <1>1, <1>2 DEF Snapshots
<1> QED
  BY <1>2, <1>3 DEF Snapshots

LEMMA NewestIn ==
    ASSUME NEW S, Snapshots(S), S # {}
    PROVE  Max(S) \in S /\ Max(S) \in Nat \ {NoSnapshot}
<1>1. PICK b \in Nat : \A s \in S : s <= b
  BY DEF Snapshots
<1>2. S \subseteq Nat
  BY DEF Snapshots
<1>3. Max(S) \in S
  BY <1>1, <1>2, MaxIsGreatest
<1> QED
  BY <1>3 DEF Snapshots

LEMMA GetIn ==
    ASSUME NEW S, Snapshots(S), NEW id
    PROVE  \/ GetAtOrBefore(S, id) = NoSnapshot
           \/ GetAtOrBefore(S, id) \in S /\ GetAtOrBefore(S, id) <= id
<1> DEFINE A == AtOrBefore(S, id)
<1>1. A \subseteq S /\ \A s \in A : s <= id
  BY DEF AtOrBefore
<1>2. CASE A = {}
  BY <1>2 DEF GetAtOrBefore
<1>3. CASE A # {}
  <2>1. PICK b \in Nat : \A s \in A : s <= b
    BY <1>1 DEF Snapshots
  <2>2. A \subseteq Nat
    BY <1>1 DEF Snapshots
  <2>3. GetAtOrBefore(S, id) = CHOOSE s \in A : \A u \in A : u <= s
    BY <1>3 DEF GetAtOrBefore
  <2> HIDE DEF A
  <2>4. \E m \in A : \A u \in A : u <= m
    <3>1. PICK m \in A : \A u \in A : m >= u
      BY <1>3, <2>1, <2>2, GreatestElement
    <3> QED
      BY <2>2, <3>1
  <2>5. GetAtOrBefore(S, id) \in A
    BY <2>3, <2>4
  <2> QED
    BY <1>1, <2>5
<1> QED
  BY <1>2, <1>3

LEMMA PruneKeeps ==
    ASSUME NEW S, Snapshots(S), NEW r \in Nat
    PROVE  /\ Prune(S, r) \subseteq S
           /\ \A s \in S : s >= r => s \in Prune(S, r)
<1>1. PICK a : a = GetAtOrBefore(S, r)
  OBVIOUS
<1>2. Prune(S, r) = IF a = NoSnapshot THEN S ELSE {s \in S : s >= a}
  BY <1>1 DEF Prune
<1>3. a = NoSnapshot \/ (a \in S /\ a <= r)
  BY <1>1, GetIn
<1>4. S \subseteq Nat
  BY DEF Snapshots
<1>5. CASE a = NoSnapshot
  BY <1>2, <1>5
<1>6. CASE a # NoSnapshot
  <2>1. Prune(S, r) = {s \in S : s >= a}
    BY <1>2, <1>6
  <2>2. a \in Nat /\ a <= r
    BY <1>3, <1>4, <1>6
  <2>3. ASSUME NEW s \in S, s >= r PROVE s \in Prune(S, r)
    BY <1>4, <2>1, <2>2, <2>3
  <2> QED
    BY <2>1, <2>3
<1> QED
  BY <1>5, <1>6

LEMMA EvictIn ==
    ASSUME NEW S, Snapshots(S), NEW id \in Nat \ {NoSnapshot}, NEW max
    PROVE  /\ InsertWithEviction(S, id, max) \subseteq S \cup {id}
           /\ Snapshots(InsertWithEviction(S, id, max))
<1>1. InsertWithEviction(S, id, max) \subseteq S \cup {id}
  BY Zenon DEF InsertWithEviction
<1>2. Snapshots(S \cup {id})
  BY SnapshotsAdd
<1> QED
  BY <1>1, <1>2, SnapshotsSub

LEMMA LookupIn ==
    ASSUME Snapshots(stored), Snapshots(cached), NEW id
    PROVE  /\ Lookup(id) \in Nat
           /\ Lookup(id) = NoSnapshot \/ Lookup(id) \in cached \/ Lookup(id) \in stored
           /\ Snapshots(CacheAfterLookup(id)) /\ CacheAfterLookup(id) \subseteq cached \cup stored
<1>1. Lookup(id) = NoSnapshot \/ Lookup(id) \in cached \/ Lookup(id) \in stored
  BY GetIn DEF Lookup
<1>0. NoSnapshot \in Nat /\ stored \subseteq Nat /\ cached \subseteq Nat
  BY DEF Snapshots, NoSnapshot
<1>2. Lookup(id) \in Nat
  BY <1>0, <1>1
<1>3. CASE AtOrBefore(cached, id) # {} \/ Lookup(id) = NoSnapshot
  <2>1. CacheAfterLookup(id) = cached
    BY <1>3 DEF CacheAfterLookup
  <2> QED
    BY <1>1, <1>2, <2>1
<1>4. CASE ~ (AtOrBefore(cached, id) # {} \/ Lookup(id) = NoSnapshot)
  <2>1. CacheAfterLookup(id) = InsertWithEviction(cached, Lookup(id), MaxCached)
    BY <1>4 DEF CacheAfterLookup
  <2>2. Lookup(id) \in stored
    BY <1>4, GetIn DEF Lookup
  <2>3. Lookup(id) \in Nat \ {NoSnapshot}
    BY <2>2 DEF Snapshots
  <2> QED
    BY <1>1, <1>2, <2>1, <2>2, <2>3, EvictIn
<1> QED
  BY <1>3, <1>4

-----------------------------------------------------------------------------
(* The floor moves forward, and cleanup stays below it.                    *)

FloorAdvances ==
    /\ Floor' \in Nat /\ Floor <= Floor'
    /\ \A s \in stored : s >= Floor' => s \in stored'

LEMMA FloorType ==
    ASSUME DecodingTypes, ChangeInv, EndpointsRetained
    PROVE  Floor \in Nat \ {NoSnapshot} /\ Floor \in stored
BY DEF DecodingTypes, ChangeInv, EndpointsRetained, Floor, Snapshots

LEMMA KeptStays ==
    ASSUME RetentionInv, FloorAdvances
    PROVE  /\ \A s : Kept(s) => Kept(s)'
           /\ \A e : EventKept(e) => EventKept(e)'
<1>1. Floor \in Nat
  BY FloorType DEF RetentionInv
<1>2. ASSUME NEW s, Kept(s) PROVE Kept(s)'
  <2>1. s >= Floor' => s >= Floor
    BY <1>1, <1>2 DEF FloorAdvances, Kept
  <2> QED
    BY <1>2, <2>1 DEF FloorAdvances, Kept
<1> QED
  BY <1>2 DEF EventKept

LEMMA StoredKept == ASSUME RetentionInv PROVE \A s \in cached \cup stored : Kept(s)
BY DEF RetentionInv, DecodingTypes, Snapshots, CacheKept, Kept

LEMMA LookupKept ==
    ASSUME RetentionInv, NEW id
    PROVE  Kept(Lookup(id))
<1>1. Lookup(id) \in Nat
      /\ (Lookup(id) = NoSnapshot \/ Lookup(id) \in cached \/ Lookup(id) \in stored)
  BY LookupIn DEF RetentionInv, DecodingTypes
<1>2. CASE Lookup(id) = NoSnapshot
  <2>1. Floor \in Nat \ {NoSnapshot}
    BY FloorType DEF RetentionInv
  <2> QED
    BY <1>2, <2>1 DEF Kept, NoSnapshot
<1> QED
  BY <1>1, <1>2, StoredKept

(* The same floor. *)
LEMMA FloorStays ==
    ASSUME RetentionInv, UNCHANGED meta, stored \subseteq stored'
    PROVE  FloorAdvances /\ Floor' = Floor
<1>1. Floor' = Floor
  BY DEF Floor
<1> QED
  BY <1>1, FloorType DEF RetentionInv, FloorAdvances

-----------------------------------------------------------------------------
(* The outbox as a sequence.                                               *)

LEMMA OutboxAppends ==
    ASSUME OutboxKept, \A e : EventKept(e) => EventKept(e)', NEW e, EventKept(e)',
           outbox' = Append(outbox, e)
    PROVE  OutboxKept'
<1>1. PICK S : outbox \in Seq(S) /\ \A x \in S : EventKept(x)
  BY DEF OutboxKept
<1>2. PICK T : T = S \cup {e}
  OBVIOUS
<1>3. outbox \in Seq(T)
  BY <1>1, <1>2, SeqMonotonic
<1>4. Append(outbox, e) \in Seq(T)
  BY <1>2, <1>3, AppendProperties
<1>5. \A x \in T : EventKept(x)'
  BY <1>1, <1>2
<1> QED
  BY <1>4, <1>5 DEF OutboxKept

LEMMA OutboxConcats ==
    ASSUME OutboxKept, \A e : EventKept(e) => EventKept(e)', NEW S, NEW t \in Seq(S),
           \A e \in S : EventKept(e)', outbox' = outbox \o t
    PROVE  OutboxKept'
<1>1. PICK U : outbox \in Seq(U) /\ \A x \in U : EventKept(x)
  BY DEF OutboxKept
<1>2. PICK T : T = S \cup U
  OBVIOUS
<1>3. outbox \in Seq(T) /\ t \in Seq(T)
  BY <1>1, <1>2, SeqMonotonic
<1>4. outbox \o t \in Seq(T)
  BY <1>3, ConcatProperties
<1>5. \A x \in T : EventKept(x)'
  BY <1>1, <1>2
<1> QED
  BY <1>4, <1>5 DEF OutboxKept

LEMMA OutboxMoves ==
    ASSUME OutboxKept, \A e : EventKept(e) => EventKept(e)',
           \/ outbox' = outbox
           \/ outbox # <<>> /\ outbox' = Tail(outbox)
           \/ outbox' = <<>>
    PROVE  OutboxKept'
<1>1. PICK S : outbox \in Seq(S) /\ \A x \in S : EventKept(x)
  BY DEF OutboxKept
<1>2. outbox' \in Seq(S)
  <2>1. CASE outbox' = outbox
    BY <1>1, <2>1
  <2>2. CASE outbox # <<>> /\ outbox' = Tail(outbox)
    BY <1>1, <2>2, HeadTailProperties
  <2>3. CASE outbox' = <<>>
    BY <2>3, EmptySeq
  <2> QED
    BY <2>1, <2>2, <2>3
<1> QED
  BY <1>1, <1>2 DEF OutboxKept

LEMMA HeadKept ==
    ASSUME OutboxKept, outbox # <<>>
    PROVE  EventKept(Head(outbox))
<1>1. PICK S : outbox \in Seq(S) /\ \A x \in S : EventKept(x)
  BY DEF OutboxKept
<1>2. Head(outbox) \in S
  BY <1>1, HeadTailProperties
<1> QED
  BY <1>1, <1>2

-----------------------------------------------------------------------------
(* The apply loop: messages of the connection.                             *)

LEMMA ConnMoves ==
    ASSUME ConnTypes, NEW t \in Nat, NEW i \in Nat, NEW b, NEW d,
           conn' = [conn EXCEPT !.tx = t, !.item = i, !.sent = b, !.dec = d]
    PROVE  ConnTypes'
BY DEF ConnTypes

LEMMA ConnAdvances == ASSUME ConnTypes, NEW d, conn' = Advance(d) PROVE ConnTypes'
<1>1. PICK b : conn' = [conn EXCEPT !.item = @ + 1, !.dec = d, !.sent = b]
  BY Zenon DEF Advance
<1>2. conn.item + 1 \in Nat /\ conn.tx \in Nat
  BY DEF ConnTypes
<1> QED
  BY <1>1, <1>2 DEF ConnTypes

(* A message stores at most a new schema, caches what is stored and adds   *)
(* events.                                                                 *)
LEMMA MessageKeeps ==
    ASSUME RetentionInv, UNCHANGED <<meta, queue, checkpoint>>, ConnTypes', OutboxKept',
           stored \subseteq stored', Snapshots(stored'), Snapshots(cached'),
           cached' \subseteq cached \cup stored'
    PROVE  RetentionInv'
<1>1. FloorAdvances /\ Floor' = Floor
  BY FloorStays
<1>2. CacheKept'
  <2>1. \A s \in cached : Kept(s)'
    BY <1>1, KeptStays DEF RetentionInv, CacheKept
  <2>2. \A s \in stored' : Kept(s)'
    BY DEF Kept, Snapshots
  <2> QED
    BY <2>1, <2>2 DEF CacheKept
<1>3. QueueInv'
  BY <1>1, Zenon DEF RetentionInv, QueueInv
<1> QED
  BY <1>2, <1>3 DEF RetentionInv, DecodingTypes, ChangeInv, EndpointsRetained

(* A message that ends in an error leaves everything else. *)
LEMMA FailKeeps == ASSUME RetentionInv, NEW why, Fail(why) PROVE RetentionInv'
<1>1. UNCHANGED <<meta, queue, checkpoint, conn, outbox, stored, cached>>
  BY DEF Fail
<1>2. ConnTypes' /\ OutboxKept'
  <2>1. FloorAdvances
    BY <1>1, FloorStays
  <2>2. OutboxKept'
    BY <1>1, <2>1, KeptStays, OutboxMoves DEF RetentionInv
  <2> QED
    BY <1>1, <2>2 DEF RetentionInv, DecodingTypes, ConnTypes
<1> QED
  BY <1>1, <1>2, MessageKeeps DEF RetentionInv, DecodingTypes

(* Nothing but the connection and the cache of a lookup changes. *)
LEMMA QuietKeeps ==
    ASSUME RetentionInv, UNCHANGED <<meta, queue, checkpoint, stored>>, ConnTypes', OutboxKept',
           Snapshots(cached'), cached' \subseteq cached \cup stored
    PROVE  RetentionInv'
BY MessageKeeps DEF RetentionInv, DecodingTypes

LEMMA DdlKeeps == ASSUME RetentionInv, HandleDdlMessage PROVE RetentionInv'
<1>0. /\ UNCHANGED <<meta, queue, checkpoint, outbox>> /\ Snapshots(stored) /\ Snapshots(cached)
      /\ ConnTypes
  BY DEF HandleDdlMessage, RetentionInv, DecodingTypes
<1>1. ConnTypes'
  BY <1>0, ConnAdvances DEF HandleDdlMessage
<1>2. PICK n : n = Snap(conn.tx, conn.item)
  OBVIOUS
<1>3. n \in Nat \ {NoSnapshot}
  BY <1>0, <1>2, SnapType DEF ConnTypes
<1>4. \/ UNCHANGED <<stored, cached>>
      \/ stored' = stored \cup {n} /\ cached' = InsertWithEviction(cached, n, MaxCached)
  BY <1>2 DEF HandleDdlMessage, StoreTableSchema
<1>5. /\ stored \subseteq stored' /\ Snapshots(stored') /\ Snapshots(cached')
      /\ cached' \subseteq cached \cup stored'
  BY <1>0, <1>3, <1>4, SnapshotsAdd, EvictIn
<1>6. OutboxKept'
  BY <1>0, <1>5, FloorStays, KeptStays, OutboxMoves DEF RetentionInv
<1> QED
  BY <1>0, <1>1, <1>5, <1>6, MessageKeeps

LEMMA RelationKept ==
    ASSUME NEW n, NEW m, Kept(n)
    PROVE  EventKept(RelationEvent(n, m))
BY DEF EventKept, RelationEvent

LEMMA RowKept == ASSUME NEW n, NEW m, NEW v PROVE EventKept(RowEvent(n, m, v))
BY DEF EventKept, RowEvent

LEMMA RelationKeeps == ASSUME RetentionInv, HandleRelationMessage PROVE RetentionInv'
<1>0. ConnTypes /\ Snapshots(stored) /\ Snapshots(cached)
  BY DEF RetentionInv, DecodingTypes
<1>1. ASSUME NEW why, Fail(why) PROVE RetentionInv'
  BY <1>1, FailKeeps
<1>2. ASSUME conn' = [conn EXCEPT !.sent = TRUE],
             UNCHANGED <<meta, queue, checkpoint, stored, cached, outbox>>
      PROVE  RetentionInv'
  <2>1. ConnTypes'
    BY <1>0, <1>2 DEF ConnTypes
  <2>2. OutboxKept'
    BY <1>2, FloorStays, KeptStays, OutboxMoves DEF RetentionInv
  <2> QED
    BY <1>0, <1>2, <2>1, <2>2, QuietKeeps
<1>3. ASSUME NEW id, NEW d, conn' = [conn EXCEPT !.sent = TRUE, !.dec = d],
             cached' = CacheAfterLookup(id), NEW v,
             outbox' = Append(outbox, RelationEvent(Lookup(id), v)),
             UNCHANGED <<meta, queue, checkpoint, stored>>
      PROVE  RetentionInv'
  <2>1. ConnTypes'
    BY <1>0, <1>3 DEF ConnTypes
  <2>2. FloorAdvances
    BY <1>3, FloorStays
  <2>3. EventKept(RelationEvent(Lookup(id), v))
    BY LookupKept, RelationKept
  <2>5. PICK e : e = RelationEvent(Lookup(id), v)
    OBVIOUS
  <2>6. EventKept(e)'
    BY <2>2, <2>3, <2>5, KeptStays
  <2>7. OutboxKept'
    BY <1>3, <2>2, <2>5, <2>6, KeptStays, OutboxAppends DEF RetentionInv
  <2> QED
    BY <1>0, <1>3, <2>1, <2>7, LookupIn, QuietKeeps
<1> QED
  BY <1>1, <1>2, <1>3 DEF HandleRelationMessage

LEMMA RowKeeps == ASSUME RetentionInv, HandleRowMessage PROVE RetentionInv'
<1>0. ConnTypes /\ Snapshots(stored) /\ Snapshots(cached) /\ OutboxKept
  BY DEF RetentionInv, DecodingTypes
<1>1. ASSUME NEW why, Fail(why) PROVE RetentionInv'
  BY <1>1, FailKeeps
<1>2. CASE Unowned
  <2>1. /\ conn' = Advance(conn.dec)
        /\ UNCHANGED <<meta, queue, checkpoint, stored, cached, outbox>>
    BY <1>2 DEF HandleRowMessage
  <2>2. ConnTypes'
    BY <1>0, <2>1, ConnAdvances
  <2>3. OutboxKept'
    BY <1>0, <2>1, FloorStays, KeptStays, OutboxMoves
  <2> QED
    BY <1>0, <2>1, <2>2, <2>3, QuietKeeps
<1>3. CASE ~ Unowned
  <2>1. PICK dec : dec = Resolved.dec
    OBVIOUS
  <2>2. CASE dec.mask = NoMask
    BY <1>1, <1>3, <2>1, <2>2 DEF HandleRowMessage
  <2>3. CASE dec.mask # NoMask /\ conn.dec.kind # "with" /\ ~ Found(dec.snap)
    BY <1>1, <1>3, <2>1, <2>3 DEF HandleRowMessage
  <2>4. CASE dec.mask # NoMask /\ ~ (conn.dec.kind # "with" /\ ~ Found(dec.snap))
    <3>1. PICK rel : rel = Resolved.relation
      OBVIOUS
    <3>2. PICK event : event = RowEvent(dec.snap, dec.mask, Here)
      OBVIOUS
    <3>3. /\ conn' = Advance(dec)
          /\ cached' = IF conn.dec.kind = "with" THEN cached ELSE CacheAfterLookup(dec.snap)
          /\ outbox' = outbox \o rel \o <<event>>
          /\ UNCHANGED <<meta, queue, checkpoint, stored>>
      BY <1>3, <2>1, <2>4, <3>1, <3>2 DEF HandleRowMessage
    <3>4. ConnTypes'
      BY <1>0, <3>3, ConnAdvances
    <3>5. Snapshots(cached') /\ cached' \subseteq cached \cup stored
      BY <1>0, <3>3, LookupIn
    <3>6. PICK R : rel \in Seq(R) /\ \A e \in R : EventKept(e)
      <4>1. CASE conn.dec.kind # "pending"
        <5>1. rel = <<>>
          BY <3>1, <4>1 DEF Resolved
        <5> QED
          BY <5>1, EmptySeq
      <4>2. CASE conn.dec.kind = "pending"
        <5>1. PICK m : /\ Resolved.relation = <<RelationEvent(conn.dec.snap, m)>>
                       /\ Resolved.dec = With(conn.dec.snap, m)
          BY <4>2 DEF Resolved
        <5>2. dec.snap = conn.dec.snap
          BY <2>1, <5>1 DEF With
        <5>3. Lookup(conn.dec.snap) = conn.dec.snap
          BY <2>4, <4>2, <5>2 DEF Found
        <5>4. Kept(conn.dec.snap)
          BY <5>3, LookupKept
        <5>5. PICK e : e = RelationEvent(conn.dec.snap, m)
          OBVIOUS
        <5>6. EventKept(e)
          BY <5>4, <5>5, RelationKept
        <5>7. rel = <<e>>
          BY <3>1, <5>1, <5>5
        <5>8. rel \in Seq({e})
          BY <5>7
        <5> QED
          BY <5>6, <5>8
      <4> QED
        BY <4>1, <4>2
    <3>7. FloorAdvances
      BY <3>3, FloorStays
    <3>8. PICK T : T = R \cup {event}
      OBVIOUS
    <3>9. rel \in Seq(T)
      BY <3>6, <3>8, SeqMonotonic
    <3>10. <<event>> \in Seq(T)
      BY <3>8
    <3>11. \A e \in T : EventKept(e)
      BY <3>2, <3>6, <3>8, RowKept
    <3>12. rel \o <<event>> \in Seq(T)
      BY <3>9, <3>10, ConcatProperties
    <3>13. outbox' = outbox \o (rel \o <<event>>)
      <4>1. PICK U : outbox \in Seq(U)
        BY <1>0 DEF OutboxKept
      <4>2. PICK V : V = U \cup T
        OBVIOUS
      <4>3. outbox \in Seq(V) /\ rel \in Seq(V) /\ <<event>> \in Seq(V)
        BY <3>9, <3>10, <4>1, <4>2, SeqMonotonic
      <4> QED
        BY <3>3, <4>3, ConcatAssociative
    <3>14. OutboxKept'
      <4>1. \A e \in T : EventKept(e)'
        BY <3>7, <3>11, KeptStays
      <4> QED
        BY <1>0, <3>7, <3>12, <3>13, <4>1, KeptStays, OutboxConcats
    <3> QED
      BY <3>3, <3>4, <3>5, <3>14, QuietKeeps
  <2> QED
    BY <2>2, <2>3, <2>4
<1> QED
  BY <1>2, <1>3

LEMMA TruncateKeeps == ASSUME RetentionInv, HandleTruncateMessage PROVE RetentionInv'
<1>0. ConnTypes /\ Snapshots(stored) /\ Snapshots(cached) /\ OutboxKept
  BY DEF RetentionInv, DecodingTypes
<1>1. ASSUME NEW why, Fail(why) PROVE RetentionInv'
  BY <1>1, FailKeeps
<1>2. CASE conn' = Advance(conn.dec) /\ UNCHANGED <<meta, queue, checkpoint, stored, cached>>
           /\ (outbox' = outbox
               \/ outbox' = Append(outbox, RowEvent(conn.dec.snap, conn.dec.mask, Here)))
  <2>1. ConnTypes'
    BY <1>0, <1>2, ConnAdvances
  <2>2. FloorAdvances
    BY <1>2, FloorStays
  <2>3. PICK e : e = RowEvent(conn.dec.snap, conn.dec.mask, Here)
    OBVIOUS
  <2>4. EventKept(e)'
    BY <2>2, <2>3, RowKept, KeptStays
  <2>5. OutboxKept'
    BY <1>0, <1>2, <2>2, <2>3, <2>4, KeptStays, OutboxAppends, OutboxMoves
  <2> QED
    BY <1>0, <1>2, <2>1, <2>5, QuietKeeps
<1> QED
  BY <1>1, <1>2 DEF HandleTruncateMessage

LEMMA CommitMessageKeeps == ASSUME RetentionInv, HandleCommitMessage PROVE RetentionInv'
<1>0. ConnTypes /\ Snapshots(stored) /\ Snapshots(cached) /\ OutboxKept
  BY DEF RetentionInv, DecodingTypes
<1>1. PICK b : conn' = [conn EXCEPT !.tx = @ + 1, !.item = 1, !.sent = b]
  BY Zenon DEF HandleCommitMessage
<1>2. conn.tx + 1 \in Nat /\ conn.tx \in Nat
  BY <1>0 DEF ConnTypes
<1>3. ConnTypes'
  BY <1>0, <1>1, <1>2 DEF ConnTypes
<1>4. UNCHANGED <<meta, queue, checkpoint, stored, cached>>
      /\ outbox' = Append(outbox, CommitEvent(conn.tx))
  BY DEF HandleCommitMessage
<1>5. FloorAdvances
  BY <1>4, FloorStays
<1>6. PICK e : e = CommitEvent(conn.tx)
  OBVIOUS
<1>7. EventKept(e)
  BY <1>2, <1>6 DEF EventKept, CommitEvent
<1>8. OutboxKept'
  BY <1>0, <1>4, <1>5, <1>6, <1>7, KeptStays, OutboxAppends
<1> QED
  BY <1>0, <1>3, <1>4, <1>8, QuietKeeps

LEMMA InvalidateKeeps == ASSUME RetentionInv, Invalidate PROVE RetentionInv'
<1>0. ConnTypes /\ Snapshots(stored) /\ Snapshots(cached) /\ OutboxKept
  BY DEF RetentionInv, DecodingTypes
<1>1. conn' = [conn EXCEPT !.sent = FALSE]
      /\ UNCHANGED <<meta, queue, checkpoint, stored, cached, outbox>>
  BY DEF Invalidate
<1>2. ConnTypes'
  BY <1>0, <1>1 DEF ConnTypes
<1>3. OutboxKept'
  BY <1>0, <1>1, FloorStays, KeptStays, OutboxMoves
<1> QED
  BY <1>0, <1>1, <1>2, <1>3, QuietKeeps

-----------------------------------------------------------------------------
(* The destination, and the faults.                                        *)

(* The endpoints move with the floor; the store stays as it is. *)
LEMMA EndpointsKeep ==
    ASSUME RetentionInv, DecodingTypes', ChangeInv', EndpointsRetained', Floor <= Floor',
           UNCHANGED stored, cached' \subseteq cached \cup stored,
           \/ queue' = queue
           \/ queue' = <<>>
           \/ queue' \in Seq(0..Floor),
           \/ outbox' = outbox
           \/ outbox # <<>> /\ outbox' = Tail(outbox)
           \/ outbox' = <<>>
    PROVE  RetentionInv'
<1>1. Floor \in Nat /\ Floor' \in Nat
  <2>1. DecodingTypes' /\ ChangeInv' /\ EndpointsRetained' => Floor' \in Nat
    BY DEF DecodingTypes, ChangeInv, EndpointsRetained, Floor
  <2> QED
    BY <2>1, FloorType DEF RetentionInv
<1>2. FloorAdvances
  BY <1>1 DEF FloorAdvances
<1>3. OutboxKept'
  BY <1>2, KeptStays, OutboxMoves DEF RetentionInv
<1>4. CacheKept'
  BY <1>2, KeptStays, StoredKept DEF CacheKept
<1>5. QueueInv'
  <2>1. queue' = <<>> \/ queue' \in Seq(0..Floor)
    BY DEF RetentionInv, QueueInv
  <2>2. 0..Floor \subseteq 0..Floor'
    BY <1>1
  <2>3. CASE queue' \in Seq(0..Floor)
    BY <2>2, <2>3, SeqMonotonic DEF QueueInv
  <2>4. CASE queue' = <<>>
    BY <2>4, EmptySeq DEF QueueInv
  <2> QED
    BY <2>1, <2>3, <2>4
<1> QED
  BY <1>3, <1>4, <1>5 DEF RetentionInv

LEMMA ApplyKeeps == ASSUME RetentionInv, ApplyRelation PROVE RetentionInv'
<1> DEFINE e == Head(outbox)
<1>0. /\ DecodingTypes /\ ChangeInv /\ EndpointsRetained /\ outbox # <<>>
      /\ meta \in [status : {"applied", "applying", "interrupted"}, snap : Nat, previous : Nat]
      /\ e.type = "relation" /\ Kept(e.snap) /\ meta.status # "interrupted"
  BY HeadKept DEF ApplyRelation, Working, RetentionInv, EventKept, DecodingTypes
<1> HIDE DEF e
<1>1. CASE meta.status = "applying"
  <2>1. /\ meta' = [meta EXCEPT !.status = "applied", !.previous = NoSnapshot]
        /\ outbox' = Tail(outbox)
        /\ UNCHANGED <<stored, cached, checkpoint, conn, queue>>
    BY <1>1 DEF ApplyRelation
  <2>2. /\ meta' \in [status : {"applied", "applying", "interrupted"}, snap : Nat, previous : Nat]
        /\ meta'.status = "applied" /\ meta'.snap = meta.snap /\ meta'.previous = NoSnapshot
    BY <1>0, <2>1 DEF NoSnapshot
  <2>3. DecodingTypes'
    BY <1>0, <2>1, <2>2 DEF DecodingTypes, ConnTypes
  <2>4. ChangeInv' /\ EndpointsRetained' /\ Floor <= Floor'
    BY <1>0, <2>1, <2>2 DEF ChangeInv, EndpointsRetained, Floor, NoSnapshot
  <2> QED
    BY <1>0, <2>1, <2>3, <2>4, EndpointsKeep
<1>2. CASE meta.status = "applied" /\ e.snap < meta.snap
  BY <1>2, FailKeeps DEF ApplyRelation, e
<1>3. CASE meta.status = "applied" /\ ~ (e.snap < meta.snap) /\ e.snap = meta.snap
  <2>1. outbox' = Tail(outbox) /\ UNCHANGED <<stored, cached, checkpoint, conn, queue, meta>>
    BY <1>3 DEF ApplyRelation, e
  <2>2. DecodingTypes' /\ ChangeInv' /\ EndpointsRetained'
    BY <1>0, <2>1 DEF DecodingTypes, ConnTypes, ChangeInv, EndpointsRetained
  <2>3. Floor <= Floor'
    BY <1>0, <2>1 DEF Floor
  <2> QED
    BY <1>0, <2>1, <2>2, <2>3, EndpointsKeep
<1>4. CASE meta.status = "applied" /\ ~ (e.snap < meta.snap) /\ e.snap # meta.snap
  <2>1. /\ meta' = [status |-> "applying", snap |-> e.snap, previous |-> meta.snap]
        /\ UNCHANGED <<stored, cached, checkpoint, conn, queue, outbox>>
    BY <1>4 DEF ApplyRelation, e
  <2>2. /\ meta'.status = "applying" /\ meta'.snap = e.snap /\ meta'.previous = meta.snap
        /\ meta' \in [status : {"applied", "applying", "interrupted"}, snap : Nat, previous : Nat]
    BY <1>0, <2>1 DEF Kept
  <2>3. /\ meta.snap \in Nat \ {NoSnapshot} /\ e.snap > meta.snap /\ Floor = meta.snap
        /\ Floor' = meta.snap /\ e.snap \in stored
    BY <1>0, <1>4, <2>2 DEF Kept, Floor, ChangeInv, EndpointsRetained, DecodingTypes, Snapshots
  <2>4. DecodingTypes'
    BY <1>0, <2>1, <2>2 DEF DecodingTypes, ConnTypes
  <2>5. ChangeInv' /\ EndpointsRetained' /\ Floor <= Floor'
    BY <1>0, <2>1, <2>2, <2>3 DEF ChangeInv, EndpointsRetained
  <2> QED
    BY <2>1, <2>4, <2>5, EndpointsKeep
<1> QED
  BY <1>0, <1>1, <1>2, <1>3, <1>4 DEF Kept

LEMMA RecoverKeeps == ASSUME RetentionInv, RecoverInterrupted PROVE RetentionInv'
<1>0. /\ DecodingTypes /\ ChangeInv /\ EndpointsRetained /\ meta.status = "interrupted"
      /\ meta \in [status : {"applied", "applying", "interrupted"}, snap : Nat, previous : Nat]
  BY DEF RecoverInterrupted, RetentionInv, DecodingTypes
<1>1. CASE ~ {meta.previous, meta.snap} \subseteq stored
  BY <1>1, FailKeeps DEF RecoverInterrupted
<1>2. CASE {meta.previous, meta.snap} \subseteq stored
  <2>1. PICK n \in {meta.previous, meta.snap} :
           meta' = [status |-> "applied", snap |-> n, previous |-> NoSnapshot]
    BY <1>2 DEF RecoverInterrupted
  <2>2. UNCHANGED <<stored, cached, checkpoint, conn, queue, outbox>>
    BY <1>2 DEF RecoverInterrupted
  <2>3. n \in Nat /\ n \in stored /\ meta.previous <= n
    BY <1>0, <1>2, <2>1 DEF ChangeInv
  <2>4. /\ meta'.status = "applied" /\ meta'.snap = n /\ meta'.previous = NoSnapshot
        /\ meta' \in [status : {"applied", "applying", "interrupted"}, snap : Nat, previous : Nat]
    BY <2>1, <2>3 DEF NoSnapshot
  <2>5. DecodingTypes'
    BY <1>0, <2>2, <2>4 DEF DecodingTypes, ConnTypes
  <2>6. ChangeInv' /\ EndpointsRetained' /\ Floor <= Floor'
    BY <1>0, <2>2, <2>3, <2>4 DEF ChangeInv, EndpointsRetained, Floor, NoSnapshot
  <2> QED
    BY <2>2, <2>5, <2>6, EndpointsKeep
<1> QED
  BY <1>1, <1>2

LEMMA WriteKeeps == ASSUME RetentionInv, WriteRow PROVE RetentionInv'
<1>1. ASSUME outbox # <<>>, outbox' = Tail(outbox),
             UNCHANGED <<stored, cached, checkpoint, conn, queue, meta>>
      PROVE  RetentionInv'
  <2>1. DecodingTypes' /\ ChangeInv' /\ EndpointsRetained'
    BY <1>1 DEF RetentionInv, DecodingTypes, ConnTypes, ChangeInv, EndpointsRetained
  <2>2. Floor \in Nat /\ Floor' = Floor
    BY <1>1, FloorType DEF RetentionInv, Floor
  <2> QED
    BY <1>1, <2>1, <2>2, EndpointsKeep
<1> QED
  BY <1>1, FailKeeps DEF WriteRow, Working

(* A retention computed from the metadata of the moment is at or before    *)
(* the floor of the moment.                                                *)
LEMMA RetentionBelowFloor ==
    ASSUME RetentionInv, meta.status # "interrupted", NEW lsn \in Nat
    PROVE  Retention(lsn) \in 0..Floor
<1> DEFINE R == {AtLsn(lsn), meta.snap}
                \cup IF meta.status \in {"applying", "interrupted"} THEN {meta.previous} ELSE {}
<1>0. /\ meta.status \in {"applied", "applying", "interrupted"}
      /\ meta.snap \in Nat /\ meta.previous \in Nat /\ AtLsn(lsn) \in Nat
  BY AtLsnType DEF RetentionInv, DecodingTypes
<1>1. R \subseteq Nat /\ R # {}
  BY <1>0
<1>2. Floor \in R
  BY <1>0 DEF Floor, RetentionInv, ChangeInv
<1>3. Retention(lsn) = Min(R)
  BY DEF Retention
<1>4. Min(R) \in R /\ \A r \in R : Min(R) <= r
  <2> HIDE DEF R
  <2> QED
    BY <1>1, MinIsLeast
<1> HIDE DEF R
<1>5. PICK m : m = Retention(lsn)
  OBVIOUS
<1>6. m \in Nat /\ Floor \in Nat /\ m <= Floor
  BY <1>1, <1>2, <1>3, <1>4, <1>5
<1> QED
  BY <1>5, <1>6

LEMMA CompleteKeeps == ASSUME RetentionInv, CompleteCommit PROVE RetentionInv'
<1>0. /\ DecodingTypes /\ ChangeInv /\ EndpointsRetained /\ outbox # <<>>
      /\ meta.status # "interrupted" /\ outbox' = Tail(outbox)
      /\ UNCHANGED <<stored, cached, meta, conn>>
  BY DEF CompleteCommit, Working, RetentionInv
<1>1. Head(outbox).snap \in Nat
  BY <1>0, HeadKept DEF CompleteCommit, EventKept, RetentionInv
<1>2. PICK lsn \in Nat : lsn = EndLsn(Head(outbox).snap)
  BY <1>1, CommitLsnType
<1>3. checkpoint' \in Nat
  <2>1. checkpoint' = Max({checkpoint, lsn})
    BY <1>2 DEF CompleteCommit
  <2>2. checkpoint \in Nat
    BY <1>0 DEF DecodingTypes
  <2>3. PICK b \in Nat : checkpoint <= b /\ lsn <= b
    BY <2>2
  <2>4. Max({checkpoint, lsn}) \in {checkpoint, lsn}
    BY <2>2, <2>3, MaxIsGreatest
  <2> QED
    BY <2>1, <2>2, <2>4
<1>4. DecodingTypes' /\ ChangeInv' /\ EndpointsRetained'
  BY <1>0, <1>3 DEF DecodingTypes, ConnTypes, ChangeInv, EndpointsRetained
<1>5. Floor' = Floor /\ Floor \in Nat
  BY <1>0, FloorType DEF Floor
<1>6. queue' = queue \/ queue' = Append(queue, Retention(checkpoint'))
  BY DEF CompleteCommit
<1>7. queue' = queue \/ queue' \in Seq(0..Floor)
  <2>1. PICK r : r = Retention(checkpoint')
    OBVIOUS
  <2>2. r \in 0..Floor
    BY <1>0, <1>3, <2>1, RetentionBelowFloor
  <2>3. queue \in Seq(0..Floor)
    BY DEF RetentionInv, QueueInv
  <2>4. Append(queue, r) \in Seq(0..Floor)
    BY <2>2, <2>3, AppendProperties
  <2> QED
    BY <1>6, <2>1, <2>4
<1> QED
  BY <1>0, <1>4, <1>5, <1>7, EndpointsKeep

LEMMA PruneStepKeeps == ASSUME RetentionInv, PruneSchemas PROVE RetentionInv'
<1>0. /\ DecodingTypes /\ ChangeInv /\ EndpointsRetained /\ queue \in Seq(0..Floor)
      /\ UNCHANGED <<meta, checkpoint, conn, outbox>> /\ queue # <<>> /\ queue' = <<>>
      /\ Floor \in Nat /\ Floor' = Floor
  BY FloorType DEF PruneSchemas, RetentionInv, QueueInv, Floor
<1>1. PICK r : r = queue[Len(queue)]
  OBVIOUS
<1>2. r \in Nat /\ r <= Floor
  <2>0. Len(queue) \in Nat /\ Len(queue) # 0
    BY <1>0, EmptySeq, LenProperties, Zenon
  <2>1. Len(queue) \in Nat \ {0}
    BY <2>0
  <2>2. Len(queue) \in 1..Len(queue)
    BY <2>1
  <2>3. r \in 0..Floor
    BY <1>0, <1>1, <2>2, ElementOfSeq
  <2> QED
    BY <1>0, <2>3
<1>3. stored' = Prune(stored, r) /\ cached' = Prune(cached, r)
  BY <1>1 DEF PruneSchemas
<1>4. Snapshots(stored) /\ Snapshots(cached)
  BY <1>0 DEF DecodingTypes
<1>5. /\ stored' \subseteq stored /\ cached' \subseteq cached
      /\ \A n \in stored : n >= r => n \in stored'
  BY <1>2, <1>3, <1>4, PruneKeeps
<1>6. \A n \in stored : n >= Floor => n \in stored'
  BY <1>0, <1>2, <1>4, <1>5 DEF Snapshots
<1>7. FloorAdvances
  BY <1>0, <1>6 DEF FloorAdvances
<1>8. DecodingTypes'
  BY <1>0, <1>4, <1>5, SnapshotsSub DEF DecodingTypes, ConnTypes
<1>9. ChangeInv'
  BY <1>0 DEF ChangeInv
<1>10. EndpointsRetained'
  <2>1. meta.snap \in Nat /\ meta.previous \in Nat
    BY <1>0 DEF DecodingTypes
  <2>2. meta.snap >= Floor /\ (meta.previous # NoSnapshot => meta.previous >= Floor)
    BY <1>0, <2>1 DEF ChangeInv, Floor
  <2> QED
    BY <1>0, <1>6, <2>2 DEF EndpointsRetained
<1>11. CacheKept'
  BY <1>5, <1>7, KeptStays DEF RetentionInv, CacheKept
<1>12. OutboxKept'
  BY <1>0, <1>7, KeptStays, OutboxMoves DEF RetentionInv
<1>13. QueueInv'
  BY <1>0, EmptySeq DEF QueueInv
<1> QED
  BY <1>8, <1>9, <1>10, <1>11, <1>12, <1>13 DEF RetentionInv

LEMMA ConnectTypes == ASSUME NEW lsn, conn' = Connect(lsn) PROVE ConnTypes'
BY ResumeTxType DEF ConnTypes, Connect

LEMMA ResumeKeeps == ASSUME RetentionInv, Reconnect \/ Restart PROVE RetentionInv'
<1>0. /\ DecodingTypes /\ ChangeInv /\ EndpointsRetained
      /\ meta \in [status : {"applied", "applying", "interrupted"}, snap : Nat, previous : Nat]
      /\ UNCHANGED <<checkpoint, stored>> /\ outbox' = <<>> /\ queue' = <<>>
  BY DEF Reconnect, Restart, Resume, RetentionInv, DecodingTypes
<1>1. ConnTypes'
  BY ConnectTypes DEF Reconnect, Restart, Resume
<1>2. Snapshots(cached') /\ cached' \subseteq cached \cup stored
  <2>1. CASE Reconnect
    BY <1>0, <2>1 DEF Reconnect, DecodingTypes
  <2>2. CASE Restart
    <3>1. cached' = {Max(stored)} /\ Snapshots(stored) /\ stored # {}
      BY <1>0, <2>2 DEF Restart, DecodingTypes, EndpointsRetained
    <3>2. Max(stored) \in stored
      BY <3>1, NewestIn
    <3>3. cached' \subseteq stored
      BY <3>1, <3>2
    <3> QED
      BY <3>1, <3>3, SnapshotsSub
  <2> QED
    BY <2>1, <2>2
<1>3. /\ meta' \in [status : {"applied", "applying", "interrupted"}, snap : Nat, previous : Nat]
      /\ meta'.snap = meta.snap /\ meta'.previous = meta.previous
      /\ meta'.status = "applied" <=> meta.status = "applied"
  BY <1>0 DEF Reconnect, Restart, Resume
<1>4. Floor' = Floor /\ Floor \in Nat
  BY <1>0, <1>3, FloorType DEF Floor
<1>5. DecodingTypes' /\ ChangeInv' /\ EndpointsRetained'
  BY <1>0, <1>1, <1>2, <1>3 DEF DecodingTypes, ChangeInv, EndpointsRetained
<1> QED
  BY <1>0, <1>2, <1>4, <1>5, EndpointsKeep

-----------------------------------------------------------------------------
(* The table the sync worker handed over.                                  *)

LEMMA DdlSnapsBounded ==
    ASSUME wal \in [1..NumTx -> Shapes], NEW from \in Nat, from >= 1, NEW to \in Nat, to <= NumTx
    PROVE  Snapshots({Initial} \cup DdlSnaps(from, to))
<1>0. NumTx \in Nat /\ Shapes \subseteq Seq(Items)
  BY DecodingAssumption
<1>1. PICK b \in Nat : b = NumTx * Width + Width + 1
  BY <1>0, WidthBounds, SnapBounds
<1>2. Initial \in Nat \ {NoSnapshot} /\ Initial <= b
  BY <1>0, <1>1, WidthBounds, SnapBounds DEF Initial
<1>3. ASSUME NEW n \in DdlSnaps(from, to) PROVE n \in Nat \ {NoSnapshot} /\ n <= b
  <2>0. PICK i \in from..to : n \in {Snap(i, j) : j \in {k \in 1..Len(wal[i]) : IsDdl(i, k)}}
    BY <1>3 DEF DdlSnaps
  <2>1. PICK j \in 1..Len(wal[i]) : n = Snap(i, j)
    BY <2>0
  <2>2. i \in 1..NumTx /\ i \in Nat /\ i <= NumTx
    BY <1>0, <2>0
  <2>3. wal[i] \in Shapes
    BY <2>2
  <2>4. Len(wal[i]) \in Nat /\ Len(wal[i]) < Width
    BY <1>0, <2>3, WidthBounds, LenProperties
  <2>5. j \in Nat /\ j < Width
    BY <2>1, <2>4, WidthBounds
  <2> QED
    BY <1>0, <1>1, <2>1, <2>2, <2>5, SnapBounds
<1> QED
  BY <1>1, <1>2, <1>3 DEF Snapshots

LEMMA RetentionStarts == Init => RetentionInv
<1> SUFFICES ASSUME Init PROVE RetentionInv
  OBVIOUS
<1>0. outbox = <<>> /\ queue = <<>> /\ wal \in [1..NumTx -> Shapes] /\ NumTx \in Nat
  BY DecodingAssumption DEF Init
<1>1. PICK c \in 0..NumTx, d \in 0..NumTx, from \in 0..NumTx :
        /\ c <= d
        /\ stored = {Initial} \cup DdlSnaps(c + 1, d)
        /\ cached \subseteq stored
        /\ meta = [status |-> "applied", snap |-> Max(stored), previous |-> NoSnapshot]
        /\ checkpoint = IF from = 0 THEN 0 ELSE EndLsn(from)
        /\ conn = Connect(checkpoint)
  <2>1. PICK c \in 0..NumTx : \E d \in c..NumTx : \E from \in 0..d :
          /\ stored = {Initial} \cup DdlSnaps(c + 1, d)
          /\ cached = {s \in stored : Cardinality({u \in stored : u > s}) < MaxCached}
          /\ meta = [status |-> "applied", snap |-> Max(stored), previous |-> NoSnapshot]
          /\ checkpoint = IF from = 0 THEN 0 ELSE EndLsn(from)
          /\ conn = Connect(checkpoint)
    BY Zenon DEF Init
  <2>2. PICK d \in c..NumTx : \E from \in 0..d :
          /\ stored = {Initial} \cup DdlSnaps(c + 1, d)
          /\ cached = {s \in stored : Cardinality({u \in stored : u > s}) < MaxCached}
          /\ meta = [status |-> "applied", snap |-> Max(stored), previous |-> NoSnapshot]
          /\ checkpoint = IF from = 0 THEN 0 ELSE EndLsn(from)
          /\ conn = Connect(checkpoint)
    BY <2>1
  <2>3. PICK from \in 0..d :
          /\ stored = {Initial} \cup DdlSnaps(c + 1, d)
          /\ cached = {s \in stored : Cardinality({u \in stored : u > s}) < MaxCached}
          /\ meta = [status |-> "applied", snap |-> Max(stored), previous |-> NoSnapshot]
          /\ checkpoint = IF from = 0 THEN 0 ELSE EndLsn(from)
          /\ conn = Connect(checkpoint)
    BY <2>2
  <2>4. cached \subseteq stored
    BY <2>3, Zenon
  <2>5. d \in 0..NumTx /\ from \in 0..NumTx /\ c <= d
    BY <1>0, <2>1, <2>2, <2>3
  <2> QED
    BY <2>1, <2>3, <2>4, <2>5
<1>2. Snapshots(stored) /\ stored # {}
  BY <1>0, <1>1, DdlSnapsBounded
<1>3. Snapshots(cached)
  BY <1>1, <1>2, SnapshotsSub
<1>4. Max(stored) \in stored /\ Max(stored) \in Nat \ {NoSnapshot}
  BY <1>2, NewestIn
<1>5. checkpoint \in Nat
  BY <1>0, <1>1, CommitLsnType
<1>6. ConnTypes
  BY <1>1, ResumeTxType DEF ConnTypes, Connect
<1>7. /\ meta \in [status : {"applied", "applying", "interrupted"}, snap : Nat, previous : Nat]
      /\ meta.status = "applied" /\ meta.snap = Max(stored) /\ meta.previous = NoSnapshot
  BY <1>1, <1>4 DEF NoSnapshot
<1>8. DecodingTypes
  BY <1>2, <1>3, <1>5, <1>6, <1>7 DEF DecodingTypes
<1>9. ChangeInv /\ EndpointsRetained
  BY <1>4, <1>7 DEF ChangeInv, EndpointsRetained, NoSnapshot
<1>10. CacheKept
  BY <1>1, <1>2 DEF CacheKept, Kept, Snapshots
<1>11. OutboxKept
  <2>1. outbox \in Seq({})
    BY <1>0, EmptySeq
  <2> QED
    BY <2>1 DEF OutboxKept
<1>12. QueueInv
  BY <1>0, EmptySeq DEF QueueInv
<1> QED
  BY <1>8, <1>9, <1>10, <1>11, <1>12 DEF RetentionInv

LEMMA RetentionStep == RetentionInv /\ [Next]_vars => RetentionInv'
<1> SUFFICES ASSUME RetentionInv, [Next]_vars PROVE RetentionInv'
  OBVIOUS
<1>1. CASE UNCHANGED vars
  <2>1. UNCHANGED <<stored, cached, meta, checkpoint, conn, outbox, queue>>
    BY <1>1 DEF vars
  <2>2. ConnTypes' /\ OutboxKept'
    BY <2>1, FloorStays, KeptStays, OutboxMoves DEF RetentionInv, DecodingTypes, ConnTypes
  <2> QED
    BY <2>1, <2>2, QuietKeeps DEF RetentionInv, DecodingTypes
<1> QED
  BY <1>1, DdlKeeps, RelationKeeps, RowKeeps, TruncateKeeps, CommitMessageKeeps, InvalidateKeeps,
     ApplyKeeps, RecoverKeeps, WriteKeeps, CompleteKeeps, PruneStepKeeps, ResumeKeeps, Zenon
  DEF Next

(* Cleanup, which runs on its own against a checkpoint that has moved on,  *)
(* never deletes a schema the destination has applied or either endpoint   *)
(* of a change it is in the middle of, through lost connections, restarts  *)
(* and DDL replayed after it was pruned (try_queue_schema_cleanup).        *)
THEOREM CleanupRetainsEndpoints == Spec => []EndpointsRetained
<1>1. RetentionInv => EndpointsRetained
  BY DEF RetentionInv
<1> QED
  BY <1>1, RetentionStarts, RetentionStep, PTL DEF Spec

-----------------------------------------------------------------------------
(* Decoding: the inductive invariant, for commit records that do not touch *)
(* one another.                                                            *)

(* The transactions that end at or before a position. *)
Through(lsn) == lsn \div 2

Points == {0} \cup {EndLsn(k) : k \in 0..NumTx}

(* Where the stream is, and where table sync handed the table over. *)
Position == Snap(conn.tx, conn.item)
SyncedTo == AtLsn(table.lsn)

(* The schemas rows of the apply worker may have: the one handed over and  *)
(* those of later schema messages.  One of them is in force at a position. *)
Schemas == {table.snap} \cup {s \in DdlSnaps(1, NumTx) : s > SyncedTo}
Current(s, p) == s \in Schemas /\ (s < p \/ s = table.snap) /\ \A u \in Schemas : u < p => u <= s

(* The changes of the table before a position, and its version there. *)
Changes(p) ==
    {x \in (1..NumTx) \X (1..Width) : x[2] \in DdlItems(x[1]) /\ Snap(x[1], x[2]) < p}
Version(p) == 1 + Cardinality(Changes(p))

Decoders == [kind : {"none", "pending", "with"}, snap : Nat, mask : Nat]
Events == [type : {"relation", "row", "commit"}, snap : Nat, mask : Nat, version : Nat]

PlaceInv ==
    /\ wal \in [1..NumTx -> Shapes]
    /\ table \in [kind : {"syncdone", "ready"}, lsn : {EndLsn(d) : d \in 0..NumTx},
                  snap : Nat, mask : Nat]
    /\ table.snap <= SyncedTo
    /\ checkpoint \in Points /\ checkpoint <= CommitLsn(conn.tx)
    /\ table.kind = "ready" => table.lsn <= checkpoint
    /\ conn.tx \in 1..NumTx + 1 /\ conn.item \in 1..Width
    /\ conn.tx = NumTx + 1 => conn.item = 1
    /\ conn.tx # NumTx + 1 => conn.item <= Len(wal[conn.tx]) + 1
    /\ conn.sent \in BOOLEAN /\ conn.dec \in Decoders
    /\ conn.bootstrap \in Nat /\ conn.bootstrap < Position
    /\ outbox \in Seq(Events)
    /\ \A i \in 1..Len(outbox) : outbox[i].type = "commit" => outbox[i].snap \in 1..conn.tx - 1

(* Whatever replay may still need is stored: every schema from the one in  *)
(* force at the checkpoint to the one in force here.                       *)
StoredInv ==
    /\ \A s \in stored : s <= table.snap \/ s \in Schemas
    /\ \A s \in Schemas :
          (s < Position \/ s = table.snap) /\ (\A u \in Schemas : u <= AtLsn(checkpoint) => u <= s)
          => s \in stored

(* The cache has no holes where lookups look. *)
ClosedInv ==
    /\ cached \subseteq stored
    /\ \A c \in cached, s \in stored :
          c < s /\ (s < Position \/ s <= table.snap) => s \in cached

(* A cleanup does not outrun the checkpoint. *)
CleanupInv == \A i \in 1..Len(queue) : queue[i] <= AtLsn(checkpoint)

(* A decoder has the schema in force.  Without one, the connection has     *)
(* passed no schema message, and sent nothing to the destination.          *)
DecoderInv ==
    /\ conn.dec.kind # "none" =>
         Owned(CommitLsn(conn.tx)) /\ Current(conn.dec.snap, Position)
    /\ conn.dec.kind = "none" =>
         /\ conn.dec.mask = NoMask
         /\ \A u \in Schemas : u < Position => u <= SyncedTo \/ u <= conn.bootstrap
         /\ table.kind = "ready" => SyncedTo <= conn.bootstrap
         /\ \A i \in 1..Len(outbox) : outbox[i].type = "commit"
         /\ conn.sent => /\ meta.status = "applied" /\ meta.snap = table.snap
                         /\ conn.bootstrap <= SyncedTo

(* The masks of a relation that need not be sent again are those in force. *)
MaskInv ==
    /\ SnapVersion(table.snap) = table.mask /\ table.mask = Version(SyncedTo + 1)
    /\ conn.dec.kind = "with" => conn.dec.mask # NoMask
    /\ conn.sent /\ conn.dec.mask # NoMask => conn.dec.mask = Version(Position)
    /\ conn.sent /\ conn.dec.mask = NoMask =>
         table.kind = "syncdone" /\ Changes(Position) \subseteq Changes(SyncedTo + 1)
    /\ Truncates(conn.tx, conn.item) /\ conn.sent /\ Owned(CommitLsn(conn.tx)) =>
         conn.dec.kind = "with"

(* The destination has, or is on its way to, schema s when it reaches      *)
(* event i.                                                                *)
Announced(i, s) ==
    \/ \E j \in 1..i - 1 :
          /\ outbox[j].type = "relation" /\ outbox[j].snap = s
          /\ \A k \in j + 1..i - 1 : outbox[k].type # "relation"
    \/ /\ \A k \in 1..i - 1 : outbox[k].type # "relation"
       /\ meta.status = "applied" /\ meta.snap = s

AnnounceInv ==
    /\ meta.status = "applying" =>
         outbox # <<>> /\ outbox[1].type = "relation" /\ outbox[1].snap = meta.snap
    /\ \A i \in 1..Len(outbox) : outbox[i].type = "row" => Announced(i, outbox[i].snap)
    /\ conn.dec.kind = "with" => Announced(Len(outbox) + 1, conn.dec.snap)

(* Before the checkpoint reaches the handover, the destination has the     *)
(* schema handed over, and hears of the table only after that commit.      *)
HandoverBefore(i) ==
    \E j \in 1..i : outbox[j].type = "commit" /\ EndLsn(outbox[j].snap) >= table.lsn

EarlyInv ==
    checkpoint + 1 < table.lsn =>
        /\ meta.status = "applied" /\ meta.snap = table.snap
        /\ \A i \in 1..Len(outbox) : outbox[i].type # "commit" => HandoverBefore(i)
        /\ Owned(CommitLsn(conn.tx)) => HandoverBefore(Len(outbox))

DecodeInv ==
    /\ PlaceInv /\ StoredInv /\ ClosedInv /\ CleanupInv /\ DecoderInv /\ MaskInv
    /\ AnnounceInv /\ EarlyInv /\ DecodedInForce

DecodingInv == RetentionInv /\ NoDecodeFailure /\ DecodedInForce /\ (verdict = "ok" => DecodeInv)

-----------------------------------------------------------------------------
(* Positions in the WAL.                                                   *)

LEMMA Products ==
    ASSUME NEW a \in Nat, NEW i \in Nat, a < i, NEW w \in Nat
    PROVE  a * w \in Nat /\ i * w \in Nat /\ a * w + w <= i * w
<1>1. (a + 1) * w <= i * w /\ (a + 1) * w \in Nat
  BY ProductBounds
<1>2. (a + 1) * w = a * w + w
  OBVIOUS
<1> QED
  BY <1>1, <1>2, ProductBounds

(* Items are ordered by transaction, then by place. *)
LEMMA SnapOrder ==
    ASSUME NEW a \in Nat, NEW k \in Nat, 1 <= k, k < Width,
           NEW i \in Nat, NEW j \in Nat, j <= Width
    PROVE  /\ a < i => Snap(a, k) < Snap(i, j)
           /\ a = i => Snap(a, k) - Snap(i, j) = k - j
           /\ i < a => Snap(i, j) < Snap(a, k)
           /\ Snap(a, k) \in Nat /\ Snap(i, j) \in Nat
<1>0. Width \in Nat
  BY WidthBounds
<1>1. PICK w \in Nat : w = Width
  BY <1>0
<1>2. PICK p \in Nat : p = a * w
  BY ProductBounds
<1>3. PICK q \in Nat : q = i * w
  BY ProductBounds
<1>4. Snap(a, k) = p + k + 1 /\ Snap(i, j) = q + j + 1 /\ k < w /\ j <= w
  BY <1>1, <1>2, <1>3 DEF Snap
<1>5. a < i => p + w <= q
  BY <1>2, <1>3, Products
<1>6. i < a => q + w <= p
  BY <1>2, <1>3, Products
<1>7. a = i => p = q
  BY <1>2, <1>3
<1> QED
  BY <1>4, <1>5, <1>6, <1>7

LEMMA ThroughIs ==
    ASSUME NEW lsn \in Points, ~ Adjacent
    PROVE  /\ Through(lsn) \in 0..NumTx /\ lsn \in Nat
           /\ \A i \in Nat : CommitLsn(i) <= lsn <=> i <= Through(lsn)
           /\ \A i \in Nat : lsn <= CommitLsn(i) <=> (Through(lsn) < i \/ lsn = 0)
           /\ lsn # 0 => lsn = 2 * Through(lsn) + 1
<1>1. CASE lsn = 0
  BY <1>1, DecodingAssumption DEF Through, CommitLsn
<1>2. CASE \E k \in 0..NumTx : lsn = EndLsn(k)
  <2>1. PICK k \in 0..NumTx : lsn = 2 * k + 1
    BY <1>2 DEF EndLsn, CommitLsn
  <2>2. k \in Nat /\ Through(lsn) = k
    BY <2>1, DecodingAssumption DEF Through
  <2> QED
    BY <2>1, <2>2 DEF CommitLsn
<1> QED
  BY <1>1, <1>2 DEF Points

LEMMA AtLsnIs ==
    ASSUME NEW lsn \in Points, ~ Adjacent
    PROVE  AtLsn(lsn) = (Through(lsn) + 1) * Width /\ AtLsn(lsn) \in Nat
<1> DEFINE K == {k \in 0..NumTx : CommitLsn(k) <= lsn}
           A == {(i + 1) * Width : i \in K}
           t == Through(lsn)
<1>0. Width \in Nat /\ NumTx \in Nat
  BY WidthBounds, DecodingAssumption
<1>1. t \in 0..NumTx /\ t \in Nat /\ K = 0..t
  <2>1. t \in 0..NumTx /\ \A i \in Nat : CommitLsn(i) <= lsn <=> i <= t
    BY ThroughIs
  <2> HIDE DEF t
  <2> QED
    BY <1>0, <2>1
<1> HIDE DEF t, K
<1>2. PICK b \in Nat : b = (t + 1) * Width
  BY <1>0, <1>1, ProductBounds
<1>3. \A i \in K : (i + 1) * Width \in Nat /\ (i + 1) * Width <= b
  <2>1. SUFFICES ASSUME NEW i \in K PROVE (i + 1) * Width \in Nat /\ (i + 1) * Width <= b
    OBVIOUS
  <2>2. i + 1 \in Nat /\ t + 1 \in Nat /\ i + 1 <= t + 1
    BY <1>1
  <2> QED
    BY <1>0, <1>2, <2>2, ProductBounds
<1>4. A \subseteq Nat /\ b \in A /\ \A a \in A : a <= b
  <2>1. t \in K
    BY <1>1
  <2> QED
    BY <1>2, <1>3, <2>1
<1>5. AtLsn(lsn) = Max(A)
  BY DEF AtLsn, K
<1> HIDE DEF A
<1>6. Max(A) \in A /\ \A a \in A : Max(A) >= a
  BY <1>2, <1>4, MaxIsGreatest
<1>7. Max(A) = b
  <2>1. PICK m : m = Max(A)
    OBVIOUS
  <2>2. m \in Nat /\ m <= b /\ m >= b
    BY <1>4, <1>6, <2>1
  <2> QED
    BY <2>1, <2>2
<1> QED
  BY <1>2, <1>5, <1>7 DEF t

LEMMA ResumeTxIs ==
    ASSUME NEW lsn \in Points, ~ Adjacent
    PROVE  ResumeTx(lsn) = Through(lsn) + 1
<1> DEFINE I == {i \in 1..NumTx + 1 : i = NumTx + 1 \/ CommitLsn(i) >= lsn}
<1>0. PICK t : t = Through(lsn)
  OBVIOUS
<1>1. /\ t \in Nat /\ t <= NumTx /\ lsn \in Nat /\ NumTx \in Nat
      /\ \A i \in Nat : lsn <= CommitLsn(i) <=> (t < i \/ lsn = 0)
  BY <1>0, ThroughIs, DecodingAssumption
<1>2. lsn = 0 => t = 0
  BY <1>0 DEF Through
<1>3. \A i \in Nat : CommitLsn(i) \in Nat
  BY CommitLsnType
<1>4. I \subseteq Nat /\ t + 1 \in I /\ \A i \in I : t + 1 <= i
  BY <1>1, <1>2, <1>3
<1>5. ResumeTx(lsn) = Min(I)
  BY DEF ResumeTx
<1> HIDE DEF I
<1>6. Min(I) \in I /\ \A i \in I : Min(I) <= i
  BY <1>4, MinIsLeast
<1>7. PICK m : m = Min(I)
  OBVIOUS
<1>8. m \in Nat /\ m <= t + 1 /\ t + 1 <= m
  BY <1>1, <1>4, <1>6, <1>7
<1> QED
  BY <1>0, <1>1, <1>5, <1>7, <1>8

(* What a position covers. *)
LEMMA AtLsnCovers ==
    ASSUME NEW lsn \in Points, ~ Adjacent, NEW i \in Nat, NEW j \in Nat, 1 <= j, j <= Width
    PROVE  /\ i <= Through(lsn) => Snap(i, j) <= AtLsn(lsn) + 1
           /\ i <= Through(lsn) /\ j < Width => Snap(i, j) <= AtLsn(lsn)
           /\ Through(lsn) < i => AtLsn(lsn) + 1 < Snap(i, j)
<1>0. Width \in Nat
  BY WidthBounds
<1>1. PICK t \in Nat : t = Through(lsn)
  BY ThroughIs, DecodingAssumption
<1>2. PICK w \in Nat : w = Width
  BY <1>0
<1>3. PICK p \in Nat : p = i * w
  BY ProductBounds
<1>4. PICK q \in Nat : q = (t + 1) * w
  BY ProductBounds
<1>5. Snap(i, j) = p + j + 1 /\ AtLsn(lsn) = q
  BY <1>1, <1>2, <1>3, <1>4, AtLsnIs DEF Snap
<1>6. i <= t => p + w <= q
  BY <1>3, <1>4, Products
<1>7. t < i => q <= p
  BY <1>3, <1>4, ProductBounds
<1> QED
  BY <1>1, <1>2, <1>5, <1>6, <1>7

LEMMA AtLsnRises ==
    ASSUME NEW l \in Points, NEW m \in Points, ~ Adjacent, l <= m
    PROVE  AtLsn(l) <= AtLsn(m) /\ AtLsn(l) \in Nat /\ AtLsn(m) \in Nat
<1>1. Through(l) \in Nat /\ Through(m) \in Nat /\ l \in Nat /\ m \in Nat
  BY ThroughIs, DecodingAssumption
<1>2. Through(l) <= Through(m)
  <2>1. l # 0 => l = 2 * Through(l) + 1
    BY ThroughIs
  <2>2. m # 0 => m = 2 * Through(m) + 1
    BY ThroughIs
  <2>3. l = 0 => Through(l) = 0
    BY DEF Through
  <2> QED
    BY <1>1, <2>1, <2>2, <2>3
<1>3. (Through(l) + 1) * Width <= (Through(m) + 1) * Width
  BY <1>1, <1>2, WidthBounds, ProductBounds
<1> QED
  BY <1>3, AtLsnIs

(* A snapshot identifies its item. *)
LEMMA SnapParts ==
    ASSUME NEW i \in Nat, NEW j \in Nat, j < Width
    PROVE  (Snap(i, j) - 1) \div Width = i /\ (Snap(i, j) - 1) % Width = j
<1>0. PICK w \in Nat \ {0} : w = Width
  BY WidthBounds
<1>1. PICK p \in Nat : p = i * w
  BY <1>0, ProductBounds
<1>2. Snap(i, j) - 1 = p + j
  BY <1>0, <1>1 DEF Snap
<1>3. PICK n \in Nat : n = p + j
  BY <1>1
<1>4. PICK q \in Nat, r \in Nat : q = n \div w /\ r = n % w /\ r < w /\ n = q * w + r
  BY <1>0, <1>3
<1>5. q * w \in Nat
  BY <1>0, <1>4, ProductBounds
<1>6. PICK z \in Nat : z = q * w
  BY <1>5
<1>7. q < i => z + w <= p
  BY <1>0, <1>1, <1>4, <1>6, Products
<1>8. i < q => p + w <= z
  BY <1>0, <1>1, <1>4, <1>6, Products
<1>9. q = i => z = p
  BY <1>1, <1>6
<1>10. q = i
  BY <1>0, <1>3, <1>4, <1>6, <1>7, <1>8
<1>11. r = j
  BY <1>1, <1>3, <1>4, <1>6, <1>9, <1>10
<1> QED
  BY <1>0, <1>2, <1>3, <1>4, <1>10, <1>11

-----------------------------------------------------------------------------
(* Schema messages and versions of the table.                              *)

WalTyped == wal \in [1..NumTx -> Shapes]

LEMMA WalItem ==
    ASSUME WalTyped, NEW i \in 1..NumTx
    PROVE  i \in Nat /\ wal[i] \in Seq(Items) /\ Len(wal[i]) \in Nat /\ Len(wal[i]) < Width
<1>1. wal[i] \in Shapes /\ Shapes \subseteq Seq(Items)
  BY DecodingAssumption DEF WalTyped
<1>2. wal[i] \in Seq(Items)
  BY <1>1
<1> QED
  BY <1>1, <1>2, WidthBounds, LenProperties

LEMMA DdlSnapIs ==
    ASSUME NEW a, NEW b, NEW s
    PROVE  s \in DdlSnaps(a, b) <=>
               \E i \in a..b : \E j \in 1..Len(wal[i]) : IsDdl(i, j) /\ s = Snap(i, j)
BY DEF DdlSnaps

LEMMA DdlSnapItem ==
    ASSUME WalTyped, NEW s \in DdlSnaps(1, NumTx)
    PROVE  \E i \in 1..NumTx, j \in Nat :
              i \in Nat /\ 1 <= j /\ j <= Len(wal[i]) /\ j < Width /\ IsDdl(i, j) /\ s = Snap(i, j)
<1>1. PICK i \in 1..NumTx : \E j \in 1..Len(wal[i]) : IsDdl(i, j) /\ s = Snap(i, j)
  BY DdlSnapIs
<1>2. PICK j \in 1..Len(wal[i]) : IsDdl(i, j) /\ s = Snap(i, j)
  BY <1>1
<1>3. i \in Nat /\ Len(wal[i]) \in Nat /\ Len(wal[i]) < Width /\ Width \in Nat
  BY WalItem, WidthBounds
<1> QED
  BY <1>2, <1>3

LEMMA ChangeItem ==
    ASSUME WalTyped, NEW i \in 1..NumTx, NEW k
    PROVE  k \in DdlItems(i) <=> /\ k \in Nat /\ 1 <= k /\ k <= Len(wal[i]) /\ k < Width
                                 /\ wal[i][k] = "ddl"
<1>1. Len(wal[i]) \in Nat /\ Len(wal[i]) < Width /\ Width \in Nat
  BY WalItem, WidthBounds
<1> QED
  BY <1>1 DEF DdlItems

LEMMA ChangeIs ==
    ASSUME WalTyped, NEW p, NEW x
    PROVE  x \in Changes(p) <=>
               \E i \in 1..NumTx : \E k \in DdlItems(i) : x = <<i, k>> /\ Snap(i, k) < p
<1>1. ASSUME NEW i \in 1..NumTx, NEW k \in DdlItems(i) PROVE k \in 1..Width
  BY <1>1, ChangeItem, WidthBounds
<1>2. ASSUME x \in Changes(p) PROVE \E i \in 1..NumTx : \E k \in DdlItems(i) : x = <<i, k>> /\ Snap(i, k) < p
  BY <1>2 DEF Changes
<1>3. ASSUME NEW i \in 1..NumTx, NEW k \in DdlItems(i), x = <<i, k>>, Snap(i, k) < p
      PROVE  x \in Changes(p)
  BY <1>1, <1>3 DEF Changes
<1> QED
  BY <1>2, <1>3

LEMMA ChangesFinite == \A p : IsFiniteSet(Changes(p))
<1>1. IsFiniteSet(1..NumTx) /\ IsFiniteSet(1..Width)
  BY DecodingAssumption, WidthBounds, FS_Interval
<1>2. IsFiniteSet((1..NumTx) \X (1..Width))
  BY <1>1, FS_Product
<1>3. \A p : Changes(p) \subseteq (1..NumTx) \X (1..Width)
  BY DEF Changes
<1> QED
  BY <1>2, <1>3, FS_Subset

LEMMA VersionType == \A p : Version(p) \in Nat \ {NoMask}
<1>1. \A p : Cardinality(Changes(p)) \in Nat
  BY ChangesFinite, FS_CardinalityType
<1> QED
  BY <1>1 DEF Version, NoMask

(* The order of items against a position. *)
LEMMA ItemBefore ==
    ASSUME WalTyped, NEW a \in 1..NumTx, NEW k \in Nat, 1 <= k, k <= Len(wal[a]),
           NEW i \in Nat, NEW j \in Nat, j <= Width
    PROVE  Snap(a, k) < Snap(i, j) <=> a < i \/ (a = i /\ k < j)
<1>1. a \in Nat /\ k < Width
  BY WalItem, WidthBounds
<1>2. /\ a < i => Snap(a, k) < Snap(i, j)
      /\ a = i => Snap(a, k) - Snap(i, j) = k - j
      /\ i < a => Snap(i, j) < Snap(a, k)
      /\ Snap(a, k) \in Nat /\ Snap(i, j) \in Nat
  BY <1>1, SnapOrder
<1>3. PICK p \in Nat, q \in Nat : p = Snap(a, k) /\ q = Snap(i, j)
  BY <1>2
<1> QED
  BY <1>1, <1>2, <1>3

(* A position that no schema message, or no change, lies between. *)
LEMMA SnapNext ==
    ASSUME NEW i \in Nat, NEW j \in Nat
    PROVE  Snap(i, j + 1) = Snap(i, j) + 1 /\ Snap(i, j) \in Nat
<1>1. i * Width \in Nat
  BY WidthBounds, ProductBounds
<1>2. PICK p \in Nat : p = i * Width
  BY <1>1
<1> QED
  BY <1>2 DEF Snap

LEMMA PassItem ==
    ASSUME WalTyped, NEW i \in 1..NumTx, NEW j \in Nat, 1 <= j, j <= Len(wal[i])
    PROVE  /\ ~ IsDdl(i, j) => \A u \in DdlSnaps(1, NumTx) : u < Snap(i, j + 1) => u < Snap(i, j)
           /\ wal[i][j] # "ddl" => Changes(Snap(i, j + 1)) = Changes(Snap(i, j))
<1>0. i \in Nat /\ Len(wal[i]) \in Nat /\ j + 1 <= Width /\ j <= Width
  BY WalItem, WidthBounds
<1>1. ASSUME NEW a \in 1..NumTx, NEW k \in Nat, 1 <= k, k <= Len(wal[a]),
             Snap(a, k) < Snap(i, j + 1), ~ (a = i /\ k = j)
      PROVE  Snap(a, k) < Snap(i, j)
  <2>1. a < i \/ (a = i /\ k < j + 1)
    BY <1>0, <1>1, ItemBefore
  <2>2. a < i \/ (a = i /\ k < j)
    BY <1>1, <2>1
  <2> QED
    BY <1>0, <1>1, <2>2, ItemBefore
<1>2. ASSUME ~ IsDdl(i, j), NEW u \in DdlSnaps(1, NumTx), u < Snap(i, j + 1) PROVE u < Snap(i, j)
  <2>1. PICK a \in 1..NumTx, k \in Nat : 1 <= k /\ k <= Len(wal[a]) /\ IsDdl(a, k) /\ u = Snap(a, k)
    BY DdlSnapItem
  <2> QED
    BY <1>1, <1>2, <2>1
<1>3. ASSUME wal[i][j] # "ddl", NEW x \in Changes(Snap(i, j + 1)) PROVE x \in Changes(Snap(i, j))
  <2>10. PICK a \in 1..NumTx : \E k \in DdlItems(a) : x = <<a, k>> /\ Snap(a, k) < Snap(i, j + 1)
    BY <1>3, ChangeIs
  <2>1. PICK k \in DdlItems(a) : x = <<a, k>> /\ Snap(a, k) < Snap(i, j + 1)
    BY <2>10
  <2>2. k \in Nat /\ 1 <= k /\ k <= Len(wal[a]) /\ wal[a][k] = "ddl"
    BY <2>1, ChangeItem
  <2>3. Snap(a, k) < Snap(i, j)
    BY <1>1, <1>3, <2>1, <2>2
  <2> QED
    BY <2>1, <2>3, ChangeIs
<1>4. ASSUME NEW x \in Changes(Snap(i, j)) PROVE x \in Changes(Snap(i, j + 1))
  <2>10. PICK a \in 1..NumTx : \E k \in DdlItems(a) : x = <<a, k>> /\ Snap(a, k) < Snap(i, j)
    BY <1>4, ChangeIs
  <2>1. PICK k \in DdlItems(a) : x = <<a, k>> /\ Snap(a, k) < Snap(i, j)
    BY <2>10
  <2>2. k \in Nat /\ 1 <= k /\ k <= Len(wal[a])
    BY <2>1, ChangeItem
  <2>3. Snap(a, k) < Snap(i, j + 1)
    <3>1. a < i \/ (a = i /\ k < j)
      BY <1>0, <2>1, <2>2, ItemBefore
    <3>2. a < i \/ (a = i /\ k < j + 1)
      BY <2>2, <3>1
    <3> QED
      BY <1>0, <2>2, <3>2, ItemBefore
  <2> QED
    BY <2>1, <2>3, ChangeIs
<1> QED
  BY <1>2, <1>3, <1>4

LEMMA PassCommit ==
    ASSUME WalTyped, NEW i \in 1..NumTx, NEW j \in Nat, Len(wal[i]) < j, j <= Width
    PROVE  /\ \A u \in DdlSnaps(1, NumTx) : u < Snap(i + 1, 1) => u < Snap(i, j)
           /\ Changes(Snap(i + 1, 1)) = Changes(Snap(i, j))
<1>0. i \in Nat /\ i + 1 \in Nat /\ Len(wal[i]) \in Nat /\ 1 <= Width /\ Width \in Nat
  BY WalItem, WidthBounds
<1>1. ASSUME NEW a \in 1..NumTx, NEW k \in Nat, 1 <= k, k <= Len(wal[a])
      PROVE  Snap(a, k) < Snap(i + 1, 1) <=> Snap(a, k) < Snap(i, j)
  <2>1. Snap(a, k) < Snap(i + 1, 1) <=> a < i + 1 \/ (a = i + 1 /\ k < 1)
    BY <1>0, <1>1, ItemBefore
  <2>2. Snap(a, k) < Snap(i, j) <=> a < i \/ (a = i /\ k < j)
    BY <1>0, <1>1, ItemBefore
  <2>3. a = i => k < j
    BY <1>0, <1>1
  <2> QED
    BY <1>0, <1>1, <2>1, <2>2, <2>3
<1>2. ASSUME NEW u \in DdlSnaps(1, NumTx), u < Snap(i + 1, 1) PROVE u < Snap(i, j)
  <2>1. PICK a \in 1..NumTx, k \in Nat : 1 <= k /\ k <= Len(wal[a]) /\ u = Snap(a, k)
    BY DdlSnapItem
  <2> QED
    BY <1>1, <1>2, <2>1
<1>3. ASSUME NEW x PROVE x \in Changes(Snap(i + 1, 1)) <=> x \in Changes(Snap(i, j))
  <2>1. \A a \in 1..NumTx : \A k \in DdlItems(a) : Snap(a, k) < Snap(i + 1, 1) <=> Snap(a, k) < Snap(i, j)
    BY <1>1, ChangeItem
  <2> QED
    BY <2>1, ChangeIs
<1> QED
  BY <1>2, <1>3

LEMMA VersionAfterIs ==
    ASSUME WalTyped, NEW n \in Nat, n <= NumTx
    PROVE  VersionAfterTx(n) = Version(Snap(n + 1, 0))
<1> DEFINE U == UNION {{i} \X DdlItems(i) : i \in 1..n}
<1>0. NumTx \in Nat /\ n + 1 \in Nat /\ 0 <= Width /\ 0 \in Nat
  BY DecodingAssumption, WidthBounds
<1>1. ASSUME NEW x PROVE x \in U <=> x \in Changes(Snap(n + 1, 0))
  <2>1. \A a \in 1..NumTx : \A k \in DdlItems(a) : Snap(a, k) < Snap(n + 1, 0) <=> a <= n
    <3>1. SUFFICES ASSUME NEW a \in 1..NumTx, NEW k \in DdlItems(a)
                   PROVE  Snap(a, k) < Snap(n + 1, 0) <=> a <= n
      OBVIOUS
    <3>2. k \in Nat /\ 1 <= k /\ k <= Len(wal[a])
      BY ChangeItem
    <3>3. Snap(a, k) < Snap(n + 1, 0) <=> a < n + 1 \/ (a = n + 1 /\ k < 0)
      BY <1>0, <3>2, ItemBefore
    <3> QED
      BY <1>0, <3>2, <3>3
  <2>2. x \in U <=> \E i \in 1..n : \E k \in DdlItems(i) : x = <<i, k>>
    OBVIOUS
  <2>3. \A i : i \in 1..n <=> i \in 1..NumTx /\ i <= n
    BY <1>0
  <2> QED
    BY <2>1, <2>2, <2>3, ChangeIs
<1>2. U = Changes(Snap(n + 1, 0))
  BY <1>1
<1> QED
  BY <1>2 DEF VersionAfterTx, Version

LEMMA VersionAtIs ==
    ASSUME WalTyped, NEW i \in 1..NumTx, NEW j \in Nat, j < Width
    PROVE  VersionAt(i, j) = Version(Snap(i, j) + 1)
<1> DEFINE T == {k \in DdlItems(i) : k <= j}
           A == Changes(Snap(i, 0))
           B == {i} \X T
           C == Changes(Snap(i, j) + 1)
<1>0. NumTx \in Nat /\ i \in Nat /\ i - 1 \in Nat /\ i - 1 <= NumTx /\ (i - 1) + 1 = i /\ Width \in Nat
  BY DecodingAssumption, WidthBounds
<1>1. VersionAfterTx(i - 1) = Version(Snap(i, 0))
  BY <1>0, VersionAfterIs
<1>2. IsFiniteSet(T)
  <2>1. Len(wal[i]) \in Nat
    BY WalItem
  <2>2. IsFiniteSet(1..Len(wal[i]))
    BY <2>1, FS_Interval
  <2>3. T \subseteq 1..Len(wal[i])
    BY DEF DdlItems
  <2> QED
    BY <2>2, <2>3, FS_Subset
<1>3. IsFiniteSet(B) /\ Cardinality(B) = Cardinality(T)
  <2>1. IsFiniteSet({i}) /\ Cardinality({i}) = 1
    BY FS_Singleton
  <2>2. IsFiniteSet(B) /\ Cardinality(B) = Cardinality({i}) * Cardinality(T)
    <3> HIDE DEF T
    <3> QED
      BY <1>2, <2>1, FS_Product
  <2>3. Cardinality(T) \in Nat
    BY <1>2, FS_CardinalityType
  <2> HIDE DEF T, B
  <2> QED
    BY <2>1, <2>2, <2>3
<1>4. \A a \in 1..NumTx : \A k \in DdlItems(a) :
        /\ Snap(a, k) < Snap(i, 0) <=> a < i
        /\ Snap(a, k) < Snap(i, j) + 1 <=> a < i \/ (a = i /\ k <= j)
  <2>1. SUFFICES ASSUME NEW a \in 1..NumTx, NEW k \in DdlItems(a)
                 PROVE  /\ Snap(a, k) < Snap(i, 0) <=> a < i
                        /\ Snap(a, k) < Snap(i, j) + 1 <=> a < i \/ (a = i /\ k <= j)
    OBVIOUS
  <2>2. k \in Nat /\ 1 <= k /\ k <= Len(wal[a])
    BY ChangeItem
  <2>3. Snap(a, k) < Snap(i, 0) <=> a < i \/ (a = i /\ k < 0)
    BY <1>0, <2>2, ItemBefore
  <2>4. Snap(a, k) < Snap(i, j + 1) <=> a < i \/ (a = i /\ k < j + 1)
    BY <1>0, <2>2, ItemBefore
  <2>5. Snap(i, j + 1) = Snap(i, j) + 1
    BY <1>0, SnapNext
  <2> QED
    BY <1>0, <2>2, <2>3, <2>4, <2>5
<1>5. C = A \cup B
  <2>1. ASSUME NEW x PROVE x \in C <=> x \in A \/ x \in B
    <3>1. x \in C <=> \E a \in 1..NumTx : \E k \in DdlItems(a) : x = <<a, k>> /\ (a < i \/ (a = i /\ k <= j))
      BY <1>4, ChangeIs
    <3>2. x \in A <=> \E a \in 1..NumTx : \E k \in DdlItems(a) : x = <<a, k>> /\ a < i
      BY <1>4, ChangeIs
    <3>3. x \in B <=> \E k \in DdlItems(i) : x = <<i, k>> /\ k <= j
      OBVIOUS
    <3> HIDE DEF A, B, C
    <3> QED
      BY <3>1, <3>2, <3>3
  <2> HIDE DEF A, B, C
  <2> QED
    BY <2>1
<1>6. A \cap B = {}
  <2>1. ASSUME NEW x \in A, x \in B PROVE FALSE
    <3>10. PICK a \in 1..NumTx : \E k \in DdlItems(a) : x = <<a, k>> /\ Snap(a, k) < Snap(i, 0)
      BY <2>1, ChangeIs
    <3>1. PICK k \in DdlItems(a) : x = <<a, k>> /\ Snap(a, k) < Snap(i, 0)
      BY <3>10
    <3>2. a < i
      BY <1>4, <3>1
    <3>3. a = i
      BY <2>1, <3>1
    <3> QED
      BY <1>0, <3>2, <3>3
  <2> QED
    BY <2>1
<1>7. IsFiniteSet(A)
  BY ChangesFinite
<1> HIDE DEF A, B, C, T
<1>8. Cardinality(C) = Cardinality(A) + Cardinality(B) - Cardinality(A \cap B)
  BY <1>3, <1>5, <1>7, FS_Union
<1>9. Cardinality(A \cap B) = 0 /\ Cardinality(A) \in Nat /\ Cardinality(B) \in Nat
  BY <1>3, <1>6, <1>7, FS_EmptySet, FS_CardinalityType
<1>10. Cardinality(C) = Cardinality(A) + Cardinality(T) /\ Cardinality(T) \in Nat
  BY <1>3, <1>8, <1>9
<1>11. VersionAt(i, j) = VersionAfterTx(i - 1) + Cardinality(T)
  BY DEF VersionAt, T
<1>12. VersionAfterTx(i - 1) = 1 + Cardinality(A)
  BY <1>1 DEF Version, A
<1>13. Version(Snap(i, j) + 1) = 1 + Cardinality(C)
  BY DEF Version, C
<1> QED
  BY <1>9, <1>10, <1>11, <1>12, <1>13

-----------------------------------------------------------------------------
(* Where the stream is, and the schema in force there.                     *)

LEMMA PlaceFacts ==
    ASSUME PlaceInv, ~ Adjacent
    PROVE  /\ WalTyped /\ NumTx \in Nat /\ Width \in Nat
           /\ table.lsn \in Points /\ table.lsn \in Nat /\ table.lsn # 0 /\ SyncedTo \in Nat
           /\ checkpoint \in Points /\ checkpoint \in Nat /\ AtLsn(checkpoint) \in Nat
           /\ conn.tx \in Nat /\ 1 <= conn.tx /\ conn.tx <= NumTx + 1
           /\ conn.item \in Nat /\ 1 <= conn.item /\ conn.item <= Width
           /\ Position \in Nat /\ table.snap \in Nat /\ Through(table.lsn) \in Nat
           /\ Through(table.lsn) <= NumTx
<1>1. table.lsn \in Points /\ table.lsn # 0
  <2>1. PICK d \in 0..NumTx : table.lsn = EndLsn(d)
    BY DEF PlaceInv
  <2>0. d \in Nat
    BY <2>1, DecodingAssumption
  <2>2. CommitLsn(d) \in Nat
    BY <2>0, CommitLsnType
  <2>3. table.lsn # 0
    BY <2>1, <2>2 DEF EndLsn
  <2>4. table.lsn \in Points
    BY <2>1 DEF Points
  <2> QED
    BY <2>3, <2>4
<1>2. checkpoint \in Points
  BY DEF PlaceInv
<1>3. NumTx \in Nat /\ Width \in Nat
  BY DecodingAssumption, WidthBounds
<1>4. /\ conn.tx \in Nat /\ 1 <= conn.tx /\ conn.tx <= NumTx + 1
      /\ conn.item \in Nat /\ 1 <= conn.item /\ conn.item <= Width
  BY <1>3 DEF PlaceInv
<1>5. Position \in Nat
  BY <1>4, SnapType DEF Position
<1>6. SyncedTo \in Nat /\ AtLsn(checkpoint) \in Nat
  BY <1>1, <1>2, AtLsnIs DEF SyncedTo
<1>7. table.lsn \in Nat /\ checkpoint \in Nat /\ Through(table.lsn) \in 0..NumTx
  BY <1>1, <1>2, ThroughIs
<1> QED
  BY <1>1, <1>2, <1>3, <1>4, <1>5, <1>6, <1>7 DEF PlaceInv, WalTyped

LEMMA OwnedIs ==
    ASSUME PlaceInv, ~ Adjacent
    PROVE  /\ Owned(CommitLsn(conn.tx)) <=> Through(table.lsn) < conn.tx
           /\ Owned(CommitLsn(conn.tx)) <=> table.lsn <= CommitLsn(conn.tx)
           /\ Owned(CommitLsn(conn.tx)) => SyncedTo + 1 < Position
           /\ ~ Owned(CommitLsn(conn.tx)) =>
                 /\ Position <= SyncedTo + 1 /\ checkpoint + 1 < table.lsn
                 /\ table.kind = "syncdone" /\ (conn.item < Width => Position <= SyncedTo)
           /\ AtLsn(checkpoint) + 1 < Position
           /\ Through(checkpoint) < conn.tx
<1>0. /\ table.lsn \in Points /\ checkpoint \in Points /\ table.lsn \in Nat /\ checkpoint \in Nat
      /\ table.lsn # 0 /\ conn.tx \in Nat /\ conn.item \in Nat /\ 1 <= conn.tx
      /\ 1 <= conn.item /\ conn.item <= Width /\ Through(table.lsn) \in Nat
      /\ CommitLsn(conn.tx) \in Nat
  BY PlaceFacts, CommitLsnType
<1>1. table.lsn <= CommitLsn(conn.tx) <=> Through(table.lsn) < conn.tx
  BY <1>0, ThroughIs
<1>2. Owned(CommitLsn(conn.tx)) <=> table.lsn <= CommitLsn(conn.tx)
  <2>1. checkpoint <= CommitLsn(conn.tx) /\ (table.kind = "ready" => table.lsn <= checkpoint)
    BY DEF PlaceInv
  <2> QED
    BY <1>0, <2>1 DEF Owned
<1>3. Owned(CommitLsn(conn.tx)) => SyncedTo + 1 < Position
  BY <1>0, <1>1, <1>2, AtLsnCovers DEF SyncedTo, Position
<1>4. ~ Owned(CommitLsn(conn.tx)) => Position <= SyncedTo + 1 /\ (conn.item < Width => Position <= SyncedTo)
  BY <1>0, <1>1, <1>2, AtLsnCovers DEF SyncedTo, Position
<1>5. Through(checkpoint) < conn.tx /\ Through(checkpoint) \in Nat
  <2>1. Through(checkpoint) \in 0..NumTx
        /\ (checkpoint <= CommitLsn(conn.tx) <=> (Through(checkpoint) < conn.tx \/ checkpoint = 0))
    BY <1>0, ThroughIs
  <2>2. checkpoint = 0 => Through(checkpoint) = 0
    BY DEF Through
  <2> QED
    BY <1>0, <2>1, <2>2 DEF PlaceInv
<1>6. AtLsn(checkpoint) + 1 < Position
  BY <1>0, <1>5, AtLsnCovers DEF Position
<1>7. ~ Owned(CommitLsn(conn.tx)) => checkpoint + 1 < table.lsn
  <2>1. table.lsn = 2 * Through(table.lsn) + 1
    BY <1>0, ThroughIs
  <2>2. CommitLsn(conn.tx) = 2 * conn.tx
    BY DEF CommitLsn
  <2>3. checkpoint # 0 => checkpoint = 2 * Through(checkpoint) + 1
    BY <1>0, ThroughIs
  <2> QED
    BY <1>0, <1>1, <1>2, <1>5, <2>1, <2>2, <2>3
<1>8. ~ Owned(CommitLsn(conn.tx)) => table.kind = "syncdone"
  BY DEF Owned, PlaceInv
<1> QED
  BY <1>1, <1>2, <1>3, <1>4, <1>5, <1>6, <1>7, <1>8

LEMMA SchemaFacts ==
    ASSUME PlaceInv, ~ Adjacent
    PROVE  /\ Schemas \subseteq Nat /\ table.snap \in Schemas
           /\ \A u \in Schemas : table.snap <= u
           /\ \A u \in Schemas : u = table.snap \/ (u \in DdlSnaps(1, NumTx) /\ SyncedTo < u)
           /\ table.snap <= SyncedTo
<1>0. WalTyped /\ SyncedTo \in Nat /\ table.snap \in Nat /\ table.snap <= SyncedTo
  BY PlaceFacts DEF PlaceInv
<1>1. DdlSnaps(1, NumTx) \subseteq Nat
  <2>1. SUFFICES ASSUME NEW s \in DdlSnaps(1, NumTx) PROVE s \in Nat
    OBVIOUS
  <2>2. PICK i \in 1..NumTx, j \in Nat : i \in Nat /\ s = Snap(i, j)
    BY <1>0, DdlSnapItem
  <2> QED
    BY <2>2, SnapType
<1> QED
  BY <1>0, <1>1 DEF Schemas

LEMMA CurrentExists ==
    ASSUME PlaceInv, ~ Adjacent
    PROVE  \E x : Current(x, Position)
<1> DEFINE S == {s \in Schemas : s < Position \/ s = table.snap}
<1>0. Position \in Nat /\ table.snap \in Nat /\ Schemas \subseteq Nat /\ table.snap \in Schemas
      /\ \A u \in Schemas : table.snap <= u
  BY PlaceFacts, SchemaFacts
<1>1. PICK b \in Nat : Position <= b /\ table.snap <= b
  BY <1>0
<1>2. S \subseteq Nat /\ S # {} /\ \A s \in S : s <= b
  <2>1. table.snap \in S
    BY <1>0
  <2>2. ASSUME NEW s \in S PROVE s \in Nat /\ s <= b
    BY <1>0, <1>1
  <2> HIDE DEF S
  <2> QED
    BY <2>1, <2>2
<1>3. PICK m \in S : \A s \in S : m >= s
  <2> HIDE DEF S
  <2> QED
    BY <1>1, <1>2, GreatestElement
<1>4. m \in Schemas /\ (m < Position \/ m = table.snap) /\ \A u \in Schemas : u < Position => u <= m
  BY <1>0, <1>2, <1>3
<1> QED
  BY <1>4 DEF Current

LEMMA GetIs ==
    ASSUME NEW S, Snapshots(S), NEW id \in Nat, NEW x \in S, x <= id, \A u \in S : u <= id => u <= x
    PROVE  GetAtOrBefore(S, id) = x /\ AtOrBefore(S, id) # {}
<1> DEFINE A == AtOrBefore(S, id)
<1>0. S \subseteq Nat
  BY DEF Snapshots
<1>1. x \in A /\ \A u \in A : u \in Nat /\ u <= x
  BY <1>0 DEF AtOrBefore
<1>2. GetAtOrBefore(S, id) = CHOOSE s \in A : \A u \in A : u <= s
  BY <1>1 DEF GetAtOrBefore
<1> HIDE DEF A
<1>3. PICK y : y = CHOOSE s \in A : \A u \in A : u <= s
  OBVIOUS
<1>4. y \in A /\ \A u \in A : u <= y
  BY <1>1, <1>3
<1>5. x = y
  BY <1>0, <1>1, <1>4
<1> QED
  BY <1>1, <1>2, <1>3, <1>5 DEF A

(* A lookup that starts at the schema in force, or above it and before the *)
(* stream's position, finds it.                                            *)
LEMMA LookupCurrent ==
    ASSUME PlaceInv, ~ Adjacent, Snapshots(stored), Snapshots(cached), StoredInv, ClosedInv,
           NEW x, Current(x, Position), NEW id \in Nat, x <= id, id < Position \/ id = x
    PROVE  /\ Lookup(id) = x /\ x \in stored /\ x \in Nat \ {NoSnapshot}
           /\ \A s \in stored : s <= id => s <= x
           /\ \A s \in stored : s < Position \/ s <= table.snap => s <= x
           /\ AtOrBefore(cached, id) = {} => \A c \in cached : x < c
<1>0. /\ Schemas \subseteq Nat /\ x \in Schemas /\ x \in Nat /\ table.snap <= x /\ Position \in Nat
      /\ table.snap \in Nat /\ stored \subseteq Nat /\ cached \subseteq stored
      /\ AtLsn(checkpoint) < Position /\ AtLsn(checkpoint) \in Nat
      /\ (x < Position \/ x = table.snap) /\ \A u \in Schemas : u < Position => u <= x
  <2>1. AtLsn(checkpoint) + 1 < Position /\ AtLsn(checkpoint) \in Nat /\ Position \in Nat
    BY OwnedIs, PlaceFacts
  <2> QED
    BY <2>1, PlaceFacts, SchemaFacts DEF Current, ClosedInv, Snapshots
<1>1. x \in stored
  <2>1. \A u \in Schemas : u <= AtLsn(checkpoint) => u <= x
    BY <1>0
  <2> QED
    BY <1>0, <2>1 DEF StoredInv
<1>2. \A s \in stored : s < Position \/ s <= table.snap => s <= x
  <2>1. SUFFICES ASSUME NEW s \in stored, s < Position \/ s <= table.snap PROVE s <= x
    OBVIOUS
  <2>2. s <= table.snap \/ s \in Schemas
    BY DEF StoredInv
  <2> QED
    BY <1>0, <2>1, <2>2
<1>3. \A s \in stored : s <= id => s <= x
  BY <1>0, <1>2
<1>4. GetAtOrBefore(stored, id) = x
  BY <1>1, <1>3, GetIs
<1>5. CASE AtOrBefore(cached, id) = {}
  <2>1. \A c \in cached : x < c
    <3>1. \A c \in cached : ~ (c <= id)
      BY <1>5 DEF AtOrBefore
    <3> QED
      BY <1>0, <3>1
  <2> QED
    BY <1>0, <1>1, <1>2, <1>3, <1>4, <1>5, <2>1 DEF Lookup, Snapshots
<1>6. CASE AtOrBefore(cached, id) # {}
  <2>1. PICK c \in cached : c <= id
    BY <1>6 DEF AtOrBefore
  <2>2. c \in stored /\ c <= x /\ c \in Nat
    BY <1>0, <1>3, <2>1
  <2>3. x \in cached
    <3>1. CASE c = x
      BY <2>1, <3>1
    <3>2. CASE c < x
      BY <1>0, <1>1, <2>1, <3>2 DEF ClosedInv
    <3> QED
      BY <1>0, <2>2, <3>1, <3>2
  <2>4. \A u \in cached : u <= id => u <= x
    BY <1>0, <1>3
  <2>5. GetAtOrBefore(cached, id) = x
    BY <2>3, <2>4, GetIs
  <2> QED
    BY <1>1, <1>2, <1>3, <1>6, <2>5 DEF Lookup, Snapshots
<1> QED
  BY <1>5, <1>6

(* Eviction drops the oldest. *)
LEMMA EvictOldest ==
    ASSUME NEW S, Snapshots(S), NEW id \in Nat \ {NoSnapshot},
           NEW c \in InsertWithEviction(S, id, MaxCached), NEW s \in S \cup {id}, c < s
    PROVE  s \in InsertWithEviction(S, id, MaxCached)
<1> DEFINE all == S \cup {id}
           above(y) == {u \in all : u > y}
<1>0. Snapshots(all)
  BY SnapshotsAdd
<1>1. PICK b \in Nat : \A u \in all : u <= b
  BY <1>0 DEF Snapshots
<1>2. all \subseteq Nat
  BY <1>0 DEF Snapshots
<1>3. c \in all /\ Cardinality(above(c)) < MaxCached
  BY DEF InsertWithEviction
<1>4. IsFiniteSet(above(c))
  <2>1. above(c) \in SUBSET Nat /\ \A u \in above(c) : u <= b
    BY <1>1, <1>2
  <2> HIDE DEF above
  <2> QED
    BY <1>1, <2>1, FS_BoundedSetOfNaturals
<1>5. above(s) \subseteq above(c)
  BY <1>2, <1>3
<1>6. Cardinality(above(s)) < MaxCached
  <2> HIDE DEF above
  <2>1. Cardinality(above(s)) <= Cardinality(above(c)) /\ IsFiniteSet(above(s))
    BY <1>4, <1>5, FS_Subset
  <2>2. Cardinality(above(s)) \in Nat /\ Cardinality(above(c)) \in Nat
    BY <1>4, <2>1, FS_CardinalityType
  <2> QED
    BY <1>3, <2>1, <2>2, DecodingAssumption
<1> QED
  BY <1>6, Zenon DEF InsertWithEviction

-----------------------------------------------------------------------------
(* What does not depend on a step.                                         *)

Static == UNCHANGED <<wal, base, table.snap, table.lsn, table.mask>>

LEMMA StaticStays ==
    ASSUME Static
    PROVE  /\ SyncedTo' = SyncedTo /\ Schemas' = Schemas
           /\ \A s, p : Current(s, p)' <=> Current(s, p)
           /\ \A p : Changes(p)' = Changes(p) /\ Version(p)' = Version(p)
           /\ \A s : SnapVersion(s)' = SnapVersion(s)
<1>1. SyncedTo' = SyncedTo
  BY DEF SyncedTo, Static
<1>2. \A a, b : DdlSnaps(a, b)' = DdlSnaps(a, b)
  BY DEF DdlSnaps, IsDdl, Static
<1>3. Schemas' = Schemas
  BY <1>1, <1>2 DEF Schemas, Static
<1>4. \A s, p : Current(s, p)' <=> Current(s, p)
  BY <1>3 DEF Current, Static
<1>5. \A i : DdlItems(i)' = DdlItems(i)
  BY DEF DdlItems, Static
<1>6. \A p : Changes(p)' = Changes(p)
  BY <1>5 DEF Changes
<1>7. \A p : Version(p)' = Version(p)
  BY <1>6 DEF Version
<1>8. \A s : SnapVersion(s)' = SnapVersion(s)
  BY <1>5 DEF SnapVersion, VersionAt, VersionAfterTx, Static
<1> QED
  BY <1>1, <1>3, <1>4, <1>6, <1>7, <1>8

(* The stream moves on past no schema message of its own. *)
Onward == Position <= Position' /\ \A u \in Schemas : u < Position' => u < Position \/ u = table.snap

LEMMA StoredStays ==
    ASSUME Static, StoredInv, UNCHANGED <<stored, checkpoint>>, Onward
    PROVE  StoredInv'
BY StaticStays DEF StoredInv, Onward, Static

LEMMA ClosedStays ==
    ASSUME Static, PlaceInv, ~ Adjacent, StoredInv, ClosedInv, UNCHANGED <<stored, cached>>, Onward
    PROVE  ClosedInv'
<1>1. table'.snap = table.snap
  BY DEF Static
<1>2. ASSUME NEW c \in cached, NEW s \in stored, c < s, s < Position' \/ s <= table.snap
      PROVE  s \in cached
  <2>1. s <= table.snap \/ s \in Schemas
    BY DEF StoredInv
  <2>2. s < Position \/ s <= table.snap
    BY <1>2, <2>1, PlaceFacts, SchemaFacts DEF Onward
  <2> QED
    BY <1>2, <2>2 DEF ClosedInv
<1> QED
  BY <1>1, <1>2 DEF ClosedInv

-----------------------------------------------------------------------------
(* The version in force.                                                   *)

LEMMA ChangeBefore ==
    ASSUME WalTyped, NEW p, NEW x \in Changes(p)
    PROVE  \E s \in DdlSnaps(1, NumTx) : s < p /\ s \in Nat /\ \A q : s < q => x \in Changes(q)
<1>10. PICK a \in 1..NumTx : \E k \in DdlItems(a) : x = <<a, k>> /\ Snap(a, k) < p
  BY ChangeIs
<1>1. PICK k \in DdlItems(a) : x = <<a, k>> /\ Snap(a, k) < p
  BY <1>10
<1>2. k \in Nat /\ 1 <= k /\ k <= Len(wal[a]) /\ wal[a][k] = "ddl" /\ a \in Nat /\ Len(wal[a]) \in Nat
  BY ChangeItem, WalItem
<1>3. IsDdl(a, k) /\ k \in 1..Len(wal[a])
  BY <1>2 DEF IsDdl
<1>4. Snap(a, k) \in DdlSnaps(1, NumTx)
  BY <1>3, DdlSnapIs
<1>5. Snap(a, k) \in Nat
  BY <1>2, SnapType
<1>6. ASSUME NEW q, Snap(a, k) < q PROVE x \in Changes(q)
  BY <1>1, <1>6, ChangeIs
<1> QED
  BY <1>1, <1>4, <1>5, <1>6

LEMMA ChangesRise ==
    ASSUME WalTyped, NEW p \in Nat, NEW q \in Nat, p <= q
    PROVE  Changes(p) \subseteq Changes(q)
<1>1. SUFFICES ASSUME NEW x \in Changes(p) PROVE x \in Changes(q)
  OBVIOUS
<1>2. PICK s \in DdlSnaps(1, NumTx) : s < p /\ s \in Nat /\ \A r : s < r => x \in Changes(r)
  BY ChangeBefore
<1> QED
  BY <1>2

(* No schema in force began between two positions: no change did. *)
LEMMA SameChanges ==
    ASSUME PlaceInv, ~ Adjacent, NEW p \in Nat, SyncedTo < p, p <= Position,
           \A u \in Schemas : u < Position => u < p
    PROVE  Changes(Position) = Changes(p)
<1>0. WalTyped /\ Position \in Nat /\ SyncedTo \in Nat
  BY PlaceFacts
<1>1. Changes(p) \subseteq Changes(Position)
  BY <1>0, ChangesRise
<1>2. ASSUME NEW x \in Changes(Position) PROVE x \in Changes(p)
  <2>1. PICK s \in DdlSnaps(1, NumTx) :
          s < Position /\ s \in Nat /\ \A r : s < r => x \in Changes(r)
    BY <1>0, <1>2, ChangeBefore
  <2>2. s < p
    <3>1. CASE s <= SyncedTo
      BY <1>0, <2>1, <3>1
    <3>2. CASE SyncedTo < s
      BY <2>1, <3>2 DEF Schemas
    <3> QED
      BY <1>0, <2>1, <3>1, <3>2
  <2> QED
    BY <2>1, <2>2
<1> QED
  BY <1>1, <1>2

LEMMA VersionInForce ==
    ASSUME PlaceInv, ~ Adjacent, MaskInv, NEW x, Current(x, Position), Owned(CommitLsn(conn.tx))
    PROVE  SnapVersion(x) = Version(Position)
<1>0. /\ WalTyped /\ Position \in Nat /\ SyncedTo \in Nat /\ SyncedTo + 1 < Position
      /\ Schemas \subseteq Nat /\ x \in Schemas /\ (x < Position \/ x = table.snap)
      /\ \A u \in Schemas : u < Position => u <= x
      /\ table.snap <= SyncedTo /\ table.snap \in Nat
  BY PlaceFacts, SchemaFacts, OwnedIs DEF Current
<1>1. CASE x = table.snap
  <2>1. \A u \in Schemas : u < Position => u < SyncedTo + 1
    BY <1>0, <1>1
  <2>2. Changes(Position) = Changes(SyncedTo + 1)
    BY <1>0, <2>1, SameChanges
  <2> QED
    BY <1>1, <2>2 DEF MaskInv, Version
<1>2. CASE x # table.snap
  <2>1. x \in DdlSnaps(1, NumTx) /\ SyncedTo < x /\ x \in Nat /\ x < Position
    BY <1>0, <1>2, SchemaFacts
  <2>2. PICK i \in 1..NumTx, j \in Nat : i \in Nat /\ 1 <= j /\ j < Width /\ x = Snap(i, j)
    BY <1>0, <2>1, DdlSnapItem
  <2>3. (x - 1) \div Width = i /\ (x - 1) % Width = j
    BY <2>2, SnapParts
  <2>4. x # Initial
    <3>1. (Initial - 1) \div Width = 0
      BY WidthBounds, SnapParts DEF Initial
    <3> QED
      BY <2>2, <2>3, <3>1
  <2>5. SnapVersion(x) = Version(x + 1)
    BY <1>0, <2>2, <2>3, <2>4, VersionAtIs DEF SnapVersion
  <2>6. \A u \in Schemas : u < Position => u < x + 1
    BY <1>0, <2>1
  <2>7. Changes(Position) = Changes(x + 1)
    BY <1>0, <2>1, <2>6, SameChanges
  <2> QED
    BY <2>5, <2>7 DEF Version
<1> QED
  BY <1>1, <1>2

LEMMA HereIs ==
    ASSUME PlaceInv, ~ Adjacent, conn.tx <= NumTx, conn.item <= Len(wal[conn.tx]),
           wal[conn.tx][conn.item] # "ddl"
    PROVE  Here = Version(Position) /\ Here \in Nat \ {NoMask}
<1>0. /\ WalTyped /\ conn.tx \in 1..NumTx /\ conn.tx \in Nat /\ conn.item \in Nat /\ 1 <= conn.item
      /\ Width \in Nat
  BY PlaceFacts
<1>1. conn.item < Width
  BY <1>0, WalItem
<1>2. Here = Version(Snap(conn.tx, conn.item) + 1)
  BY <1>0, <1>1, VersionAtIs DEF Here
<1>3. Changes(Snap(conn.tx, conn.item + 1)) = Changes(Position)
  BY <1>0, PassItem DEF Position
<1>4. Snap(conn.tx, conn.item + 1) = Snap(conn.tx, conn.item) + 1
  BY <1>0, SnapNext
<1>5. Here = Version(Position)
  BY <1>2, <1>3, <1>4 DEF Version
<1> QED
  BY <1>5, VersionType

-----------------------------------------------------------------------------
(* Events added to the outbox, and taken from it.                          *)

Extends ==
    /\ outbox' \in Seq(Events) /\ Len(outbox) <= Len(outbox')
    /\ \A i \in 1..Len(outbox) : outbox'[i] = outbox[i]

LEMMA OutboxLen ==
    ASSUME outbox \in Seq(Events)
    PROVE  Len(outbox) \in Nat /\ \A i \in 1..Len(outbox) : outbox[i] \in Events
BY LenProperties, ElementOfSeq

LEMMA ExtendsNot ==
    ASSUME outbox \in Seq(Events), UNCHANGED outbox
    PROVE  Extends /\ Len(outbox') = Len(outbox)
BY OutboxLen DEF Extends

LEMMA ExtendsOne ==
    ASSUME outbox \in Seq(Events), NEW e \in Events, outbox' = Append(outbox, e)
    PROVE  Extends /\ Len(outbox') = Len(outbox) + 1 /\ outbox'[Len(outbox) + 1] = e
<1>1. /\ outbox' \in Seq(Events) /\ Len(outbox') = Len(outbox) + 1
      /\ \A i \in 1..Len(outbox) : outbox'[i] = outbox[i]
      /\ outbox'[Len(outbox) + 1] = e
  BY AppendProperties
<1> QED
  BY <1>1, OutboxLen DEF Extends

LEMMA ExtendsTwo ==
    ASSUME outbox \in Seq(Events), NEW e \in Events, NEW f \in Events,
           outbox' = outbox \o <<e>> \o <<f>>
    PROVE  /\ Extends /\ Len(outbox') = Len(outbox) + 2
           /\ outbox'[Len(outbox) + 1] = e /\ outbox'[Len(outbox) + 2] = f
<1>0. Len(outbox) \in Nat
  BY OutboxLen
<1>1. PICK o : o = Append(outbox, e)
  OBVIOUS
<1>2. /\ o \in Seq(Events) /\ Len(o) = Len(outbox) + 1
      /\ \A i \in 1..Len(outbox) : o[i] = outbox[i]
      /\ o[Len(outbox) + 1] = e
  BY <1>1, AppendProperties
<1>20. o \in Seq(Events)
  BY <1>2
<1>3. outbox' = Append(o, f)
  <2>1. outbox \o <<e>> = o
    BY <1>1, AppendIsConcat
  <2>2. o \o <<f>> = Append(o, f)
    BY <1>2, AppendIsConcat
  <2> QED
    BY <2>1, <2>2
<1>4. /\ outbox' \in Seq(Events) /\ Len(outbox') = Len(o) + 1
      /\ \A i \in 1..Len(o) : outbox'[i] = o[i]
      /\ outbox'[Len(o) + 1] = f
  BY <1>20, <1>3, AppendProperties
<1>5. \A i \in 1..Len(outbox) : outbox'[i] = outbox[i]
  BY <1>0, <1>2, <1>4
<1> QED
  BY <1>0, <1>2, <1>4, <1>5 DEF Extends

LEMMA AnnouncedStays ==
    ASSUME outbox \in Seq(Events), Extends, UNCHANGED meta, NEW i \in 1..Len(outbox) + 1, NEW s,
           Announced(i, s)
    PROVE  Announced(i, s)'
<1>0. Len(outbox) \in Nat /\ i \in Nat
  BY OutboxLen
<1>1. \A k \in 1..i - 1 : outbox'[k] = outbox[k]
  BY <1>0 DEF Extends
<1>2. CASE \E j \in 1..i - 1 : /\ outbox[j].type = "relation" /\ outbox[j].snap = s
                               /\ \A k \in j + 1..i - 1 : outbox[k].type # "relation"
  <2>1. PICK j \in 1..i - 1 : /\ outbox[j].type = "relation" /\ outbox[j].snap = s
                              /\ \A k \in j + 1..i - 1 : outbox[k].type # "relation"
    BY <1>2
  <2>2. \A k \in j + 1..i - 1 : k \in 1..i - 1
    BY <1>0, <2>1
  <2> QED
    BY <1>1, <2>1, <2>2 DEF Announced
<1>3. CASE /\ \A k \in 1..i - 1 : outbox[k].type # "relation"
           /\ meta.status = "applied" /\ meta.snap = s
  BY <1>1, <1>3 DEF Announced
<1> QED
  BY <1>2, <1>3 DEF Announced

(* Adding events keeps those that were there announced. *)
LEMMA AnnounceExtends ==
    ASSUME outbox \in Seq(Events), Extends, UNCHANGED meta, AnnounceInv,
           \A i \in Len(outbox) + 1..Len(outbox') : outbox'[i].type = "row" => Announced(i, outbox[i].snap)',
           conn'.dec.kind = "with" => Announced(Len(outbox) + 1, conn.dec.snap)'
    PROVE  AnnounceInv'
<1>0. Len(outbox) \in Nat /\ Len(outbox') \in Nat
  BY OutboxLen, LenProperties DEF Extends
<1>1. (meta.status = "applying" =>
         outbox # <<>> /\ outbox[1].type = "relation" /\ outbox[1].snap = meta.snap)'
  <2>1. SUFFICES ASSUME meta.status = "applying"
                 PROVE  outbox' # <<>> /\ outbox'[1].type = "relation" /\ outbox'[1].snap = meta.snap
    OBVIOUS
  <2>2. outbox # <<>> /\ outbox[1].type = "relation" /\ outbox[1].snap = meta.snap
    BY <2>1 DEF AnnounceInv
  <2>3. Len(outbox) # 0
    BY <2>2, EmptySeq
  <2>4. outbox'[1] = outbox[1] /\ Len(outbox') # 0
    BY <1>0, <2>3 DEF Extends
  <2>5. outbox' # <<>>
    BY <2>4, EmptySeq
  <2> QED
    BY <2>2, <2>4, <2>5
<1>2. (\A i \in 1..Len(outbox) : outbox[i].type = "row" => Announced(i, outbox[i].snap))'
  <2>1. SUFFICES ASSUME NEW i \in 1..Len(outbox'), outbox'[i].type = "row"
                 PROVE  Announced(i, outbox[i].snap)'
    OBVIOUS
  <2>2. CASE i \in 1..Len(outbox)
    <3>1. outbox'[i] = outbox[i] /\ i \in 1..Len(outbox) + 1
      BY <1>0, <2>2 DEF Extends
    <3>2. Announced(i, outbox[i].snap)
      BY <2>1, <2>2, <3>1 DEF AnnounceInv
    <3>3. \A s : Announced(i, s) => Announced(i, s)'
      BY <3>1, AnnouncedStays
    <3> QED
      BY <3>1, <3>2, <3>3
  <2>3. CASE i \in Len(outbox) + 1..Len(outbox')
    BY <2>1, <2>3
  <2> QED
    BY <1>0, <2>1, <2>2, <2>3
<1> QED
  BY <1>1, <1>2 DEF AnnounceInv

(* An event that is no relation announces what was announced before it. *)
LEMMA AnnouncedOver ==
    ASSUME outbox \in Seq(Events), Extends, UNCHANGED meta, Len(outbox') = Len(outbox) + 1,
           outbox'[Len(outbox) + 1].type # "relation", NEW s, Announced(Len(outbox) + 1, s)
    PROVE  Announced(Len(outbox) + 1, s)'
<1>0. PICK n : n = Len(outbox) + 1
  OBVIOUS
<1>1. n \in Nat /\ n \in 1..Len(outbox) + 1 /\ Len(outbox') = n /\ outbox'[n].type # "relation"
  BY <1>0, OutboxLen
<1>2. Announced(n, s)'
  BY <1>0, <1>1, AnnouncedStays
<1>3. CASE \E j \in 1..n - 1 : /\ outbox'[j].type = "relation" /\ outbox'[j].snap = s
                               /\ \A k \in j + 1..n - 1 : outbox'[k].type # "relation"
  <2>1. PICK j \in 1..n - 1 : /\ outbox'[j].type = "relation" /\ outbox'[j].snap = s
                              /\ \A k \in j + 1..n - 1 : outbox'[k].type # "relation"
    BY <1>3
  <2>2. j \in 1..(Len(outbox') + 1) - 1
    BY <1>1, <2>1
  <2>3. \A k \in j + 1..(Len(outbox') + 1) - 1 : k \in j + 1..n - 1 \/ k = n
    BY <1>1, <2>1
  <2>4. \A k \in j + 1..(Len(outbox') + 1) - 1 : outbox'[k].type # "relation"
    BY <1>1, <2>1, <2>3
  <2> QED
    BY <2>1, <2>2, <2>4 DEF Announced
<1>4. CASE /\ \A k \in 1..n - 1 : outbox'[k].type # "relation"
           /\ meta'.status = "applied" /\ meta'.snap = s
  <2>1. \A k \in 1..(Len(outbox') + 1) - 1 : k \in 1..n - 1 \/ k = n
    BY <1>1
  <2> QED
    BY <1>1, <1>4, <2>1 DEF Announced
<1> QED
  BY <1>2, <1>3, <1>4 DEF Announced

-----------------------------------------------------------------------------
(* Messages of the connection.                                             *)

InForce(e) == e.type = "row" => SnapVersion(e.snap) = e.version /\ e.mask = e.version

LEMMA InForceExtends ==
    ASSUME outbox \in Seq(Events), Extends, Static, DecodedInForce,
           \A i \in Len(outbox) + 1..Len(outbox') : InForce(outbox'[i])
    PROVE  DecodedInForce'
<1>0. /\ Len(outbox) \in Nat /\ Len(outbox') \in Nat
      /\ DOMAIN outbox = 1..Len(outbox) /\ DOMAIN outbox' = 1..Len(outbox')
  BY OutboxLen, LenProperties DEF Extends
<1>1. \A s : SnapVersion(s)' = SnapVersion(s)
  BY StaticStays
<1>2. ASSUME NEW i \in 1..Len(outbox') PROVE InForce(outbox'[i])
  <2>1. CASE i \in 1..Len(outbox)
    <3>1. outbox'[i] = outbox[i]
      BY <2>1 DEF Extends
    <3> QED
      BY <1>0, <2>1, <3>1 DEF DecodedInForce, InForce
  <2>2. CASE i \in Len(outbox) + 1..Len(outbox')
    BY <2>2
  <2> QED
    BY <1>0, <1>2, <2>1, <2>2
<1>3. ASSUME NEW i \in DOMAIN outbox', outbox'[i].type = "row"
      PROVE  (SnapVersion(outbox[i].snap) = outbox[i].version)' /\ outbox'[i].mask = outbox'[i].version
  <2>1. PICK s : s = outbox'[i].snap
    OBVIOUS
  <2>2. SnapVersion(s) = outbox'[i].version /\ outbox'[i].mask = outbox'[i].version
    BY <1>0, <1>2, <1>3, <2>1 DEF InForce
  <2>3. SnapVersion(s)' = outbox'[i].version
    BY <1>1, <2>2
  <2> QED
    BY <2>1, <2>2, <2>3
<1> QED
  BY <1>3 DEF DecodedInForce

LEMMA HandoverExtends ==
    ASSUME outbox \in Seq(Events), Extends, Static, NEW i \in 0..Len(outbox), NEW k \in Nat, i <= k,
           HandoverBefore(i)
    PROVE  HandoverBefore(k)'
<1>0. Len(outbox) \in Nat
  BY OutboxLen
<1>1. PICK j \in 1..i : outbox[j].type = "commit" /\ EndLsn(outbox[j].snap) >= table.lsn
  BY DEF HandoverBefore
<1>2. j \in 1..Len(outbox) /\ j \in 1..k
  BY <1>0, <1>1
<1>3. outbox'[j] = outbox[j] /\ table'.lsn = table.lsn
  BY <1>2 DEF Extends, Static
<1> QED
  BY <1>1, <1>2, <1>3 DEF HandoverBefore

(* The connection stays in its transaction. *)
Within ==
    /\ UNCHANGED <<wal, base, table, meta, checkpoint, queue>>
    /\ conn.tx <= NumTx /\ conn'.tx = conn.tx /\ conn'.bootstrap = conn.bootstrap
    /\ conn'.item \in {conn.item, conn.item + 1} /\ conn'.item <= Len(wal[conn.tx]) + 1
    /\ conn'.sent \in BOOLEAN /\ conn'.dec \in Decoders
    /\ Extends
    /\ \A i \in Len(outbox) + 1..Len(outbox') :
          outbox'[i].type # "commit" /\ Owned(CommitLsn(conn.tx))

LEMMA WithinStays ==
    ASSUME PlaceInv, ~ Adjacent, CleanupInv, EarlyInv, Within
    PROVE  /\ PlaceInv' /\ CleanupInv' /\ EarlyInv' /\ Static
           /\ Position <= Position' /\ (Owned(CommitLsn(conn.tx))' <=> Owned(CommitLsn(conn.tx)))
<1>0. /\ WalTyped /\ conn.tx \in 1..NumTx /\ conn.tx \in Nat /\ conn.item \in Nat /\ 1 <= conn.item
      /\ conn.item <= Width /\ Width \in Nat /\ NumTx \in Nat /\ conn.tx # NumTx + 1
      /\ Position \in Nat /\ outbox \in Seq(Events) /\ Len(outbox) \in Nat /\ outbox' \in Seq(Events)
      /\ Len(outbox') \in Nat
  BY PlaceFacts, OutboxLen, LenProperties DEF Within, PlaceInv, Extends
<1>1. Len(wal[conn.tx]) \in Nat /\ Len(wal[conn.tx]) < Width
  BY <1>0, WalItem
<1>2. Static /\ SyncedTo' = SyncedTo
  <2>1. Static
    BY DEF Within, Static
  <2> QED
    BY <2>1, StaticStays
<1>3. /\ conn'.item \in 1..Width
      /\ Position' = Snap(conn.tx, conn'.item)
  BY <1>0, <1>1 DEF Within, Position
<1>4. Position <= Position' /\ Position' \in Nat
  <2>1. CASE conn'.item = conn.item
    BY <1>0, <1>3, <2>1 DEF Position
  <2>2. CASE conn'.item = conn.item + 1
    <3>1. Snap(conn.tx, conn.item + 1) = Snap(conn.tx, conn.item) + 1
      BY <1>0, SnapNext
    <3> QED
      BY <1>0, <1>3, <2>2, <3>1 DEF Position
  <2> QED
    BY <2>1, <2>2 DEF Within
<1>5. conn'.bootstrap \in Nat /\ conn'.bootstrap < Position'
  BY <1>0, <1>4 DEF Within, PlaceInv
<1>6. \A i \in 1..Len(outbox') : outbox'[i].type = "commit" => outbox'[i].snap \in 1..conn'.tx - 1
  <2>1. SUFFICES ASSUME NEW i \in 1..Len(outbox'), outbox'[i].type = "commit"
                 PROVE  outbox'[i].snap \in 1..conn'.tx - 1
    OBVIOUS
  <2>2. i \in 1..Len(outbox)
    BY <1>0, <2>1 DEF Within
  <2>3. outbox'[i] = outbox[i] /\ conn'.tx = conn.tx
    BY <2>2 DEF Within, Extends
  <2> QED
    BY <2>1, <2>2, <2>3 DEF PlaceInv
<1>7. PlaceInv'
  <2>1. /\ wal' = wal /\ table' = table /\ checkpoint' = checkpoint /\ conn'.tx = conn.tx
        /\ conn'.item <= Len(wal[conn.tx]) + 1 /\ conn'.sent \in BOOLEAN /\ conn'.dec \in Decoders
    BY DEF Within
  <2>2. CommitLsn(conn.tx)' = CommitLsn(conn.tx)
    BY <2>1
  <2> QED
    BY <1>0, <1>2, <1>3, <1>5, <1>6, <2>1, <2>2 DEF PlaceInv
<1>8. CleanupInv'
  BY DEF CleanupInv, Within
<1>9. Owned(CommitLsn(conn.tx))' <=> Owned(CommitLsn(conn.tx))
  BY DEF Within, Owned
<1>10. EarlyInv'
  <2>1. SUFFICES ASSUME checkpoint + 1 < table.lsn
                 PROVE  /\ \A i \in 1..Len(outbox') : outbox'[i].type # "commit" => HandoverBefore(i)'
                        /\ Owned(CommitLsn(conn.tx)) => HandoverBefore(Len(outbox))'
    BY <1>9 DEF EarlyInv, Within
  <2>2. /\ \A i \in 1..Len(outbox) : outbox[i].type # "commit" => HandoverBefore(i)
        /\ Owned(CommitLsn(conn.tx)) => HandoverBefore(Len(outbox))
    BY <2>1 DEF EarlyInv
  <2>3. Extends
    BY DEF Within
  <2>4. ASSUME Owned(CommitLsn(conn.tx)), NEW k \in Nat, Len(outbox) <= k PROVE HandoverBefore(k)'
    <3>1. Len(outbox) \in 0..Len(outbox)
      BY <1>0
    <3> QED
      BY <1>0, <1>2, <2>2, <2>3, <2>4, <3>1, HandoverExtends
  <2>5. Owned(CommitLsn(conn.tx)) => HandoverBefore(Len(outbox))'
    <3>1. Len(outbox') \in Nat /\ Len(outbox) <= Len(outbox')
      BY <1>0, <2>3 DEF Extends
    <3>2. \A k \in Nat : k = Len(outbox') /\ HandoverBefore(k)' => HandoverBefore(Len(outbox))'
      BY DEF HandoverBefore
    <3> QED
      BY <2>4, <3>1, <3>2
  <2>6. ASSUME NEW i \in 1..Len(outbox'), outbox'[i].type # "commit" PROVE HandoverBefore(i)'
    <3>0. i \in Nat
      BY <1>0
    <3>1. CASE i <= Len(outbox)
      <4>1. i \in 1..Len(outbox) /\ i \in 0..Len(outbox)
        BY <1>0, <3>0, <3>1, <2>6
      <4>2. outbox'[i] = outbox[i]
        BY <2>3, <4>1 DEF Extends
      <4>3. HandoverBefore(i)
        BY <2>2, <2>6, <4>1, <4>2
      <4> QED
        BY <1>0, <1>2, <2>3, <3>0, <4>1, <4>3, HandoverExtends
    <3>2. CASE Len(outbox) < i
      <4>1. i \in Len(outbox) + 1..Len(outbox')
        BY <1>0, <2>6, <3>0, <3>2
      <4>2. Owned(CommitLsn(conn.tx))
        BY <4>1 DEF Within
      <4> QED
        BY <1>0, <2>4, <3>0, <3>2, <4>2
    <3> QED
      BY <1>0, <3>0, <3>1, <3>2
  <2> QED
    BY <2>5, <2>6
<1> QED
  BY <1>2, <1>4, <1>7, <1>8, <1>9, <1>10

(* A step over an item that is no schema message, or not the stream's own, *)
(* or no step.                                                             *)
LEMMA WithinOnward ==
    ASSUME PlaceInv, ~ Adjacent, CleanupInv, EarlyInv, Within,
           \/ conn'.item = conn.item
           \/ conn.item <= Len(wal[conn.tx]) /\ conn'.item = conn.item + 1
              /\ (~ IsDdl(conn.tx, conn.item) \/ ~ Owned(CommitLsn(conn.tx)))
    PROVE  Onward
<1>0. /\ WalTyped /\ conn.tx \in 1..NumTx /\ conn.tx \in Nat /\ conn.item \in Nat /\ 1 <= conn.item
      /\ Width \in Nat /\ Position \in Nat /\ Schemas \subseteq Nat /\ SyncedTo \in Nat
      /\ Position <= Position' /\ conn'.tx = conn.tx /\ Len(wal[conn.tx]) \in Nat
      /\ Len(wal[conn.tx]) < Width
  <2>1. conn.tx \in 1..NumTx /\ WalTyped
    BY PlaceFacts DEF Within
  <2> QED
    BY <2>1, PlaceFacts, SchemaFacts, WithinStays, WalItem DEF Within
<1>1. CASE conn'.item = conn.item
  <2>1. Position' = Position
    BY <1>0, <1>1 DEF Position
  <2> QED
    BY <1>0, <2>1 DEF Onward
<1>2. CASE /\ conn.item <= Len(wal[conn.tx]) /\ conn'.item = conn.item + 1
           /\ (~ IsDdl(conn.tx, conn.item) \/ ~ Owned(CommitLsn(conn.tx)))
  <2>0. Position' = Snap(conn.tx, conn.item + 1) /\ Position' = Position + 1
    <3>1. Position' = Snap(conn.tx, conn.item + 1)
      BY <1>0, <1>2 DEF Position
    <3>2. Snap(conn.tx, conn.item + 1) = Position + 1
      BY <1>0, SnapNext DEF Position
    <3> QED
      BY <3>1, <3>2
  <2>1. SUFFICES ASSUME NEW u \in Schemas, u < Position', u # table.snap PROVE u < Position
    BY <1>0 DEF Onward
  <2>2. u \in DdlSnaps(1, NumTx) /\ SyncedTo < u /\ u \in Nat
    BY <1>0, <2>1, SchemaFacts
  <2>3. CASE ~ IsDdl(conn.tx, conn.item)
    BY <1>0, <1>2, <2>0, <2>1, <2>2, <2>3, PassItem DEF Position
  <2>4. CASE ~ Owned(CommitLsn(conn.tx))
    <3>1. Position <= SyncedTo
      BY <1>0, <1>2, <2>4, OwnedIs
    <3> QED
      BY <1>0, <2>0, <2>1, <2>2, <3>1
  <2> QED
    BY <1>2, <2>3, <2>4
<1> QED
  BY <1>1, <1>2

LEMMA CurrentOnward ==
    ASSUME Static, Onward, PlaceInv, ~ Adjacent, Position' \in Nat
    PROVE  \A s : Current(s, Position) => Current(s, Position)'
<1>0. Schemas \subseteq Nat /\ Position \in Nat /\ \A u \in Schemas : table.snap <= u
  BY PlaceFacts, SchemaFacts
<1>1. SUFFICES ASSUME NEW s, Current(s, Position) PROVE Current(s, Position)'
  OBVIOUS
<1>2. Schemas' = Schemas /\ table'.snap = table.snap
  BY StaticStays DEF Static
<1>3. s \in Schemas /\ (s < Position \/ s = table.snap) /\ \A u \in Schemas : u < Position => u <= s
  BY <1>1 DEF Current
<1>4. s < Position' \/ s = table.snap
  BY <1>0, <1>3 DEF Onward
<1>5. \A u \in Schemas : u < Position' => u <= s
  BY <1>0, <1>3 DEF Onward
<1> QED
  BY <1>2, <1>3, <1>4, <1>5 DEF Current

LEMMA PrimedPosition ==
    ASSUME Static
    PROVE  /\ Changes(Position)' = Changes(Position') /\ Version(Position)' = Version(Position')
           /\ \A s : Current(s, Position)' <=> Current(s, Position')
           /\ Changes(SyncedTo + 1)' = Changes(SyncedTo + 1) /\ Version(SyncedTo + 1)' = Version(SyncedTo + 1)
<1>1. PICK q : q = Position'
  OBVIOUS
<1>2. Changes(q)' = Changes(q) /\ Version(q)' = Version(q) /\ \A s : Current(s, q)' <=> Current(s, q)
  BY StaticStays
<1>3. PICK r : r = SyncedTo + 1
  OBVIOUS
<1>4. SyncedTo' = SyncedTo /\ Changes(r)' = Changes(r) /\ Version(r)' = Version(r)
  BY StaticStays
<1>5. Changes(SyncedTo + 1)' = Changes(r)' /\ Version(SyncedTo + 1)' = Version(r)'
  BY <1>3, <1>4 DEF Changes, Version
<1>6. Changes(Position)' = Changes(q)' /\ Version(Position)' = Version(q)'
  BY <1>1 DEF Changes, Version
<1>7. \A s : Current(s, Position)' <=> Current(s, q)'
  BY <1>1 DEF Current
<1> QED
  BY <1>1, <1>2, <1>3, <1>4, <1>5, <1>6, <1>7

LEMMA MaskFacts ==
    ASSUME Static, MaskInv
    PROVE  (SnapVersion(table.snap) = table.mask /\ table.mask = Version(SyncedTo + 1))'
<1>1. \A s : SnapVersion(s)' = SnapVersion(s)
  BY StaticStays
<1>2. Version(SyncedTo + 1)' = Version(SyncedTo + 1)
  BY PrimedPosition
<1>3. table'.snap = table.snap /\ table'.mask = table.mask
  BY DEF Static
<1>4. SnapVersion(table.snap)' = SnapVersion(table.snap)
  <2>1. PICK s : s = table.snap
    OBVIOUS
  <2>2. SnapVersion(s)' = SnapVersion(s)
    BY <1>1
  <2>3. SnapVersion(table.snap)' = SnapVersion(s)'
    BY <1>3, <2>1 DEF SnapVersion
  <2> QED
    BY <2>1, <2>2, <2>3
<1> QED
  BY <1>2, <1>3, <1>4 DEF MaskInv

(* A message after which rows are decoded with the schema in force. *)
LEMMA NewDecoder ==
    ASSUME DecodeInv, ~ Adjacent, Within, Onward, UNCHANGED stored, ClosedInv',
           Owned(CommitLsn(conn.tx)), NEW x, Current(x, Position), NEW m \in Nat \ {NoMask},
           m = Version(Position), conn'.dec = With(x, m), Changes(Position') = Changes(Position),
           AnnounceInv', DecodedInForce'
    PROVE  DecodeInv'
<1>0. PlaceInv /\ CleanupInv /\ EarlyInv /\ StoredInv /\ MaskInv
  BY DEF DecodeInv
<1>1. PlaceInv' /\ CleanupInv' /\ EarlyInv' /\ Static
      /\ (Owned(CommitLsn(conn.tx))' <=> Owned(CommitLsn(conn.tx)))
  BY <1>0, WithinStays
<1>2. StoredInv'
  BY <1>0, <1>1, StoredStays DEF Within
<1>3. Position' \in Nat
  <2>1. conn'.tx \in Nat /\ conn'.item \in Nat
    BY <1>0, PlaceFacts DEF Within
  <2> QED
    BY <2>1, SnapType DEF Position
<1>4. conn'.dec.kind = "with" /\ conn'.dec.snap = x /\ conn'.dec.mask = m
  BY DEF With
<1>5. DecoderInv'
  <2>1. Current(x, Position)'
    BY <1>0, <1>1, <1>3, CurrentOnward
  <2> QED
    BY <1>1, <1>4, <2>1 DEF DecoderInv
<1>6. MaskInv'
  <2>1. Version(Position)' = m
    BY <1>1, PrimedPosition DEF Version
  <2>2. (SnapVersion(table.snap) = table.mask /\ table.mask = Version(SyncedTo + 1))'
    BY <1>0, <1>1, MaskFacts
  <2> QED
    BY <1>4, <2>1, <2>2 DEF MaskInv, NoMask
<1> QED
  BY <1>1, <1>2, <1>5, <1>6 DEF DecodeInv

(* A message that leaves the decoder and sends nothing. *)
LEMMA SameDecoder ==
    ASSUME DecodeInv, ~ Adjacent, Within, Onward, UNCHANGED <<stored, cached, outbox>>,
           conn'.dec = conn.dec,
           conn'.sent => /\ conn.sent /\ Changes(Position') = Changes(Position)
                         /\ Truncates(conn.tx, conn.item)' => conn.dec.kind = "with"
    PROVE  DecodeInv'
<1>0. PlaceInv /\ CleanupInv /\ EarlyInv /\ StoredInv /\ ClosedInv /\ MaskInv /\ DecoderInv
      /\ AnnounceInv /\ DecodedInForce
  BY DEF DecodeInv
<1>1. PlaceInv' /\ CleanupInv' /\ EarlyInv' /\ Static
      /\ (Owned(CommitLsn(conn.tx))' <=> Owned(CommitLsn(conn.tx)))
  BY <1>0, WithinStays
<1>2. StoredInv' /\ ClosedInv'
  BY <1>0, <1>1, StoredStays, ClosedStays DEF Within
<1>3. Position' \in Nat
  <2>1. conn'.tx \in Nat /\ conn'.item \in Nat
    BY <1>0, PlaceFacts DEF Within
  <2> QED
    BY <2>1, SnapType DEF Position
<1>4. outbox \in Seq(Events) /\ Extends /\ Len(outbox') = Len(outbox)
      /\ UNCHANGED meta /\ table' = table /\ conn'.bootstrap = conn.bootstrap
  BY <1>0, ExtendsNot DEF PlaceInv, Within
<1>5. AnnounceInv' /\ DecodedInForce'
  <2>1. \A i : Announced(i, conn.dec.snap)' <=> Announced(i, conn.dec.snap)
    BY <1>4 DEF Announced
  <2>2. \A i, s : Announced(i, s)' <=> Announced(i, s)
    BY <1>4 DEF Announced
  <2>3. AnnounceInv'
    BY <1>0, <1>4, <2>1, <2>2 DEF AnnounceInv
  <2>4. \A s : SnapVersion(s)' = SnapVersion(s)
    BY <1>1, StaticStays
  <2>5. DecodedInForce'
    <3>1. Len(outbox) \in Nat
      BY <1>4, OutboxLen
    <3>2. \A i \in Len(outbox) + 1..Len(outbox') : InForce(outbox'[i])
      BY <1>4, <3>1
    <3> QED
      BY <1>0, <1>1, <1>4, <3>2, InForceExtends
  <2> QED
    BY <2>3, <2>5
<1>6. DecoderInv'
  <2>1. SyncedTo' = SyncedTo /\ Schemas' = Schemas
    BY <1>1, StaticStays
  <2>2. CASE conn.dec.kind # "none"
    <3>1. Owned(CommitLsn(conn.tx)) /\ Current(conn.dec.snap, Position)
      BY <1>0, <2>2 DEF DecoderInv
    <3>2. \A s : Current(s, Position) => Current(s, Position)'
      BY <1>0, <1>1, <1>3, CurrentOnward
    <3>3. Current(conn.dec.snap, Position)'
      <4>1. PICK s : s = conn.dec.snap
        OBVIOUS
      <4>2. Current(s, Position)'
        BY <3>1, <3>2, <4>1
      <4> QED
        BY <4>1, <4>2 DEF Current
    <3> QED
      BY <1>1, <2>2, <3>1, <3>3 DEF DecoderInv
  <2>3. CASE conn.dec.kind = "none"
    <3>1. \A u \in Schemas : u < Position' => u <= SyncedTo \/ u <= conn.bootstrap
      BY <1>0, <2>3, SchemaFacts DEF DecoderInv, Onward
    <3> QED
      BY <1>0, <1>4, <2>1, <2>3, <3>1 DEF DecoderInv
  <2> QED
    BY <2>2, <2>3
<1>7. MaskInv'
  <2>1. Version(Position)' = Version(Position') /\ Changes(Position)' = Changes(Position')
        /\ Changes(SyncedTo + 1)' = Changes(SyncedTo + 1)
    BY <1>1, PrimedPosition
  <2>2. (SnapVersion(table.snap) = table.mask /\ table.mask = Version(SyncedTo + 1))'
    BY <1>0, <1>1, MaskFacts
  <2>3. conn'.sent /\ conn'.dec.mask # NoMask => conn'.dec.mask = Version(Position)'
    <3>1. Changes(Position') = Changes(Position) => Version(Position') = Version(Position)
      BY DEF Version
    <3> QED
      BY <1>0, <2>1, <3>1 DEF MaskInv
  <2>4. conn'.sent /\ conn'.dec.mask = NoMask =>
          table'.kind = "syncdone" /\ Changes(Position)' \subseteq Changes(SyncedTo + 1)'
    BY <1>0, <1>4, <2>1 DEF MaskInv
  <2> QED
    BY <1>0, <2>2, <2>3, <2>4 DEF MaskInv
<1> QED
  BY <1>1, <1>2, <1>5, <1>6, <1>7 DEF DecodeInv

LEMMA AdvanceFields ==
    ASSUME ConnTypes, NEW d, conn' = Advance(d), conn.sent \in BOOLEAN
    PROVE  /\ conn'.tx = conn.tx /\ conn'.item = conn.item + 1 /\ conn'.bootstrap = conn.bootstrap
           /\ conn'.dec = d /\ conn'.sent \in BOOLEAN
           /\ conn'.sent => conn.sent /\ wal[conn.tx][conn.item] # "ddl"
                            /\ ~ Truncates(conn.tx, conn.item + 1)
<1>1. PICK b \in BOOLEAN : b = (conn.sent /\ wal[conn.tx][conn.item] # "ddl"
                                /\ ~ Truncates(conn.tx, conn.item + 1))
  OBVIOUS
<1>2. conn' = [conn EXCEPT !.item = @ + 1, !.dec = d, !.sent = b]
  BY <1>1, Zenon DEF Advance
<1> QED
  BY <1>1, <1>2 DEF ConnTypes

LEMMA ItemFacts ==
    ASSUME PlaceInv, ~ Adjacent, NEW items, AtItem(items)
    PROVE  /\ verdict = "ok" /\ conn.tx <= NumTx /\ conn.tx \in 1..NumTx /\ conn.item <= Len(wal[conn.tx])
           /\ conn.item + 1 <= Len(wal[conn.tx]) + 1 /\ wal[conn.tx][conn.item] \in items
           /\ Len(wal[conn.tx]) \in Nat /\ conn.item < Width
<1>1. conn.tx \in 1..NumTx /\ WalTyped
  BY PlaceFacts DEF AtItem, Live
<1>2. Len(wal[conn.tx]) \in Nat /\ Len(wal[conn.tx]) < Width
  BY <1>1, WalItem
<1> QED
  BY <1>1, <1>2, PlaceFacts DEF AtItem, Live

(* Passing an item leaves the changes before the stream's position as long *)
(* as the relation need not be sent again.                                 *)
LEMMA AdvanceChanges ==
    ASSUME PlaceInv, ~ Adjacent, NEW items, AtItem(items), conn'.tx = conn.tx, conn'.item = conn.item + 1,
           wal[conn.tx][conn.item] # "ddl"
    PROVE  Changes(Position') = Changes(Position)
<1>1. Position' = Snap(conn.tx, conn.item + 1)
  BY DEF Position
<1>2. /\ WalTyped /\ conn.tx \in 1..NumTx /\ conn.item \in Nat /\ 1 <= conn.item
      /\ conn.item <= Len(wal[conn.tx])
  BY ItemFacts, PlaceFacts
<1>3. Changes(Snap(conn.tx, conn.item + 1)) = Changes(Snap(conn.tx, conn.item))
  BY <1>2, PassItem
<1> QED
  BY <1>1, <1>3 DEF Position

(* An item of a transaction that is not the apply worker's. *)
LEMMA SkipDecodes ==
    ASSUME DecodeInv, ConnTypes, ~ Adjacent, NEW items, AtItem(items), ~ Owned(CommitLsn(conn.tx)),
           conn' = Advance(conn.dec),
           UNCHANGED <<wal, base, table, stored, cached, meta, checkpoint, outbox, queue>>
    PROVE  DecodeInv'
<1>0. PlaceInv /\ CleanupInv /\ EarlyInv /\ conn.sent \in BOOLEAN /\ outbox \in Seq(Events)
      /\ conn.dec \in Decoders
  BY DEF DecodeInv, PlaceInv
<1>1. /\ conn'.tx = conn.tx /\ conn'.item = conn.item + 1 /\ conn'.bootstrap = conn.bootstrap
      /\ conn'.dec = conn.dec /\ conn'.sent \in BOOLEAN
      /\ conn'.sent => conn.sent /\ wal[conn.tx][conn.item] # "ddl"
                            /\ ~ Truncates(conn.tx, conn.item + 1)
  BY <1>0, AdvanceFields
<1>2. Within
  <2>1. Extends /\ Len(outbox') = Len(outbox) /\ Len(outbox) \in Nat
    BY <1>0, ExtendsNot, OutboxLen
  <2> QED
    BY <1>0, <1>1, <2>1, ItemFacts DEF Within
<1>3. Onward
  BY <1>0, <1>1, <1>2, ItemFacts, WithinOnward
<1>4. conn'.sent => Changes(Position') = Changes(Position)
  BY <1>0, <1>1, AdvanceChanges
<1>5. conn'.sent => ~ Truncates(conn.tx, conn.item)'
  BY <1>1 DEF Truncates
<1> QED
  BY <1>1, <1>2, <1>3, <1>4, <1>5, SameDecoder

LEMMA InvalidateDecodes == ASSUME DecodeInv, ConnTypes, ~ Adjacent, Invalidate PROVE DecodeInv'
<1>0. PlaceInv /\ CleanupInv /\ EarlyInv /\ conn.dec \in Decoders /\ outbox \in Seq(Events)
      /\ conn.tx <= NumTx /\ Live
  BY DEF DecodeInv, PlaceInv, Invalidate, Live
<1>1. /\ conn'.tx = conn.tx /\ conn'.item = conn.item /\ conn'.bootstrap = conn.bootstrap
      /\ conn'.dec = conn.dec /\ conn'.sent = FALSE
  BY DEF Invalidate, ConnTypes
<1>2. Within
  <2>1. UNCHANGED <<wal, base, table, meta, checkpoint, outbox, queue>>
    BY DEF Invalidate
  <2>2. Extends /\ Len(outbox') = Len(outbox) /\ Len(outbox) \in Nat
    BY <1>0, <2>1, ExtendsNot, OutboxLen
  <2>3. conn.item <= Len(wal[conn.tx]) + 1
    BY <1>0, PlaceFacts DEF PlaceInv
  <2>4. Len(outbox) + 1..Len(outbox') = {}
    BY <2>2
  <2>5. conn'.sent \in BOOLEAN /\ conn'.dec \in Decoders
    BY <1>0, <1>1
  <2> QED
    BY <1>0, <1>1, <2>1, <2>2, <2>3, <2>4, <2>5 DEF Within
<1>3. Onward
  BY <1>0, <1>1, <1>2, WithinOnward
<1>4. UNCHANGED <<stored, cached, outbox>>
  BY DEF Invalidate
<1> QED
  BY <1>1, <1>2, <1>3, <1>4, SameDecoder

LEMMA DdlDecodes ==
    ASSUME RetentionInv, DecodeInv, ~ Adjacent, HandleDdlMessage
    PROVE  DecodeInv' /\ verdict' = "ok"
<1>0. /\ PlaceInv /\ StoredInv /\ ClosedInv /\ CleanupInv /\ EarlyInv /\ MaskInv /\ AnnounceInv
      /\ DecodedInForce /\ conn.sent \in BOOLEAN /\ outbox \in Seq(Events) /\ conn.dec \in Decoders
      /\ ConnTypes /\ Snapshots(stored) /\ Snapshots(cached) /\ AtItem({"ddl", "noop"})
  BY DEF DecodeInv, PlaceInv, RetentionInv, DecodingTypes, HandleDdlMessage
<1>1. /\ UNCHANGED <<wal, base, table, meta, checkpoint, outbox, queue, verdict>> /\ verdict' = "ok"
  BY <1>0, ItemFacts DEF HandleDdlMessage
<1>2. CASE ~ Owned(CommitLsn(conn.tx))
  BY <1>0, <1>1, <1>2, SkipDecodes DEF HandleDdlMessage, Unowned
<1>3. CASE Owned(CommitLsn(conn.tx))
  <2>0. /\ WalTyped /\ Position \in Nat \ {NoSnapshot} /\ Schemas \subseteq Nat /\ SyncedTo \in Nat
        /\ SyncedTo + 1 < Position /\ conn.tx \in 1..NumTx /\ conn.tx <= NumTx /\ conn.item \in Nat
        /\ 1 <= conn.item /\ conn.tx \in Nat
        /\ conn.item <= Len(wal[conn.tx]) /\ Len(wal[conn.tx]) \in Nat
        /\ stored \subseteq Nat /\ cached \subseteq stored /\ table.snap \in Nat /\ table.snap <= SyncedTo
    <3>1. conn.tx \in Nat /\ conn.item \in Nat
      BY <1>0, PlaceFacts
    <3>2. Position \in Nat \ {NoSnapshot}
      BY <3>1, SnapType DEF Position
    <3> QED
      BY <1>0, <1>3, <3>1, <3>2, PlaceFacts, SchemaFacts, OwnedIs, ItemFacts DEF Snapshots, ClosedInv
  <2>1. /\ conn' = Advance(Pending(Position, conn.dec.mask))
        /\ stored' = stored \cup {Position} /\ cached' = InsertWithEviction(cached, Position, MaxCached)
    BY <1>3 DEF HandleDdlMessage, Unowned, StoreTableSchema, Position
  <2>2. PICK d : d = Pending(Position, conn.dec.mask)
    OBVIOUS
  <2>3. d.kind = "pending" /\ d.snap = Position /\ d.mask = conn.dec.mask /\ d \in Decoders
    BY <1>0, <2>0, <2>2 DEF Pending, Decoders
  <2>4. /\ conn'.tx = conn.tx /\ conn'.item = conn.item + 1 /\ conn'.bootstrap = conn.bootstrap
        /\ conn'.dec = d /\ conn'.sent \in BOOLEAN
        /\ conn'.sent => conn.sent /\ wal[conn.tx][conn.item] # "ddl"
                         /\ ~ Truncates(conn.tx, conn.item + 1)
    BY <1>0, <2>1, <2>2, AdvanceFields
  <2>5. Within
    <3>1. Extends /\ Len(outbox') = Len(outbox) /\ Len(outbox) \in Nat
      BY <1>0, <1>1, ExtendsNot, OutboxLen
    <3>2. Len(outbox) + 1..Len(outbox') = {}
      BY <3>1
    <3> QED
      BY <1>1, <2>0, <2>3, <2>4, <3>1, <3>2 DEF Within
  <2>6. PlaceInv' /\ CleanupInv' /\ EarlyInv' /\ Static
        /\ (Owned(CommitLsn(conn.tx))' <=> Owned(CommitLsn(conn.tx)))
    BY <1>0, <2>5, WithinStays
  <2>7. Position' = Position + 1
    <3>1. Position' = Snap(conn.tx, conn.item + 1)
      BY <2>4 DEF Position
    <3>2. Snap(conn.tx, conn.item + 1) = Position + 1
      BY <2>0, SnapNext DEF Position
    <3> QED
      BY <3>1, <3>2
  <2>8. Schemas' = Schemas /\ table'.snap = table.snap
    BY <2>6, StaticStays DEF Static
  <2>9. Position \in Schemas
    <3>1. wal[conn.tx][conn.item] \in {"ddl", "noop"}
      BY <1>0, ItemFacts
    <3>2. IsDdl(conn.tx, conn.item) /\ conn.item \in 1..Len(wal[conn.tx])
      BY <2>0, <3>1 DEF IsDdl
    <3>3. Position \in DdlSnaps(1, NumTx)
      BY <2>0, <3>2, DdlSnapIs DEF Position
    <3> QED
      BY <2>0, <3>3 DEF Schemas
  <2>10. StoredInv'
    <3>1. \A s \in stored' : s <= table.snap \/ s \in Schemas
      BY <1>0, <2>1, <2>9 DEF StoredInv
    <3>2. ASSUME NEW s \in Schemas, s < Position' \/ s = table.snap,
                 \A u \in Schemas : u <= AtLsn(checkpoint) => u <= s
          PROVE  s \in stored'
      <4>1. s < Position \/ s = Position \/ s = table.snap
        BY <2>0, <2>7, <3>2
      <4>2. CASE s = Position
        BY <2>1, <4>2
      <4>3. CASE s < Position \/ s = table.snap
        BY <1>0, <2>1, <3>2, <4>3 DEF StoredInv
      <4> QED
        BY <4>1, <4>2, <4>3
    <3> QED
      BY <1>1, <2>8, <3>1, <3>2 DEF StoredInv
  <2>11. ClosedInv'
    <3>1. cached' \subseteq cached \cup {Position}
      BY <1>0, <2>0, <2>1, EvictIn
    <3>2. ASSUME NEW c \in cached', NEW s \in stored', c < s, s < Position' \/ s <= table.snap
          PROVE  s \in cached'
      <4>0. c \in Nat /\ s \in Nat /\ s <= Position
        BY <2>0, <2>1, <2>7, <3>1, <3>2
      <4>1. c \in cached
        BY <3>1, <3>2, <4>0, <2>0
      <4>2. s \in cached \cup {Position}
        <5>1. CASE s = Position
          BY <5>1
        <5>2. CASE s # Position
          <6>1. s \in stored /\ s < Position
            BY <2>0, <2>1, <3>2, <4>0, <5>2
          <6> QED
            BY <1>0, <3>2, <4>1, <6>1 DEF ClosedInv
        <5> QED
          BY <5>1, <5>2
      <4> QED
        BY <1>0, <2>0, <2>1, <3>2, <4>2, EvictOldest
    <3>3. cached' \subseteq stored'
      BY <2>0, <2>1, <3>1
    <3> QED
      BY <2>8, <3>2, <3>3 DEF ClosedInv
  <2>12. DecoderInv'
    <3>1. \A u \in Schemas : u < Position' => u <= Position
      BY <2>0, <2>7
    <3>2. Position < Position'
      BY <2>0, <2>7
    <3>3. Current(conn.dec.snap, Position)'
      BY <2>3, <2>4, <2>8, <2>9, <3>1, <3>2 DEF Current
    <3> QED
      BY <1>3, <2>3, <2>4, <2>6, <3>3 DEF DecoderInv
  <2>13. MaskInv'
    <3>1. Version(Position)' = Version(Position') /\ Changes(Position)' = Changes(Position')
          /\ Changes(SyncedTo + 1)' = Changes(SyncedTo + 1)
      BY <2>6, PrimedPosition
    <3>2. (SnapVersion(table.snap) = table.mask /\ table.mask = Version(SyncedTo + 1))'
      BY <1>0, <2>6, MaskFacts
    <3>3. conn'.sent => Changes(Position') = Changes(Position) /\ Version(Position') = Version(Position)
      BY <1>0, <2>4, AdvanceChanges DEF Version
    <3>4. conn'.sent /\ conn'.dec.mask # NoMask => conn'.dec.mask = Version(Position)'
      BY <1>0, <2>3, <2>4, <3>1, <3>3 DEF MaskInv
    <3>5. conn'.sent /\ conn'.dec.mask = NoMask =>
            table'.kind = "syncdone" /\ Changes(Position)' \subseteq Changes(SyncedTo + 1)'
      BY <1>0, <1>1, <2>3, <2>4, <3>1, <3>3 DEF MaskInv
    <3>6. conn'.sent => ~ Truncates(conn.tx, conn.item)'
      BY <1>1, <2>4 DEF Truncates
    <3> QED
      BY <2>3, <2>4, <3>2, <3>4, <3>5, <3>6 DEF MaskInv
  <2>14. AnnounceInv'
    <3>1. \A i, s : Announced(i, s)' <=> Announced(i, s)
      BY <1>1 DEF Announced
    <3> QED
      BY <1>0, <1>1, <2>3, <2>4, <3>1 DEF AnnounceInv
  <2>15. DecodedInForce'
    <3>1. Extends /\ Len(outbox') = Len(outbox) /\ Len(outbox) \in Nat
      BY <1>0, <1>1, ExtendsNot, OutboxLen
    <3>2. Len(outbox) + 1..Len(outbox') = {}
      BY <3>1
    <3> QED
      BY <1>0, <2>6, <3>1, <3>2, InForceExtends
  <2> QED
    BY <1>1, <2>6, <2>10, <2>11, <2>12, <2>13, <2>14, <2>15 DEF DecodeInv
<1> QED
  BY <1>2, <1>3

(* A lookup of the schema in force leaves no hole in the cache. *)
LEMMA LookupCloses ==
    ASSUME PlaceInv, ~ Adjacent, Snapshots(stored), Snapshots(cached), StoredInv, ClosedInv,
           NEW x, Current(x, Position), NEW id \in Nat, x <= id, id < Position \/ id = x,
           Static, Onward, UNCHANGED stored, cached' = CacheAfterLookup(id)
    PROVE  ClosedInv'
<1>0. /\ Lookup(id) = x /\ x \in stored /\ x \in Nat \ {NoSnapshot}
      /\ \A s \in stored : s < Position \/ s <= table.snap => s <= x
      /\ AtOrBefore(cached, id) = {} => \A c \in cached : x < c
  BY LookupCurrent
<1>1. CASE AtOrBefore(cached, id) # {}
  <2>1. cached' = cached
    BY <1>1 DEF CacheAfterLookup
  <2> QED
    BY <2>1, ClosedStays
<1>2. CASE AtOrBefore(cached, id) = {}
  <2>1. cached' = InsertWithEviction(cached, x, MaxCached)
    BY <1>0, <1>2 DEF CacheAfterLookup
  <2>2. cached' \subseteq cached \cup {x}
    BY <1>0, <2>1, EvictIn
  <2>3. cached' \subseteq stored'
    BY <1>0, <2>2 DEF ClosedInv
  <2>4. ASSUME NEW c \in cached', NEW s \in stored, c < s, s < Position' \/ s <= table.snap
        PROVE  FALSE
    <3>1. x <= c /\ c \in Nat /\ s \in Nat
      BY <1>0, <1>2, <2>2 DEF Snapshots
    <3>2. s <= table.snap \/ s \in Schemas
      BY DEF StoredInv
    <3>3. s < Position \/ s <= table.snap
      BY <2>4, <3>1, <3>2, PlaceFacts DEF Onward
    <3> QED
      BY <1>0, <2>4, <3>1, <3>3
  <2>5. table'.snap = table.snap
    BY DEF Static
  <2> QED
    BY <2>3, <2>4, <2>5 DEF ClosedInv
<1> QED
  BY <1>1, <1>2

LEMMA CurrentUnique ==
    ASSUME PlaceInv, ~ Adjacent, NEW x, Current(x, Position), NEW y, Current(y, Position)
    PROVE  x = y
<1>1. Schemas \subseteq Nat /\ \A u \in Schemas : table.snap <= u
  BY SchemaFacts
<1>2. x \in Schemas /\ (x < Position \/ x = table.snap) /\ \A u \in Schemas : u < Position => u <= x
  BY DEF Current
<1>3. y \in Schemas /\ (y < Position \/ y = table.snap) /\ \A u \in Schemas : u < Position => u <= y
  BY DEF Current
<1>4. x <= y /\ y <= x /\ x \in Nat /\ y \in Nat
  BY <1>1, <1>2, <1>3
<1> QED
  BY <1>4

(* select_relation_schema asks for the schema in force. *)
LEMMA SelectionIs ==
    ASSUME DecodeInv, ~ Adjacent, Owned(CommitLsn(conn.tx)), NEW x, Current(x, Position)
    PROVE  /\ Selection.id \in Nat /\ x <= Selection.id
           /\ Selection.id < Position \/ Selection.id = x
           /\ Selection.exact => Selection.id = x
<1>0. /\ PlaceInv /\ DecoderInv /\ Schemas \subseteq Nat /\ SyncedTo \in Nat /\ Position \in Nat
      /\ SyncedTo + 1 < Position /\ table.lsn <= CommitLsn(conn.tx)
      /\ conn.bootstrap \in Nat /\ conn.bootstrap < Position
      /\ x \in Schemas /\ x \in Nat /\ (x < Position \/ x = table.snap)
      /\ \A u \in Schemas : u < Position => u <= x
      /\ table.snap <= SyncedTo /\ table.snap \in Nat /\ table.kind \in {"syncdone", "ready"}
  <2>1. PlaceInv /\ DecoderInv
    BY DEF DecodeInv
  <2> QED
    BY <2>1, PlaceFacts, SchemaFacts, OwnedIs DEF PlaceInv, Current
<1>1. CASE conn.dec.kind # "none"
  <2>1. Selection = [exact |-> TRUE, id |-> conn.dec.snap]
    BY <1>1 DEF Selection
  <2>2. Current(conn.dec.snap, Position)
    BY <1>0, <1>1 DEF DecoderInv
  <2>4. conn.dec.snap = x
    BY <1>0, <2>2, CurrentUnique
  <2> QED
    BY <1>0, <2>1, <2>4
<1>2. CASE conn.dec.kind = "none"
  <2>1. Selection = [exact |-> FALSE,
                     id |-> IF table.kind = "syncdone" /\ table.lsn <= CommitLsn(conn.tx)
                               /\ SyncedTo > conn.bootstrap
                            THEN SyncedTo ELSE conn.bootstrap]
    BY <1>2 DEF Selection, SyncedTo
  <2>2. x <= SyncedTo \/ x <= conn.bootstrap
    BY <1>0, <1>2 DEF DecoderInv
  <2>3. table.kind = "ready" => SyncedTo <= conn.bootstrap
    BY <1>0, <1>2 DEF DecoderInv
  <2> QED
    BY <1>0, <2>1, <2>2, <2>3
<1> QED
  BY <1>1, <1>2

LEMMA EventTypes ==
    ASSUME NEW s \in Nat, NEW m \in Nat, NEW v \in Nat
    PROVE  /\ RelationEvent(s, m) \in Events /\ RowEvent(s, m, v) \in Events /\ CommitEvent(s) \in Events
           /\ RelationEvent(s, m).type = "relation" /\ RelationEvent(s, m).snap = s
           /\ RowEvent(s, m, v).type = "row" /\ RowEvent(s, m, v).snap = s
           /\ RowEvent(s, m, v).mask = m /\ RowEvent(s, m, v).version = v
           /\ CommitEvent(s).type = "commit" /\ CommitEvent(s).snap = s
BY DEF RelationEvent, RowEvent, CommitEvent, Events, NoMask

LEMMA RelationDecodes ==
    ASSUME RetentionInv, DecodeInv, ~ Adjacent, HandleRelationMessage
    PROVE  DecodeInv' /\ verdict' = "ok"
<1>0. /\ PlaceInv /\ StoredInv /\ ClosedInv /\ CleanupInv /\ EarlyInv /\ MaskInv /\ DecoderInv /\ AnnounceInv
      /\ DecodedInForce /\ conn.sent \in BOOLEAN /\ outbox \in Seq(Events) /\ conn.dec \in Decoders
      /\ ConnTypes /\ Snapshots(stored) /\ Snapshots(cached) /\ AtItem({"row", "trunc"})
  BY DEF DecodeInv, PlaceInv, RetentionInv, DecodingTypes, HandleRelationMessage
<1>1. /\ WalTyped /\ Position \in Nat /\ conn.tx <= NumTx /\ conn.item <= Len(wal[conn.tx])
      /\ Len(wal[conn.tx]) \in Nat /\ conn.item \in Nat /\ verdict = "ok" /\ Len(outbox) \in Nat
      /\ wal[conn.tx][conn.item] \in {"row", "trunc"}
  BY <1>0, PlaceFacts, ItemFacts, OutboxLen
<1>2. CASE ~ Owned(CommitLsn(conn.tx))
  <2>1. /\ conn' = [conn EXCEPT !.sent = TRUE]
        /\ UNCHANGED <<wal, base, table, stored, cached, meta, checkpoint, outbox, flagged, queue, verdict>>
    BY <1>2 DEF HandleRelationMessage, Unowned
  <2>2. /\ conn'.tx = conn.tx /\ conn'.item = conn.item /\ conn'.bootstrap = conn.bootstrap
        /\ conn'.dec = conn.dec /\ conn'.sent = TRUE
    BY <1>0, <2>1 DEF ConnTypes
  <2>3. Extends /\ Len(outbox') = Len(outbox) /\ Len(outbox) + 1..Len(outbox') = {}
    BY <1>0, <1>1, <2>1, ExtendsNot
  <2>4. Within
    BY <1>0, <1>1, <2>1, <2>2, <2>3 DEF Within
  <2>5. PlaceInv' /\ CleanupInv' /\ EarlyInv' /\ Static
        /\ (Owned(CommitLsn(conn.tx))' <=> Owned(CommitLsn(conn.tx)))
    BY <1>0, <2>4, WithinStays
  <2>6. Onward /\ Position' = Position
    BY <1>0, <2>2, <2>4, WithinOnward DEF Position
  <2>7. StoredInv' /\ ClosedInv'
    BY <1>0, <2>1, <2>5, <2>6, StoredStays, ClosedStays
  <2>8. conn.dec.kind = "none"
    BY <1>0, <1>2 DEF DecoderInv
  <2>9. /\ Position <= SyncedTo + 1 /\ checkpoint + 1 < table.lsn /\ table.kind = "syncdone"
        /\ SyncedTo \in Nat
    BY <1>0, <1>2, OwnedIs, PlaceFacts
  <2>10. DecoderInv'
    <3>1. meta.status = "applied" /\ meta.snap = table.snap
      BY <1>0, <2>9 DEF EarlyInv
    <3>2. conn.bootstrap <= SyncedTo
      BY <1>0, <1>1, <2>9 DEF PlaceInv
    <3>3. SyncedTo' = SyncedTo /\ Schemas' = Schemas
      BY <2>5, StaticStays
    <3> QED
      BY <1>0, <2>1, <2>2, <2>6, <2>8, <3>1, <3>2, <3>3 DEF DecoderInv
  <2>11. MaskInv'
    <3>1. Changes(Position)' = Changes(Position) /\ Changes(SyncedTo + 1)' = Changes(SyncedTo + 1)
      BY <2>5, <2>6, PrimedPosition
    <3>2. (SnapVersion(table.snap) = table.mask /\ table.mask = Version(SyncedTo + 1))'
      BY <1>0, <2>5, MaskFacts
    <3>3. Changes(Position) \subseteq Changes(SyncedTo + 1)
      BY <1>1, <2>9, ChangesRise
    <3>4. conn'.dec.mask = NoMask /\ conn'.dec.kind = "none"
      BY <1>0, <2>2, <2>8 DEF DecoderInv
    <3> QED
      BY <1>2, <2>1, <2>5, <2>9, <3>1, <3>2, <3>3, <3>4 DEF MaskInv
  <2>12. AnnounceInv'
    <3>1. \A i, s : Announced(i, s)' <=> Announced(i, s)
      BY <2>1 DEF Announced
    <3> QED
      BY <1>0, <2>1, <2>2, <2>8, <3>1 DEF AnnounceInv
  <2>13. DecodedInForce'
    BY <1>0, <2>3, <2>5, InForceExtends
  <2> QED
    BY <1>1, <2>1, <2>5, <2>7, <2>10, <2>11, <2>12, <2>13 DEF DecodeInv
<1>3. CASE Owned(CommitLsn(conn.tx))
  <2>1. PICK x : Current(x, Position)
    BY <1>0, CurrentExists
  <2>2. PICK id : id = Selection.id
    OBVIOUS
  <2>3. id \in Nat /\ x <= id /\ (id < Position \/ id = x) /\ (Selection.exact => id = x)
    BY <1>3, <2>1, <2>2, SelectionIs
  <2>4. Lookup(id) = x /\ x \in Nat \ {NoSnapshot} /\ x \in stored
    BY <1>0, <2>1, <2>3, LookupCurrent
  <2>5. /\ conn' = [conn EXCEPT !.sent = TRUE, !.dec = With(x, Here)]
        /\ cached' = CacheAfterLookup(id)
        /\ outbox' = Append(outbox, RelationEvent(x, Here))
        /\ UNCHANGED <<wal, base, table, stored, meta, checkpoint, flagged, queue, verdict, breaks>>
    BY <1>3, <2>2, <2>3, <2>4 DEF HandleRelationMessage, Unowned
  <2>6. Here = Version(Position) /\ Here \in Nat \ {NoMask}
    BY <1>0, <1>1, HereIs
  <2>7. PICK m \in Nat \ {NoMask} : m = Here
    BY <2>6
  <2>8. /\ conn'.tx = conn.tx /\ conn'.item = conn.item /\ conn'.bootstrap = conn.bootstrap
        /\ conn'.dec = With(x, m) /\ conn'.sent = TRUE
    BY <1>0, <2>5, <2>7 DEF ConnTypes
  <2>9. PICK e : e = RelationEvent(x, m)
    OBVIOUS
  <2>10. e \in Events /\ e.type = "relation" /\ e.snap = x
    BY <2>4, <2>7, <2>9, EventTypes
  <2>11. Extends /\ Len(outbox') = Len(outbox) + 1 /\ outbox'[Len(outbox) + 1] = e
    BY <1>0, <2>5, <2>7, <2>9, <2>10, ExtendsOne
  <2>12. Within
    <3>1. With(x, m) \in Decoders
      BY <2>4 DEF With, Decoders
    <3>2. \A i \in Len(outbox) + 1..Len(outbox') : i = Len(outbox) + 1
      BY <1>1, <2>11
    <3> QED
      BY <1>0, <1>1, <1>3, <2>5, <2>8, <2>10, <2>11, <3>1, <3>2 DEF Within
  <2>13. Onward /\ Position' = Position /\ Static
    BY <1>0, <2>8, <2>12, WithinOnward, WithinStays DEF Position
  <2>14. ClosedInv'
    BY <1>0, <2>1, <2>3, <2>5, <2>13, LookupCloses
  <2>15. AnnounceInv'
    <3>1. \A i \in Len(outbox) + 1..Len(outbox') : outbox'[i].type # "row"
      BY <1>1, <2>10, <2>11
    <3>2. Announced(Len(outbox) + 1, conn.dec.snap)'
      <4>1. conn'.dec.snap = x
        BY <2>8 DEF With
      <4>2. PICK j : j = Len(outbox) + 1
        OBVIOUS
      <4>3. /\ j \in 1..(Len(outbox') + 1) - 1 /\ outbox'[j].type = "relation" /\ outbox'[j].snap = x
            /\ j + 1..(Len(outbox') + 1) - 1 = {}
        BY <1>1, <2>10, <2>11, <4>2
      <4> QED
        BY <4>1, <4>3 DEF Announced
    <3> QED
      BY <1>0, <2>5, <2>11, <3>1, <3>2, AnnounceExtends
  <2>16. DecodedInForce'
    <3>1. \A i \in Len(outbox) + 1..Len(outbox') : InForce(outbox'[i])
      BY <1>1, <2>10, <2>11 DEF InForce
    <3> QED
      BY <1>0, <2>11, <2>13, <3>1, InForceExtends
  <2>17. m = Version(Position) /\ Changes(Position') = Changes(Position) /\ UNCHANGED stored
    BY <2>5, <2>6, <2>7, <2>13
  <2>18. DecodeInv'
    BY <1>3, <2>1, <2>7, <2>8, <2>12, <2>13, <2>14, <2>15, <2>16, <2>17, NewDecoder
  <2> QED
    BY <1>1, <2>5, <2>18
<1> QED
  BY <1>2, <1>3

(* What get_replicated_table_schema resolves: the schema and the masks in  *)
(* force, and whether the destination has to hear of them first.           *)
LEMMA ResolvedIs ==
    ASSUME DecodeInv, ~ Adjacent, Owned(CommitLsn(conn.tx)), conn.sent
    PROVE  \E x, m : /\ Current(x, Position) /\ m = Version(Position) /\ m \in Nat \ {NoMask}
                     /\ Resolved.dec = With(x, m)
                     /\ \/ Resolved.relation = <<>> /\ Announced(Len(outbox) + 1, x)
                        \/ Resolved.relation = <<RelationEvent(x, m)>>
<1>0. /\ PlaceInv /\ DecoderInv /\ MaskInv /\ AnnounceInv /\ SyncedTo \in Nat /\ Position \in Nat
      /\ SyncedTo + 1 < Position /\ table.lsn <= CommitLsn(conn.tx) /\ WalTyped
      /\ conn.dec \in Decoders /\ table.mask \in Nat \ {NoMask} /\ Version(Position) \in Nat \ {NoMask}
      /\ table.snap \in Schemas /\ Schemas \subseteq Nat /\ table.snap <= SyncedTo
      /\ table.snap \in Nat /\ outbox \in Seq(Events)
  <2>1. PlaceInv /\ DecoderInv /\ MaskInv /\ AnnounceInv
    BY DEF DecodeInv
  <2>2. table.mask \in Nat \ {NoMask} /\ Version(Position) \in Nat \ {NoMask}
    <3>1. \A p : Version(p) \in Nat \ {NoMask}
      BY VersionType
    <3>2. table.mask = Version(SyncedTo + 1)
      BY <2>1 DEF MaskInv
    <3> QED
      BY <3>1, <3>2
  <2> QED
    BY <2>1, <2>2, PlaceFacts, OwnedIs, SchemaFacts DEF PlaceInv
<1>1. CASE conn.dec.kind = "with"
  <2>1. Resolved.dec = conn.dec /\ Resolved.relation = <<>>
    BY <1>1 DEF Resolved
  <2>2. Current(conn.dec.snap, Position) /\ Announced(Len(outbox) + 1, conn.dec.snap)
    BY <1>0, <1>1 DEF DecoderInv, AnnounceInv
  <2>3. conn.dec.mask = Version(Position)
    BY <1>0, <1>1 DEF MaskInv
  <2>4. conn.dec = With(conn.dec.snap, conn.dec.mask)
    BY <1>0, <1>1 DEF With, Decoders
  <2> QED
    BY <1>0, <2>1, <2>2, <2>3, <2>4
<1>2. ASSUME conn.dec.kind # "with", conn.dec.mask = NoMask
      PROVE  /\ table.kind = "syncdone" /\ table.mask = Version(Position)
             /\ SyncDoneDecoder = With(table.snap, table.mask)
  <2>1. table.kind = "syncdone" /\ Changes(Position) \subseteq Changes(SyncedTo + 1)
    BY <1>0, <1>2 DEF MaskInv
  <2>2. Changes(SyncedTo + 1) \subseteq Changes(Position)
    BY <1>0, ChangesRise
  <2>3. Version(Position) = Version(SyncedTo + 1)
    BY <2>1, <2>2 DEF Version
  <2> QED
    BY <1>0, <2>1, <2>3 DEF MaskInv, SyncDoneDecoder
<1>3. CASE conn.dec.kind = "pending"
  <2>0. PICK mask : mask = IF conn.dec.mask # NoMask THEN conn.dec.mask ELSE SyncDoneDecoder.mask
    OBVIOUS
  <2>1. Resolved = [dec |-> With(conn.dec.snap, mask),
                    relation |-> <<RelationEvent(conn.dec.snap, mask)>>]
    BY <1>3, <2>0 DEF Resolved
  <2>2. Current(conn.dec.snap, Position)
    BY <1>0, <1>3 DEF DecoderInv
  <2>3. mask = Version(Position)
    <3>1. CASE conn.dec.mask # NoMask
      BY <1>0, <2>0, <3>1 DEF MaskInv
    <3>2. CASE conn.dec.mask = NoMask
      BY <1>2, <1>3, <2>0, <3>2 DEF With
    <3> QED
      BY <3>1, <3>2
  <2> QED
    BY <1>0, <2>1, <2>2, <2>3
<1>4. CASE conn.dec.kind = "none"
  <2>1. Resolved = [dec |-> SyncDoneDecoder, relation |-> <<>>]
    BY <1>4 DEF Resolved
  <2>2. /\ conn.dec.mask = NoMask /\ meta.status = "applied" /\ meta.snap = table.snap
        /\ conn.bootstrap <= SyncedTo
        /\ \A u \in Schemas : u < Position => u <= SyncedTo \/ u <= conn.bootstrap
        /\ \A i \in 1..Len(outbox) : outbox[i].type = "commit"
    BY <1>0, <1>4 DEF DecoderInv
  <2>3. Current(table.snap, Position)
    <3>1. ASSUME NEW u \in Schemas, u < Position PROVE u <= table.snap
      <4>1. u <= SyncedTo
        BY <1>0, <2>2, <3>1 DEF PlaceInv
      <4>2. u = table.snap \/ SyncedTo < u
        BY <1>0, SchemaFacts
      <4> QED
        BY <1>0, <4>1, <4>2
    <3> QED
      BY <1>0, <3>1 DEF Current
  <2>4. Announced(Len(outbox) + 1, table.snap)
    <3>1. Len(outbox) \in Nat
      BY <1>0, OutboxLen
    <3>2. (Len(outbox) + 1) - 1 = Len(outbox)
      BY <3>1
    <3> QED
      BY <2>2, <3>2 DEF Announced
  <2>5. table.mask = Version(Position) /\ SyncDoneDecoder = With(table.snap, table.mask)
    BY <1>2, <1>4, <2>2
  <2>6. Resolved.dec = With(table.snap, table.mask) /\ Resolved.relation = <<>>
    BY <2>1, <2>5
  <2> QED
    BY <1>0, <2>3, <2>4, <2>5, <2>6
<1> QED
  BY <1>0, <1>1, <1>3, <1>4 DEF Decoders

(* A row decoded, in an outbox that ends with it. *)
LEMMA RowSent ==
    ASSUME DecodeInv, ~ Adjacent, ConnTypes, NEW items, AtItem(items),
           ~ IsDdl(conn.tx, conn.item), wal[conn.tx][conn.item] # "ddl",
           Owned(CommitLsn(conn.tx)), NEW x, Current(x, Position), x \in Nat,
           NEW m \in Nat \ {NoMask}, m = Version(Position),
           conn' = Advance(With(x, m)),
           UNCHANGED <<wal, base, table, meta, checkpoint, queue, stored>>,
           Onward => ClosedInv',
           \/ /\ Announced(Len(outbox) + 1, x) /\ outbox' = Append(outbox, RowEvent(x, m, Here))
           \/ outbox' = outbox \o <<RelationEvent(x, m)>> \o <<RowEvent(x, m, Here)>>
    PROVE  DecodeInv'
<1>0. /\ PlaceInv /\ MaskInv /\ AnnounceInv /\ DecodedInForce /\ CleanupInv /\ EarlyInv
      /\ conn.sent \in BOOLEAN /\ outbox \in Seq(Events) /\ Len(outbox) \in Nat
  BY OutboxLen DEF DecodeInv, PlaceInv
<1>1. conn.tx <= NumTx /\ conn.item <= Len(wal[conn.tx]) /\ conn.item + 1 <= Len(wal[conn.tx]) + 1
  BY <1>0, ItemFacts
<1>2. Here = m
  BY <1>0, <1>1, HereIs
<1>3. PICK e, f : e = RelationEvent(x, m) /\ f = RowEvent(x, m, m)
  OBVIOUS
<1>4. /\ e \in Events /\ f \in Events /\ e.type = "relation" /\ e.snap = x
      /\ f.type = "row" /\ f.snap = x /\ f.mask = m /\ f.version = m
  BY <1>3, EventTypes
<1>5. /\ conn'.tx = conn.tx /\ conn'.item = conn.item + 1 /\ conn'.bootstrap = conn.bootstrap
      /\ conn'.dec = With(x, m) /\ conn'.sent \in BOOLEAN
  BY <1>0, AdvanceFields
<1>6. With(x, m) \in Decoders /\ With(x, m).kind = "with" /\ With(x, m).snap = x
  BY DEF With, Decoders
<1>7. InForce(f) /\ InForce(e)
  <2>1. SnapVersion(x) = m
    BY <1>0, VersionInForce
  <2> QED
    BY <1>4, <2>1 DEF InForce
<1>8. /\ Extends /\ Len(outbox') \in Nat
      /\ \A i \in Len(outbox) + 1..Len(outbox') : outbox'[i] \in {e, f}
      /\ \A i \in Len(outbox) + 1..Len(outbox') : outbox'[i] = f => Announced(i, x)'
      /\ Announced(Len(outbox) + 1, x)'
  <2>1. CASE Announced(Len(outbox) + 1, x) /\ outbox' = Append(outbox, RowEvent(x, m, Here))
    <3>1. Extends /\ Len(outbox') = Len(outbox) + 1 /\ outbox'[Len(outbox) + 1] = f
      BY <1>0, <1>2, <1>3, <1>4, <2>1, ExtendsOne
    <3>2. PICK n : n = Len(outbox) + 1
      OBVIOUS
    <3>3. Announced(n, x)'
      <4>1. n \in 1..Len(outbox) + 1
        BY <1>0, <3>2
      <4> QED
        BY <1>0, <2>1, <3>1, <3>2, <4>1, AnnouncedStays
    <3>4. \A i \in Len(outbox) + 1..Len(outbox') : i = n
      BY <1>0, <3>1, <3>2
    <3>5. Announced(Len(outbox) + 1, x)'
      BY <1>0, <1>4, <2>1, <3>1, AnnouncedOver
    <3> QED
      BY <1>0, <3>1, <3>2, <3>3, <3>4, <3>5
  <2>2. CASE outbox' = outbox \o <<RelationEvent(x, m)>> \o <<RowEvent(x, m, Here)>>
    <3>1. /\ Extends /\ Len(outbox') = Len(outbox) + 2
          /\ outbox'[Len(outbox) + 1] = e /\ outbox'[Len(outbox) + 2] = f
      BY <1>0, <1>2, <1>3, <1>4, <2>2, ExtendsTwo
    <3>2. PICK n : n = Len(outbox) + 1
      OBVIOUS
    <3>3. /\ n \in Nat /\ 1 <= n /\ Len(outbox') = n + 1 /\ outbox'[n] = e /\ outbox'[n + 1] = f
          /\ (Len(outbox') + 1) - 1 = n + 1 /\ (n + 1) - 1 = n
      BY <1>0, <3>1, <3>2
    <3>4. n \in 1..n /\ n + 1..n = {} /\ n \in 1..n + 1 /\ \A k \in n + 1..n + 1 : k = n + 1
      BY <3>3
    <3>5. Announced(n + 1, x)'
      BY <1>4, <3>3, <3>4 DEF Announced
    <3>6. Announced(Len(outbox) + 1, x)'
      BY <1>4, <3>3, <3>4 DEF Announced
    <3>7. \A i \in Len(outbox) + 1..Len(outbox') : i = n \/ i = n + 1
      BY <1>0, <3>2, <3>3
    <3>8. e # f
      BY <1>4
    <3> QED
      BY <3>1, <3>2, <3>3, <3>5, <3>6, <3>7, <3>8
  <2> QED
    BY <2>1, <2>2
<1>9. Within
  <2>1. \A i \in Len(outbox) + 1..Len(outbox') : outbox'[i].type # "commit"
    BY <1>4, <1>8
  <2> QED
    BY <1>1, <1>5, <1>6, <1>8, <2>1 DEF Within
<1>10. Onward /\ Static
  BY <1>0, <1>1, <1>5, <1>9, WithinOnward, WithinStays
<1>11. Changes(Position') = Changes(Position)
  BY <1>0, <1>5, AdvanceChanges
<1>12. AnnounceInv'
  <2>1. ASSUME NEW i \in Len(outbox) + 1..Len(outbox'), outbox'[i].type = "row"
        PROVE  Announced(i, outbox[i].snap)'
    <3>1. outbox'[i] = f
      BY <1>4, <1>8, <2>1
    <3>2. Announced(i, x)' /\ outbox'[i].snap = x
      BY <1>4, <1>8, <3>1
    <3> QED
      BY <3>2 DEF Announced
  <2>2. Announced(Len(outbox) + 1, conn.dec.snap)'
    BY <1>5, <1>6, <1>8 DEF Announced
  <2> QED
    BY <1>0, <1>8, <2>1, <2>2, AnnounceExtends
<1>13. DecodedInForce'
  BY <1>0, <1>7, <1>8, <1>10, InForceExtends
<1> QED
  BY <1>5, <1>9, <1>10, <1>11, <1>12, <1>13, NewDecoder

LEMMA RowDecodes ==
    ASSUME RetentionInv, DecodeInv, ~ Adjacent, HandleRowMessage
    PROVE  DecodeInv' /\ verdict' = "ok"
<1>0. /\ PlaceInv /\ StoredInv /\ ClosedInv /\ CleanupInv /\ EarlyInv /\ conn.sent
      /\ outbox \in Seq(Events) /\ ConnTypes /\ Snapshots(stored) /\ Snapshots(cached)
      /\ AtItem({"row"})
  BY DEF DecodeInv, PlaceInv, RetentionInv, DecodingTypes, HandleRowMessage, NeedsRelation
<1>1. verdict = "ok" /\ wal[conn.tx][conn.item] = "row"
  BY <1>0, ItemFacts
<1>2. ~ IsDdl(conn.tx, conn.item) /\ wal[conn.tx][conn.item] # "ddl"
  BY <1>1 DEF IsDdl
<1>3. CASE ~ Owned(CommitLsn(conn.tx))
  <2>1. /\ conn' = Advance(conn.dec)
        /\ UNCHANGED <<wal, base, table, stored, cached, meta, checkpoint, outbox, queue, verdict>>
    BY <1>3 DEF HandleRowMessage, Unowned
  <2> QED
    BY <1>0, <1>1, <1>3, <2>1, SkipDecodes
<1>4. CASE Owned(CommitLsn(conn.tx))
  <2>1. PICK x, m : /\ Current(x, Position) /\ m = Version(Position) /\ m \in Nat \ {NoMask}
                    /\ Resolved.dec = With(x, m)
                    /\ \/ Resolved.relation = <<>> /\ Announced(Len(outbox) + 1, x)
                       \/ Resolved.relation = <<RelationEvent(x, m)>>
    BY <1>0, <1>4, ResolvedIs
  <2>2. x \in Nat /\ x <= x
    BY <1>0, <2>1, SchemaFacts DEF Current
  <2>3. Lookup(x) = x
    BY <1>0, <2>1, <2>2, LookupCurrent
  <2>4. With(x, m).mask = m /\ With(x, m).snap = x
    BY DEF With
  <2>5. /\ conn' = Advance(With(x, m))
        /\ cached' = IF conn.dec.kind = "with" THEN cached ELSE CacheAfterLookup(x)
        /\ outbox' = outbox \o Resolved.relation \o <<RowEvent(x, m, Here)>>
        /\ UNCHANGED <<wal, base, table, stored, meta, checkpoint, queue, verdict>>
    BY <1>4, <2>1, <2>3, <2>4 DEF HandleRowMessage, Unowned, Found
  <2>6. \/ Announced(Len(outbox) + 1, x) /\ outbox' = Append(outbox, RowEvent(x, m, Here))
        \/ outbox' = outbox \o <<RelationEvent(x, m)>> \o <<RowEvent(x, m, Here)>>
    <3>1. CASE Resolved.relation = <<>> /\ Announced(Len(outbox) + 1, x)
      <4>1. outbox \o <<>> = outbox
        BY <1>0, ConcatEmptySeq
      <4>2. outbox' = outbox \o <<RowEvent(x, m, Here)>>
        BY <2>5, <3>1, <4>1
      <4>3. outbox \o <<RowEvent(x, m, Here)>> = Append(outbox, RowEvent(x, m, Here))
        BY <1>0, AppendIsConcat
      <4> QED
        BY <3>1, <4>2, <4>3
    <3>2. CASE Resolved.relation = <<RelationEvent(x, m)>>
      BY <2>5, <3>2
    <3> QED
      BY <2>1, <3>1, <3>2
  <2>7. Static
    BY <2>5 DEF Static
  <2>8. ASSUME Onward PROVE ClosedInv'
    <3>1. CASE conn.dec.kind = "with"
      BY <1>0, <2>5, <2>7, <2>8, <3>1, ClosedStays
    <3>2. CASE conn.dec.kind # "with"
      BY <1>0, <2>1, <2>2, <2>5, <2>7, <2>8, <3>2, LookupCloses
    <3> QED
      BY <3>1, <3>2
  <2>9. DecodeInv'
    BY <1>0, <1>2, <1>4, <2>1, <2>2, <2>5, <2>6, <2>8, RowSent
  <2> QED
    BY <1>1, <2>5, <2>9
<1> QED
  BY <1>3, <1>4

LEMMA TruncateDecodes ==
    ASSUME RetentionInv, DecodeInv, ~ Adjacent, HandleTruncateMessage
    PROVE  DecodeInv' /\ verdict' = "ok"
<1>0. /\ PlaceInv /\ StoredInv /\ ClosedInv /\ DecoderInv /\ MaskInv /\ AnnounceInv /\ conn.sent
      /\ outbox \in Seq(Events) /\ ConnTypes /\ conn.dec \in Decoders /\ AtItem({"trunc"})
  BY DEF DecodeInv, PlaceInv, RetentionInv, DecodingTypes, HandleTruncateMessage, NeedsRelation
<1>1. verdict = "ok" /\ wal[conn.tx][conn.item] = "trunc" /\ Truncates(conn.tx, conn.item)
  BY <1>0, ItemFacts DEF Truncates
<1>2. ~ IsDdl(conn.tx, conn.item) /\ wal[conn.tx][conn.item] # "ddl"
  BY <1>1 DEF IsDdl
<1>3. CASE ~ Owned(CommitLsn(conn.tx))
  <2>1. /\ conn' = Advance(conn.dec)
        /\ UNCHANGED <<wal, base, table, stored, cached, meta, checkpoint, outbox, queue, verdict>>
    BY <1>3 DEF HandleTruncateMessage, Unowned
  <2> QED
    BY <1>0, <1>1, <1>3, <2>1, SkipDecodes
<1>4. CASE Owned(CommitLsn(conn.tx))
  <2>1. conn.dec.kind = "with"
    BY <1>0, <1>1, <1>4 DEF MaskInv
  <2>2. PICK x, m : x = conn.dec.snap /\ m = conn.dec.mask
    OBVIOUS
  <2>3. /\ Current(x, Position) /\ m = Version(Position) /\ Announced(Len(outbox) + 1, x)
        /\ m # NoMask /\ x \in Nat /\ m \in Nat
    BY <1>0, <2>1, <2>2 DEF DecoderInv, MaskInv, AnnounceInv, Decoders
  <2>4. conn.dec = With(x, m)
    BY <1>0, <2>1, <2>2 DEF With, Decoders
  <2>5. /\ conn' = Advance(With(x, m))
        /\ outbox' = Append(outbox, RowEvent(x, m, Here))
        /\ UNCHANGED <<wal, base, table, stored, cached, meta, checkpoint, queue, verdict>>
    BY <1>4, <2>1, <2>2, <2>4 DEF HandleTruncateMessage, Unowned
  <2>6. Static
    BY <2>5 DEF Static
  <2>7. ASSUME Onward PROVE ClosedInv'
    BY <1>0, <2>5, <2>6, <2>7, ClosedStays
  <2>8. DecodeInv'
    BY <1>0, <1>2, <1>4, <2>3, <2>5, <2>7, RowSent
  <2> QED
    BY <1>1, <2>5, <2>8
<1> QED
  BY <1>3, <1>4

LEMMA CommitMessageDecodes ==
    ASSUME RetentionInv, DecodeInv, ~ Adjacent, HandleCommitMessage
    PROVE  DecodeInv' /\ verdict' = "ok"
<1>0. /\ PlaceInv /\ StoredInv /\ ClosedInv /\ CleanupInv /\ DecoderInv /\ MaskInv /\ AnnounceInv
      /\ EarlyInv /\ DecodedInForce /\ outbox \in Seq(Events) /\ ConnTypes
      /\ conn.dec \in Decoders /\ conn.sent \in BOOLEAN /\ verdict = "ok"
      /\ conn.tx <= NumTx /\ Len(wal[conn.tx]) < conn.item
  BY DEF DecodeInv, PlaceInv, RetentionInv, DecodingTypes, HandleCommitMessage, Live
<1>1. /\ WalTyped /\ conn.tx \in 1..NumTx /\ conn.tx \in Nat /\ conn.item \in Nat /\ conn.item <= Width
      /\ Width \in Nat \ {0} /\ NumTx \in Nat /\ Position \in Nat /\ Len(outbox) \in Nat
      /\ Schemas \subseteq Nat /\ SyncedTo \in Nat /\ table.snap \in Nat /\ table.snap <= SyncedTo
      /\ table.lsn \in Nat /\ checkpoint \in Nat
  BY <1>0, PlaceFacts, SchemaFacts, OutboxLen, WidthBounds
<1>2. /\ UNCHANGED <<wal, base, table, stored, cached, meta, checkpoint, queue, verdict>>
      /\ outbox' = Append(outbox, CommitEvent(conn.tx))
  BY DEF HandleCommitMessage
<1>3. /\ conn'.tx = conn.tx + 1 /\ conn'.item = 1 /\ conn'.dec = conn.dec
      /\ conn'.bootstrap = conn.bootstrap /\ conn'.sent \in BOOLEAN
      /\ conn'.sent => conn.sent /\ ~ Truncates(conn.tx + 1, 1)
  <2>1. PICK b \in BOOLEAN : b = (conn.sent /\ ~ Truncates(conn.tx + 1, 1))
    OBVIOUS
  <2>2. conn' = [conn EXCEPT !.tx = @ + 1, !.item = 1, !.sent = b]
    BY <2>1, Zenon DEF HandleCommitMessage
  <2> QED
    BY <1>0, <2>1, <2>2 DEF ConnTypes
<1>4. PICK e : e = CommitEvent(conn.tx)
  OBVIOUS
<1>5. /\ e \in Events /\ e.type = "commit" /\ e.snap = conn.tx
      /\ Extends /\ Len(outbox') = Len(outbox) + 1 /\ outbox'[Len(outbox) + 1] = e
  <2>1. e \in Events /\ e.type = "commit" /\ e.snap = conn.tx
    BY <1>1, <1>4, EventTypes
  <2> QED
    BY <1>0, <1>2, <1>4, <2>1, ExtendsOne
<1>6. \A i \in 1..Len(outbox') :
        (i \in 1..Len(outbox) /\ outbox'[i] = outbox[i]) \/ outbox'[i] = e
  BY <1>1, <1>5 DEF Extends
<1>7. Static
  BY <1>2 DEF Static
<1>8. Position' = Snap(conn.tx + 1, 1)
  BY <1>3 DEF Position
<1>9. Position < Position' /\ Position' \in Nat
  <2>1. PICK w \in Nat : w = Width
    BY <1>1
  <2>2. PICK p \in Nat : p = conn.tx * w
    BY <1>1, ProductBounds
  <2>3. (conn.tx + 1) * w = p + w
    BY <1>1, <2>2
  <2>4. Position = p + conn.item + 1
    BY <2>1, <2>2 DEF Position, Snap
  <2>5. Position' = (p + w) + 1 + 1
    BY <1>8, <2>1, <2>3 DEF Snap
  <2>6. p \in Nat /\ w \in Nat /\ conn.item \in Nat /\ conn.item <= w
    BY <1>1, <2>1, <2>2
  <2>7. PICK a, b : a = Position /\ b = Position'
    OBVIOUS
  <2>8. a < b /\ b \in Nat
    BY <2>4, <2>5, <2>6, <2>7
  <2> QED
    BY <2>7, <2>8
<1>10. /\ \A u \in DdlSnaps(1, NumTx) : u < Position' => u < Position
       /\ Changes(Position') = Changes(Position) /\ Version(Position') = Version(Position)
  <2>1. /\ \A u \in DdlSnaps(1, NumTx) : u < Position' => u < Position
        /\ Changes(Position') = Changes(Position)
    BY <1>0, <1>1, <1>8, PassCommit DEF Position
  <2> QED
    BY <2>1 DEF Version
<1>11. Onward
  BY <1>0, <1>1, <1>9, <1>10, SchemaFacts DEF Onward
<1>12. StoredInv' /\ ClosedInv' /\ CleanupInv'
  BY <1>0, <1>2, <1>7, <1>11, StoredStays, ClosedStays DEF CleanupInv
<1>13. PlaceInv'
  <2>1. checkpoint <= CommitLsn(conn.tx + 1)
    BY <1>0, <1>1 DEF PlaceInv, CommitLsn
  <2>2. \A i \in 1..Len(outbox') : outbox'[i].type = "commit" => outbox'[i].snap \in 1..conn'.tx - 1
    <3>1. ASSUME NEW i \in 1..Len(outbox'), outbox'[i].type = "commit"
          PROVE  outbox'[i].snap \in 1..conn.tx
      <4>1. CASE i \in 1..Len(outbox) /\ outbox'[i] = outbox[i]
        <5>1. outbox[i].snap \in 1..conn.tx - 1
          BY <1>0, <3>1, <4>1 DEF PlaceInv
        <5> QED
          BY <1>1, <4>1, <5>1
      <4>2. CASE outbox'[i] = e
        BY <1>1, <1>5, <4>2
      <4> QED
        BY <1>6, <3>1, <4>1, <4>2
    <3> QED
      BY <1>1, <1>3, <3>1
  <2>3. /\ conn'.tx \in 1..NumTx + 1 /\ conn'.item \in 1..Width
        /\ (conn'.tx # NumTx + 1 => conn'.item <= Len(wal[conn'.tx]) + 1)
    <3>1. conn'.tx \in 1..NumTx + 1 /\ conn'.item \in 1..Width
      BY <1>0, <1>1, <1>3
    <3>2. ASSUME conn'.tx # NumTx + 1 PROVE conn'.item <= Len(wal[conn'.tx]) + 1
      <4>1. conn'.tx \in 1..NumTx
        BY <1>1, <3>1, <3>2
      <4>2. Len(wal[conn'.tx]) \in Nat
        BY <1>1, <4>1, WalItem
      <4> QED
        BY <1>3, <4>2
    <3> QED
      BY <3>1, <3>2
  <2>4. conn'.bootstrap \in Nat /\ conn'.bootstrap < Position'
    BY <1>0, <1>1, <1>3, <1>9 DEF PlaceInv
  <2>5. SyncedTo' = SyncedTo /\ CommitLsn(conn.tx)' = CommitLsn(conn.tx + 1)
    BY <1>3, <1>7, StaticStays DEF CommitLsn
  <2>6. outbox' \in Seq(Events)
    BY <1>5 DEF Extends
  <2> QED
    BY <1>0, <1>2, <1>3, <2>1, <2>2, <2>3, <2>4, <2>5, <2>6 DEF PlaceInv
<1>14. Owned(CommitLsn(conn.tx)) => Owned(CommitLsn(conn.tx))'
  BY <1>1, <1>2, <1>3 DEF Owned, CommitLsn
<1>15. DecoderInv'
  <2>1. SyncedTo' = SyncedTo /\ Schemas' = Schemas
    BY <1>7, StaticStays
  <2>2. CASE conn.dec.kind # "none"
    <3>1. Owned(CommitLsn(conn.tx)) /\ Current(conn.dec.snap, Position)
      BY <1>0, <2>2 DEF DecoderInv
    <3>2. PICK s : s = conn.dec.snap
      OBVIOUS
    <3>3. Current(s, Position)'
      BY <1>0, <1>7, <1>9, <1>11, <3>1, <3>2, CurrentOnward
    <3>4. Current(conn.dec.snap, Position)'
      BY <1>3, <3>2, <3>3 DEF Current
    <3> QED
      BY <1>3, <1>14, <2>2, <3>1, <3>4 DEF DecoderInv
  <2>3. CASE conn.dec.kind = "none"
    <3>1. \A u \in Schemas : u < Position' => u <= SyncedTo \/ u <= conn.bootstrap
      BY <1>0, <1>1, <1>11, <2>3 DEF DecoderInv, Onward
    <3>2. \A i \in 1..Len(outbox') : outbox'[i].type = "commit"
      BY <1>0, <1>5, <1>6, <2>3 DEF DecoderInv
    <3> QED
      BY <1>0, <1>2, <1>3, <2>1, <2>3, <3>1, <3>2 DEF DecoderInv
  <2> QED
    BY <2>2, <2>3
<1>16. MaskInv'
  <2>1. Version(Position)' = Version(Position) /\ Changes(Position)' = Changes(Position)
        /\ Changes(SyncedTo + 1)' = Changes(SyncedTo + 1)
    BY <1>7, <1>10, PrimedPosition
  <2>2. (SnapVersion(table.snap) = table.mask /\ table.mask = Version(SyncedTo + 1))'
    BY <1>0, <1>7, MaskFacts
  <2>3. conn'.sent => ~ Truncates(conn.tx, conn.item)'
    BY <1>2, <1>3 DEF Truncates
  <2> QED
    BY <1>0, <1>2, <1>3, <2>1, <2>2, <2>3 DEF MaskInv
<1>17. AnnounceInv'
  <2>1. \A i \in Len(outbox) + 1..Len(outbox') : i = Len(outbox) + 1
    BY <1>1, <1>5
  <2>2. \A i \in Len(outbox) + 1..Len(outbox') : outbox'[i].type # "row"
    BY <1>5, <2>1
  <2>3. ASSUME conn.dec.kind = "with" PROVE Announced(Len(outbox) + 1, conn.dec.snap)'
    <3>1. PICK s : s = conn.dec.snap
      OBVIOUS
    <3>2. Announced(Len(outbox) + 1, s)
      BY <1>0, <2>3, <3>1 DEF AnnounceInv
    <3>3. Announced(Len(outbox) + 1, s)'
      BY <1>0, <1>2, <1>5, <3>2, AnnouncedOver
    <3> QED
      BY <1>3, <3>1, <3>3 DEF Announced
  <2> QED
    BY <1>0, <1>2, <1>3, <1>5, <2>2, <2>3, AnnounceExtends
<1>18. EarlyInv'
  <2>1. SUFFICES ASSUME checkpoint + 1 < table.lsn
                 PROVE  /\ \A i \in 1..Len(outbox') : outbox'[i].type # "commit" => HandoverBefore(i)'
                        /\ Owned(CommitLsn(conn.tx))' => HandoverBefore(Len(outbox))'
    BY <1>0, <1>2 DEF EarlyInv
  <2>2. \A i \in 1..Len(outbox) : outbox[i].type # "commit" => HandoverBefore(i)
    BY <1>0, <2>1 DEF EarlyInv
  <2>3. ASSUME NEW i \in 1..Len(outbox'), outbox'[i].type # "commit" PROVE HandoverBefore(i)'
    <3>1. i \in 1..Len(outbox) /\ outbox'[i] = outbox[i]
      BY <1>5, <1>6, <2>3
    <3>2. i \in 0..Len(outbox) /\ i \in Nat /\ HandoverBefore(i)
      BY <1>1, <2>2, <2>3, <3>1
    <3> QED
      BY <1>0, <1>5, <1>7, <3>2, HandoverExtends
  <2>4. ASSUME Owned(CommitLsn(conn.tx))' PROVE HandoverBefore(Len(outbox))'
    <3>1. Through(table.lsn) < conn.tx + 1 /\ Through(table.lsn) \in Nat
          /\ table.lsn = 2 * Through(table.lsn) + 1
      <4>1. table.lsn <= CommitLsn(conn.tx + 1)
        <5>1. table.kind = "ready" => table.lsn <= checkpoint
          BY <1>0 DEF PlaceInv
        <5> QED
          BY <1>1, <1>2, <1>3, <2>1, <2>4, <5>1 DEF Owned
      <4>2. table.lsn \in Points /\ table.lsn # 0 /\ Through(table.lsn) \in Nat /\ conn.tx + 1 \in Nat
        BY <1>0, <1>1, PlaceFacts
      <4>3. table.lsn <= CommitLsn(conn.tx + 1) <=> (Through(table.lsn) < conn.tx + 1 \/ table.lsn = 0)
        BY <4>2, ThroughIs
      <4>4. table.lsn = 2 * Through(table.lsn) + 1
        BY <4>2, ThroughIs
      <4> QED
        BY <4>1, <4>2, <4>3, <4>4
    <3>2. EndLsn(conn.tx) >= table.lsn
      BY <1>1, <3>1 DEF EndLsn, CommitLsn
    <3>3. PICK n \in Nat : n = Len(outbox')
      BY <1>1, <1>5
    <3>4. n \in 1..n /\ outbox'[n].type = "commit" /\ outbox'[n].snap = conn.tx
      BY <1>1, <1>5, <3>3
    <3>5. EndLsn(outbox'[n].snap) >= table.lsn
      BY <3>2, <3>4
    <3> QED
      BY <1>2, <3>3, <3>4, <3>5 DEF HandoverBefore
  <2> QED
    BY <2>3, <2>4
<1>19. DecodedInForce'
  <2>1. \A i \in Len(outbox) + 1..Len(outbox') : InForce(outbox'[i])
    BY <1>1, <1>5 DEF InForce
  <2> QED
    BY <1>0, <1>5, <1>7, <2>1, InForceExtends
<1> QED
  BY <1>0, <1>2, <1>12, <1>13, <1>15, <1>16, <1>17, <1>18, <1>19 DEF DecodeInv

-----------------------------------------------------------------------------
(* The destination takes the first event.                                  *)

Taken == outbox # <<>> /\ outbox' = Tail(outbox)

LEMMA TakenFacts ==
    ASSUME outbox \in Seq(Events), Taken
    PROVE  /\ outbox' \in Seq(Events) /\ Len(outbox) \in Nat /\ 1 <= Len(outbox)
           /\ Len(outbox') = Len(outbox) - 1 /\ Len(outbox') \in Nat
           /\ \A i \in 1..Len(outbox') : outbox'[i] = outbox[i + 1] /\ i + 1 \in 1..Len(outbox)
           /\ Head(outbox) = outbox[1] /\ outbox[1] \in Events /\ 1 \in 1..Len(outbox)
<1>1. Len(outbox) \in Nat /\ Len(outbox) # 0
  BY OutboxLen, EmptySeq DEF Taken
<1>2. /\ outbox' \in Seq(Events) /\ Len(outbox') = Len(outbox) - 1
      /\ \A i \in 1..Len(outbox') : outbox'[i] = outbox[i + 1]
  BY HeadTailProperties DEF Taken
<1>3. Head(outbox) = outbox[1]
  BY HeadTailProperties DEF Taken
<1> QED
  BY <1>1, <1>2, <1>3, OutboxLen

(* What the destination has after a relation is what it announced. *)
HeadApplied ==
    \/ outbox[1].type # "relation" /\ UNCHANGED meta
    \/ outbox[1].type = "relation" /\ meta'.status = "applied" /\ meta'.snap = outbox[1].snap

LEMMA AnnouncedTaken ==
    ASSUME outbox \in Seq(Events), Taken, HeadApplied, NEW i \in 1..Len(outbox), NEW s,
           Announced(i + 1, s)
    PROVE  Announced(i, s)'
<1>0. /\ Len(outbox) \in Nat /\ i \in Nat /\ 1 <= i /\ Len(outbox') = Len(outbox) - 1
      /\ \A k \in 1..Len(outbox') : outbox'[k] = outbox[k + 1]
      /\ (i + 1) - 1 = i
  BY TakenFacts
<1>1. \A k \in 1..i - 1 : outbox'[k] = outbox[k + 1] /\ k + 1 \in 1..i
  BY <1>0
<1>2. CASE \E j \in 1..i : /\ outbox[j].type = "relation" /\ outbox[j].snap = s
                           /\ \A k \in j + 1..i : outbox[k].type # "relation"
  <2>1. PICK j \in 1..i : /\ outbox[j].type = "relation" /\ outbox[j].snap = s
                          /\ \A k \in j + 1..i : outbox[k].type # "relation"
    BY <1>2
  <2>2. CASE j = 1
    <3>1. \A k \in 1..i - 1 : k + 1 \in j + 1..i
      BY <1>0, <2>2
    <3>2. \A k \in 1..i - 1 : outbox'[k].type # "relation"
      BY <1>1, <2>1, <3>1
    <3>3. meta'.status = "applied" /\ meta'.snap = s
      BY <2>1, <2>2 DEF HeadApplied
    <3> QED
      BY <3>2, <3>3 DEF Announced
  <2>3. CASE j # 1
    <3>1. j - 1 \in 1..i - 1 /\ (j - 1) + 1 = j
      BY <1>0, <2>1, <2>3
    <3>2. \A k \in (j - 1) + 1..i - 1 : k \in 1..i - 1 /\ k + 1 \in j + 1..i
      BY <1>0, <2>1, <2>3
    <3>3. \A k \in (j - 1) + 1..i - 1 : outbox'[k].type # "relation"
      BY <1>1, <2>1, <3>2
    <3>4. outbox'[j - 1] = outbox[j]
      BY <1>1, <3>1
    <3> QED
      BY <2>1, <3>1, <3>3, <3>4 DEF Announced
  <2> QED
    BY <2>2, <2>3
<1>3. CASE (\A k \in 1..i : outbox[k].type # "relation") /\ meta.status = "applied" /\ meta.snap = s
  <2>1. 1 \in 1..i
    BY <1>0
  <2>2. meta' = meta
    BY <1>3, <2>1 DEF HeadApplied
  <2>3. \A k \in 1..i - 1 : outbox'[k].type # "relation"
    BY <1>1, <1>3
  <2> QED
    BY <1>3, <2>2, <2>3 DEF Announced
<1> QED
  BY <1>0, <1>2, <1>3 DEF Announced

LEMMA AnnounceTaken ==
    ASSUME outbox \in Seq(Events), Taken, HeadApplied, AnnounceInv, UNCHANGED conn,
           meta'.status # "applying"
    PROVE  AnnounceInv'
<1>0. /\ Len(outbox) \in Nat /\ 1 <= Len(outbox) /\ Len(outbox') = Len(outbox) - 1
      /\ \A i \in 1..Len(outbox') : outbox'[i] = outbox[i + 1] /\ i + 1 \in 1..Len(outbox)
  BY TakenFacts
<1>1. ASSUME NEW i \in 1..Len(outbox'), outbox'[i].type = "row" PROVE Announced(i, outbox[i].snap)'
  <2>1. PICK s : s = outbox'[i].snap
    OBVIOUS
  <2>2. i \in 1..Len(outbox) /\ i + 1 \in 1..Len(outbox)
    BY <1>0, <1>1
  <2>3. Announced(i + 1, s)
    BY <1>0, <1>1, <2>1, <2>2 DEF AnnounceInv
  <2>4. Announced(i, s)'
    BY <2>2, <2>3, AnnouncedTaken
  <2> QED
    BY <2>1, <2>4 DEF Announced
<1>2. ASSUME conn.dec.kind = "with" PROVE Announced(Len(outbox) + 1, conn.dec.snap)'
  <2>1. PICK s, n : s = conn.dec.snap /\ n = Len(outbox)
    OBVIOUS
  <2>2. n \in 1..Len(outbox) /\ Len(outbox') + 1 = n
    BY <1>0, <2>1
  <2>3. Announced(n + 1, s)
    BY <1>2, <2>1 DEF AnnounceInv
  <2>4. Announced(n, s)'
    BY <2>2, <2>3, AnnouncedTaken
  <2> QED
    BY <2>1, <2>2, <2>4 DEF Announced
<1> QED
  BY <1>1, <1>2 DEF AnnounceInv

LEMMA InForceTaken ==
    ASSUME outbox \in Seq(Events), Taken, Static, DecodedInForce
    PROVE  DecodedInForce'
<1>0. /\ \A i \in 1..Len(outbox') : outbox'[i] = outbox[i + 1] /\ i + 1 \in 1..Len(outbox)
      /\ DOMAIN outbox = 1..Len(outbox) /\ DOMAIN outbox' = 1..Len(outbox')
  BY TakenFacts, LenProperties
<1>1. ASSUME NEW i \in DOMAIN outbox', outbox'[i].type = "row"
      PROVE  (SnapVersion(outbox[i].snap) = outbox[i].version)' /\ outbox'[i].mask = outbox'[i].version
  <2>1. PICK s : s = outbox'[i].snap
    OBVIOUS
  <2>2. SnapVersion(s) = outbox'[i].version /\ outbox'[i].mask = outbox'[i].version
    BY <1>0, <1>1, <2>1 DEF DecodedInForce
  <2>3. SnapVersion(s)' = outbox'[i].version
    BY <2>2, StaticStays
  <2> QED
    BY <2>1, <2>2, <2>3
<1> QED
  BY <1>1 DEF DecodedInForce

(* Until the checkpoint is near the handover the destination has nothing   *)
(* but commits to take; without a decoder the connection sent nothing.     *)
LEMMA HeadFacts ==
    ASSUME DecodeInv, ~ Adjacent, outbox # <<>>, outbox[1].type # "commit"
    PROVE  ~ (checkpoint + 1 < table.lsn) /\ conn.dec.kind # "none" /\ 1 \in 1..Len(outbox)
<1>0. outbox \in Seq(Events) /\ EarlyInv /\ DecoderInv
  BY DEF DecodeInv, PlaceInv
<1>1. Len(outbox) \in Nat /\ Len(outbox) # 0
  BY <1>0, OutboxLen, EmptySeq
<1>2. 1 \in 1..Len(outbox) /\ \A j \in 1..1 : j = 1
  BY <1>1
<1>3. ~ HandoverBefore(1)
  BY <1>2 DEF HandoverBefore
<1> QED
  BY <1>0, <1>2, <1>3 DEF EarlyInv, DecoderInv

(* What only the destination and its queue change. *)
Away == UNCHANGED <<wal, base, table, stored, cached, checkpoint, conn, queue>>

LEMMA SteadyStays ==
    ASSUME DecodeInv, ~ Adjacent, UNCHANGED <<wal, base, table, conn>>
    PROVE  /\ Static /\ Onward /\ MaskInv' /\ Position' = Position /\ SyncedTo' = SyncedTo
           /\ Schemas' = Schemas
<1>0. PlaceInv /\ MaskInv
  BY DEF DecodeInv
<1>1. Static /\ Position' = Position
  BY DEF Static, Position
<1>2. Onward
  BY <1>0, <1>1, PlaceFacts DEF Onward
<1>3. Version(Position)' = Version(Position) /\ Changes(Position)' = Changes(Position)
      /\ Changes(SyncedTo + 1)' = Changes(SyncedTo + 1)
  BY <1>1, PrimedPosition
<1>4. (SnapVersion(table.snap) = table.mask /\ table.mask = Version(SyncedTo + 1))'
  BY <1>0, <1>1, MaskFacts
<1>5. /\ Truncates(conn.tx, conn.item)' <=> Truncates(conn.tx, conn.item)
      /\ Owned(CommitLsn(conn.tx))' <=> Owned(CommitLsn(conn.tx))
  BY DEF Truncates, Owned
<1>6. MaskInv'
  BY <1>0, <1>3, <1>4, <1>5 DEF MaskInv
<1> QED
  BY <1>1, <1>2, <1>6, StaticStays

LEMMA AwayStays ==
    ASSUME DecodeInv, ~ Adjacent, Away
    PROVE  Static /\ StoredInv' /\ ClosedInv' /\ CleanupInv' /\ MaskInv'
<1>0. PlaceInv /\ StoredInv /\ ClosedInv /\ CleanupInv
  BY DEF DecodeInv
<1>1. Static /\ Onward /\ MaskInv'
  BY SteadyStays DEF Away
<1>2. StoredInv' /\ ClosedInv' /\ CleanupInv'
  BY <1>0, <1>1, StoredStays, ClosedStays DEF Away, CleanupInv
<1> QED
  BY <1>1, <1>2

LEMMA SteadyDecoder ==
    ASSUME DecodeInv, ~ Adjacent, UNCHANGED <<wal, base, table, conn>>, conn.dec.kind # "none"
    PROVE  DecoderInv'
<1>1. Owned(CommitLsn(conn.tx)) /\ Current(conn.dec.snap, Position)
  BY DEF DecodeInv, DecoderInv
<1>2. Schemas' = Schemas /\ Position' = Position
  BY SteadyStays
<1>3. Current(conn.dec.snap, Position)'
  BY <1>1, <1>2 DEF Current
<1>4. Owned(CommitLsn(conn.tx))'
  BY <1>1 DEF Owned
<1> QED
  BY <1>3, <1>4 DEF DecoderInv

LEMMA TakenDecodes ==
    ASSUME DecodeInv, ~ Adjacent, Taken, Away, HeadApplied, outbox[1].type # "commit",
           meta'.status # "applying"
    PROVE  DecodeInv'
<1>0. PlaceInv /\ AnnounceInv /\ DecodedInForce /\ outbox \in Seq(Events) /\ outbox # <<>>
  BY DEF DecodeInv, PlaceInv, Taken
<1>1. ~ (checkpoint + 1 < table.lsn) /\ conn.dec.kind # "none"
  BY <1>0, HeadFacts
<1>2. Static /\ StoredInv' /\ ClosedInv' /\ CleanupInv' /\ MaskInv' /\ DecoderInv'
  BY <1>1, AwayStays, SteadyDecoder DEF Away
<1>3. PlaceInv'
  <2>1. /\ outbox' \in Seq(Events)
        /\ \A i \in 1..Len(outbox') : outbox'[i] = outbox[i + 1] /\ i + 1 \in 1..Len(outbox)
    BY <1>0, TakenFacts
  <2>2. SyncedTo' = SyncedTo /\ Position' = Position
    BY <1>2, StaticStays DEF Away, Position
  <2>3. \A i \in 1..Len(outbox') : outbox'[i].type = "commit" => outbox'[i].snap \in 1..conn.tx - 1
    BY <1>0, <2>1 DEF PlaceInv
  <2>4. CommitLsn(conn.tx)' = CommitLsn(conn.tx)
    BY DEF Away
  <2> QED
    BY <1>0, <2>1, <2>2, <2>3, <2>4 DEF PlaceInv, Away
<1>4. AnnounceInv' /\ DecodedInForce'
  BY <1>0, <1>2, AnnounceTaken, InForceTaken DEF Away
<1>5. EarlyInv'
  BY <1>1 DEF EarlyInv, Away
<1> QED
  BY <1>2, <1>3, <1>4, <1>5 DEF DecodeInv

(* A change of what the destination has. *)
LEMMA MetaDecodes ==
    ASSUME DecodeInv, ~ Adjacent, Away, UNCHANGED outbox, ~ (checkpoint + 1 < table.lsn),
           conn.dec.kind # "none" \/ meta.status # "applied", AnnounceInv'
    PROVE  DecodeInv'
<1>0. PlaceInv /\ DecoderInv /\ DecodedInForce
  BY DEF DecodeInv
<1>1. Static /\ StoredInv' /\ ClosedInv' /\ CleanupInv' /\ MaskInv'
  BY AwayStays
<1>2. SyncedTo' = SyncedTo /\ Position' = Position /\ Schemas' = Schemas
  BY <1>1, StaticStays DEF Away, Position
<1>3. PlaceInv'
  <2>4. CommitLsn(conn.tx)' = CommitLsn(conn.tx)
    BY DEF Away
  <2> QED
    BY <1>0, <1>2, <2>4 DEF PlaceInv, Away
<1>4. DecoderInv'
  <2>1. CASE conn.dec.kind # "none"
    BY <2>1, SteadyDecoder DEF Away
  <2>2. CASE conn.dec.kind = "none"
    <3>1. ~ conn.sent
      BY <1>0, <2>2 DEF DecoderInv
    <3> QED
      BY <1>0, <1>2, <2>2, <3>1 DEF DecoderInv, Away
  <2> QED
    BY <2>1, <2>2
<1>5. EarlyInv'
  BY DEF EarlyInv, Away
<1>6. DecodedInForce'
  <2>1. \A s : SnapVersion(s)' = SnapVersion(s)
    BY <1>1, StaticStays
  <2> QED
    BY <1>0, <2>1 DEF DecodedInForce
<1> QED
  BY <1>1, <1>3, <1>4, <1>5, <1>6 DEF DecodeInv

LEMMA FailInForce ==
    ASSUME NEW why, Fail(why), DecodedInForce
    PROVE  DecodedInForce' /\ verdict' = why
<1>1. Static /\ outbox' = outbox /\ verdict' = why
  BY DEF Fail, Static
<1>2. \A s : SnapVersion(s)' = SnapVersion(s)
  BY <1>1, StaticStays
<1> QED
  BY <1>1, <1>2 DEF DecodedInForce

LEMMA ApplyDecodes ==
    ASSUME RetentionInv, DecodeInv, ~ Adjacent, ApplyRelation
    PROVE  DecodedInForce' /\ ((DecodeInv' /\ verdict' = "ok") \/ verdict' = "rewind")
<1>0. /\ outbox \in Seq(Events) /\ AnnounceInv /\ DecodedInForce /\ outbox # <<>> /\ verdict = "ok"
      /\ meta \in [status : {"applied", "applying", "interrupted"}, snap : Nat, previous : Nat]
      /\ meta.status # "interrupted" /\ Head(outbox).type = "relation"
  BY DEF DecodeInv, PlaceInv, RetentionInv, DecodingTypes, ApplyRelation, Working
<1>1. Head(outbox) = outbox[1]
  BY <1>0, HeadTailProperties
<1>2. ~ (checkpoint + 1 < table.lsn) /\ conn.dec.kind # "none" /\ 1 \in 1..Len(outbox)
  BY <1>0, <1>1, HeadFacts
<1>3. CASE meta.status = "applying"
  <2>1. /\ meta' = [meta EXCEPT !.status = "applied", !.previous = NoSnapshot]
        /\ outbox' = Tail(outbox) /\ Away /\ verdict' = verdict
    BY <1>3 DEF ApplyRelation, Away
  <2>2. meta'.status = "applied" /\ meta'.snap = meta.snap
    BY <1>0, <2>1
  <2>3. meta.snap = outbox[1].snap
    BY <1>0, <1>3 DEF AnnounceInv
  <2>4. Taken /\ HeadApplied
    BY <1>0, <1>1, <2>1, <2>2, <2>3 DEF Taken, HeadApplied
  <2>5. DecodeInv'
    BY <1>0, <1>1, <2>1, <2>2, <2>4, TakenDecodes
  <2> QED
    BY <1>0, <2>1, <2>5 DEF DecodeInv
<1>4. CASE meta.status = "applied" /\ outbox[1].snap < meta.snap
  <2>1. Fail("rewind")
    BY <1>1, <1>4 DEF ApplyRelation
  <2> QED
    BY <1>0, <2>1, FailInForce
<1>5. CASE meta.status = "applied" /\ ~ (outbox[1].snap < meta.snap) /\ outbox[1].snap = meta.snap
  <2>1. outbox' = Tail(outbox) /\ Away /\ verdict' = verdict /\ meta' = meta
    BY <1>1, <1>5 DEF ApplyRelation, Away
  <2>2. Taken /\ HeadApplied
    BY <1>0, <1>1, <1>5, <2>1 DEF Taken, HeadApplied
  <2>3. DecodeInv'
    BY <1>0, <1>1, <1>5, <2>1, <2>2, TakenDecodes
  <2> QED
    BY <1>0, <2>1, <2>3 DEF DecodeInv
<1>6. CASE meta.status = "applied" /\ ~ (outbox[1].snap < meta.snap) /\ outbox[1].snap # meta.snap
  <2>1. /\ meta' = [status |-> "applying", snap |-> outbox[1].snap, previous |-> meta.snap]
        /\ Away /\ outbox' = outbox /\ verdict' = verdict
    BY <1>1, <1>6 DEF ApplyRelation, Away
  <2>2. ASSUME NEW i \in Nat, 2 <= i, NEW s, Announced(i, s) PROVE Announced(i, s)'
    <3>1. 1 \in 1..i - 1
      BY <2>2
    <3>2. PICK j \in 1..i - 1 : /\ outbox[j].type = "relation" /\ outbox[j].snap = s
                                /\ \A k \in j + 1..i - 1 : outbox[k].type # "relation"
      BY <1>0, <1>1, <2>2, <3>1 DEF Announced
    <3> QED
      BY <2>1, <3>2 DEF Announced
  <2>3. Len(outbox) \in Nat
    BY <1>0, OutboxLen
  <2>4. AnnounceInv'
    <3>1. ASSUME NEW i \in 1..Len(outbox), outbox[i].type = "row" PROVE Announced(i, outbox[i].snap)'
      <4>1. i \in Nat /\ 2 <= i
        <5>1. i # 1
          BY <1>0, <1>1, <3>1
        <5> QED
          BY <2>3, <5>1
      <4>2. PICK s : s = outbox[i].snap
        OBVIOUS
      <4>3. Announced(i, s)
        BY <1>0, <3>1, <4>2 DEF AnnounceInv
      <4>4. Announced(i, s)'
        BY <2>2, <4>1, <4>3
      <4> QED
        BY <2>1, <4>2, <4>4
    <3>2. ASSUME conn.dec.kind = "with" PROVE Announced(Len(outbox) + 1, conn.dec.snap)'
      <4>1. PICK s, n : s = conn.dec.snap /\ n = Len(outbox) + 1
        OBVIOUS
      <4>2. n \in Nat /\ 2 <= n
        BY <1>2, <2>3, <4>1
      <4>3. Announced(n, s)
        BY <1>0, <3>2, <4>1 DEF AnnounceInv
      <4>4. Announced(n, s)'
        BY <2>2, <4>2, <4>3
      <4> QED
        BY <2>1, <4>1, <4>4 DEF Away
    <3> QED
      BY <1>0, <1>1, <2>1, <3>1, <3>2 DEF AnnounceInv, Away
  <2>5. DecodeInv'
    BY <1>2, <2>1, <2>4, MetaDecodes
  <2> QED
    BY <1>0, <2>1, <2>5 DEF DecodeInv
<1> QED
  BY <1>0, <1>3, <1>4, <1>5, <1>6

LEMMA RecoverDecodes ==
    ASSUME RetentionInv, DecodeInv, ~ Adjacent, RecoverInterrupted
    PROVE  DecodeInv' /\ verdict' = "ok"
<1>0. /\ AnnounceInv /\ EarlyInv /\ verdict = "ok" /\ meta.status = "interrupted"
      /\ ChangeInv /\ EndpointsRetained
  BY DEF DecodeInv, RetentionInv, RecoverInterrupted
<1>1. {meta.previous, meta.snap} \subseteq stored
  BY <1>0 DEF ChangeInv, EndpointsRetained
<1>2. /\ \E s \in {meta.previous, meta.snap} :
            meta' = [status |-> "applied", snap |-> s, previous |-> NoSnapshot]
      /\ Away /\ outbox' = outbox /\ verdict' = verdict
  BY <1>1 DEF RecoverInterrupted, Away
<1>3. meta'.status = "applied"
  BY <1>2
<1>4. \A i, s : Announced(i, s) => Announced(i, s)'
  BY <1>0, <1>2 DEF Announced
<1>5. AnnounceInv'
  <2>1. ASSUME NEW i \in 1..Len(outbox), outbox[i].type = "row" PROVE Announced(i, outbox[i].snap)'
    <3>1. PICK s : s = outbox[i].snap
      OBVIOUS
    <3>2. Announced(i, s)'
      BY <1>0, <1>4, <2>1, <3>1 DEF AnnounceInv
    <3> QED
      BY <1>2, <3>1, <3>2
  <2>2. ASSUME conn.dec.kind = "with" PROVE Announced(Len(outbox) + 1, conn.dec.snap)'
    <3>1. PICK s, n : s = conn.dec.snap /\ n = Len(outbox) + 1
      OBVIOUS
    <3>2. Announced(n, s)'
      BY <1>0, <1>4, <2>2, <3>1 DEF AnnounceInv
    <3> QED
      BY <1>2, <3>1, <3>2 DEF Away
  <2> QED
    BY <1>2, <1>3, <2>1, <2>2 DEF AnnounceInv, Away
<1>6. ~ (checkpoint + 1 < table.lsn)
  BY <1>0 DEF EarlyInv
<1>7. DecodeInv'
  BY <1>0, <1>2, <1>5, <1>6, MetaDecodes
<1> QED
  BY <1>0, <1>2, <1>7

LEMMA WriteDecodes ==
    ASSUME RetentionInv, DecodeInv, ~ Adjacent, WriteRow
    PROVE  DecodeInv' /\ verdict' = "ok"
<1>0. /\ AnnounceInv /\ outbox \in Seq(Events) /\ verdict = "ok" /\ outbox # <<>>
      /\ Head(outbox).type = "row"
  BY DEF DecodeInv, PlaceInv, WriteRow, Working
<1>1. Head(outbox) = outbox[1]
  BY <1>0, HeadTailProperties
<1>2. 1 \in 1..Len(outbox)
  BY <1>0, <1>1, HeadFacts
<1>3. meta.status = "applied" /\ meta.snap = outbox[1].snap
  <2>1. Announced(1, outbox[1].snap)
    BY <1>0, <1>1, <1>2 DEF AnnounceInv
  <2>2. 1..1 - 1 = {}
    OBVIOUS
  <2> QED
    BY <2>1, <2>2 DEF Announced
<1>4. outbox' = Tail(outbox) /\ Away /\ meta' = meta /\ verdict' = verdict
  BY <1>1, <1>3 DEF WriteRow, Away
<1>5. Taken /\ HeadApplied
  BY <1>0, <1>1, <1>4 DEF Taken, HeadApplied
<1>6. DecodeInv'
  BY <1>0, <1>1, <1>3, <1>4, <1>5, TakenDecodes
<1> QED
  BY <1>0, <1>4, <1>6

(* The commit just confirmed is not the one of the handover. *)
LEMMA HandoverTaken ==
    ASSUME outbox \in Seq(Events), Taken, Static, ~ (EndLsn(outbox[1].snap) >= table.lsn),
           NEW i \in 0..Len(outbox'), HandoverBefore(i + 1)
    PROVE  HandoverBefore(i)'
<1>0. /\ \A k \in 1..Len(outbox') : outbox'[k] = outbox[k + 1]
      /\ Len(outbox') \in Nat /\ i \in Nat
  BY TakenFacts
<1>1. PICK j \in 1..i + 1 : outbox[j].type = "commit" /\ EndLsn(outbox[j].snap) >= table.lsn
  BY DEF HandoverBefore
<1>2. j # 1
  BY <1>1
<1>3. j - 1 \in 1..i /\ j - 1 \in 1..Len(outbox') /\ (j - 1) + 1 = j
  BY <1>0, <1>1, <1>2
<1>4. outbox'[j - 1] = outbox[j] /\ table'.lsn = table.lsn
  BY <1>0, <1>3 DEF Static
<1> QED
  BY <1>1, <1>3, <1>4 DEF HandoverBefore

LEMMA RetentionBelow ==
    ASSUME NEW lsn \in Nat, meta.snap \in Nat, meta.previous \in Nat
    PROVE  Retention(lsn) <= AtLsn(lsn) /\ Retention(lsn) \in Nat
<1> DEFINE S == {AtLsn(lsn), meta.snap}
                \cup IF meta.status \in {"applying", "interrupted"} THEN {meta.previous} ELSE {}
<1>1. S \subseteq Nat /\ S # {} /\ AtLsn(lsn) \in S
  BY AtLsnType
<1>2. Retention(lsn) = Min(S)
  BY DEF Retention
<1> HIDE DEF S
<1> QED
  BY <1>1, <1>2, MinIsLeast

LEMMA CompleteDecodes ==
    ASSUME RetentionInv, DecodeInv, ~ Adjacent, CompleteCommit
    PROVE  DecodeInv' /\ verdict' = "ok"
<1> DEFINE lsn == EndLsn(Head(outbox).snap)
           ready == table.kind = "ready" \/ (conn.dec.kind = "with" /\ lsn >= table.lsn)
<1>0. /\ PlaceInv /\ StoredInv /\ ClosedInv /\ CleanupInv /\ DecoderInv /\ MaskInv /\ AnnounceInv
      /\ EarlyInv /\ DecodedInForce /\ outbox \in Seq(Events) /\ verdict = "ok"
      /\ outbox # <<>> /\ Head(outbox).type = "commit"
      /\ meta \in [status : {"applied", "applying", "interrupted"}, snap : Nat, previous : Nat]
      /\ queue \in Seq(0..Floor) /\ Floor \in Nat /\ meta.status # "interrupted"
  BY FloorType DEF DecodeInv, PlaceInv, RetentionInv, QueueInv, DecodingTypes, CompleteCommit, Working
<1>1. /\ outbox' = Tail(outbox) /\ checkpoint' = Max({checkpoint, lsn})
      /\ table' = IF ready THEN [table EXCEPT !.kind = "ready"] ELSE table
      /\ queue' = Append(queue, Retention(checkpoint')) \/ queue' = queue
      /\ UNCHANGED <<wal, base, stored, cached, meta, conn, verdict>>
  BY DEF CompleteCommit
<1>2. /\ Head(outbox) = outbox[1] /\ 1 \in 1..Len(outbox) /\ Len(outbox) \in Nat
      /\ Len(outbox') = Len(outbox) - 1 /\ Len(outbox') \in Nat /\ outbox' \in Seq(Events)
      /\ \A i \in 1..Len(outbox') : outbox'[i] = outbox[i + 1] /\ i + 1 \in 1..Len(outbox)
      /\ Taken
  <2>1. Taken
    BY <1>0, <1>1 DEF Taken
  <2> QED
    BY <1>0, <2>1, TakenFacts
<1>3. PICK h : h = outbox[1].snap
  OBVIOUS
<1>4. /\ h \in Nat /\ h < conn.tx /\ h <= NumTx /\ conn.tx \in Nat /\ NumTx \in Nat
      /\ checkpoint \in Points /\ checkpoint \in Nat /\ table.lsn \in Nat /\ SyncedTo \in Nat
      /\ lsn = 2 * h + 1
  <2>1. h \in 1..conn.tx - 1
    BY <1>0, <1>2, <1>3 DEF PlaceInv
  <2>2. conn.tx \in Nat /\ conn.tx <= NumTx + 1 /\ NumTx \in Nat
    BY <1>0, PlaceFacts
  <2>3. lsn = 2 * h + 1
    BY <1>2, <1>3 DEF EndLsn, CommitLsn
  <2>4. h \in Nat /\ h < conn.tx /\ h <= NumTx
    BY <2>1, <2>2
  <2> HIDE DEF lsn
  <2> QED
    BY <1>0, <2>2, <2>3, <2>4, PlaceFacts
<1>5. lsn \in Points
  <2>1. lsn = EndLsn(h) /\ h \in 0..NumTx
    BY <1>2, <1>3, <1>4
  <2> QED
    BY <2>1 DEF Points
<1> HIDE DEF lsn
<1>6. /\ checkpoint' \in Points /\ checkpoint' \in Nat /\ checkpoint <= checkpoint'
      /\ lsn <= checkpoint' /\ checkpoint' <= CommitLsn(conn.tx)
  <2>1. PICK b \in Nat : checkpoint <= b /\ lsn <= b
    BY <1>4
  <2>2. lsn \in Nat /\ lsn <= CommitLsn(conn.tx)
    BY <1>4 DEF CommitLsn
  <2>3. /\ Max({checkpoint, lsn}) \in {checkpoint, lsn}
        /\ \A s \in {checkpoint, lsn} : Max({checkpoint, lsn}) >= s
    BY <1>4, <2>1, <2>2, MaxIsGreatest
  <2>4. checkpoint <= CommitLsn(conn.tx)
    BY <1>0 DEF PlaceInv
  <2> QED
    BY <1>1, <1>4, <1>5, <2>2, <2>3, <2>4
<1>7. /\ table' \in [kind : {"syncdone", "ready"}, lsn : {EndLsn(d) : d \in 0..NumTx},
                     snap : Nat, mask : Nat]
      /\ table'.lsn = table.lsn /\ table'.snap = table.snap /\ table'.mask = table.mask
      /\ table'.kind = "ready" <=> ready
      /\ ~ ready => table' = table
  BY <1>0, <1>1 DEF PlaceInv
<1>8. table'.kind = "ready" => table.lsn <= checkpoint'
  BY <1>0, <1>4, <1>6, <1>7 DEF PlaceInv, Points, lsn
<1>9. Static
  BY <1>1, <1>7 DEF Static
<1>10. SyncedTo' = SyncedTo /\ Schemas' = Schemas /\ Position' = Position /\ Onward
  <2>1. Position' = Position
    BY <1>1 DEF Position
  <2> QED
    BY <1>0, <1>9, <2>1, StaticStays, PlaceFacts DEF Onward
<1>11. PlaceInv'
  <2>1. \A i \in 1..Len(outbox') : outbox'[i].type = "commit" => outbox'[i].snap \in 1..conn.tx - 1
    BY <1>0, <1>2 DEF PlaceInv
  <2>2. CommitLsn(conn.tx)' = CommitLsn(conn.tx)
    BY <1>1
  <2> QED
    BY <1>0, <1>1, <1>2, <1>6, <1>7, <1>8, <1>10, <2>1, <2>2 DEF PlaceInv
<1>12. Owned(CommitLsn(conn.tx))' <=> Owned(CommitLsn(conn.tx))
  <2>1. Owned(CommitLsn(conn.tx)) <=> table.lsn <= CommitLsn(conn.tx)
    BY <1>0, OwnedIs
  <2>2. CommitLsn(conn.tx) \in Nat
    BY <1>4, CommitLsnType
  <2>3. table'.kind = "ready" => table.lsn <= CommitLsn(conn.tx)
    BY <1>4, <1>6, <1>8, <2>2
  <2> QED
    BY <1>1, <1>7, <2>1, <2>3 DEF Owned
<1>13. StoredInv'
  <2>1. AtLsn(checkpoint) <= AtLsn(checkpoint') /\ AtLsn(checkpoint) \in Nat /\ AtLsn(checkpoint') \in Nat
    BY <1>4, <1>6, AtLsnRises
  <2>2. Schemas \subseteq Nat
    BY <1>0, SchemaFacts
  <2>3. ASSUME NEW s \in Schemas, s < Position \/ s = table.snap,
               \A u \in Schemas : u <= AtLsn(checkpoint') => u <= s
        PROVE  s \in stored
    <3>1. \A u \in Schemas : u <= AtLsn(checkpoint) => u <= s
      BY <2>1, <2>2, <2>3
    <3> QED
      BY <1>0, <2>3, <3>1 DEF StoredInv
  <2> QED
    BY <1>0, <1>1, <1>7, <1>10, <2>3 DEF StoredInv
<1>14. ClosedInv'
  BY <1>0, <1>1, <1>9, <1>10, ClosedStays
<1>15. CleanupInv'
  <2>1. AtLsn(checkpoint) <= AtLsn(checkpoint') /\ AtLsn(checkpoint) \in Nat /\ AtLsn(checkpoint') \in Nat
    BY <1>4, <1>6, AtLsnRises
  <2>2. \A i \in 1..Len(queue) : queue[i] \in Nat /\ queue[i] <= AtLsn(checkpoint')
    <3>1. \A i \in 1..Len(queue) : queue[i] \in Nat
      BY <1>0, ElementOfSeq
    <3> QED
      BY <1>0, <2>1, <3>1 DEF CleanupInv
  <2>3. CASE queue' = queue
    BY <2>2, <2>3 DEF CleanupInv
  <2>4. CASE queue' = Append(queue, Retention(checkpoint'))
    <3>1. PICK r : r = Retention(checkpoint')
      OBVIOUS
    <3>2. r \in 0..Floor /\ r <= AtLsn(checkpoint')
      BY <1>0, <1>6, <3>1, RetentionBelow, RetentionBelowFloor
    <3>3. Len(queue) \in Nat
      BY <1>0, LenProperties
    <3>4. /\ Len(queue') = Len(queue) + 1 /\ queue'[Len(queue) + 1] = r
          /\ \A i \in 1..Len(queue) : queue'[i] = queue[i]
      BY <1>0, <2>4, <3>1, <3>2, AppendProperties
    <3>5. \A i \in 1..Len(queue') : i \in 1..Len(queue) \/ i = Len(queue) + 1
      BY <3>3, <3>4
    <3> QED
      BY <2>2, <3>2, <3>4, <3>5 DEF CleanupInv
  <2> QED
    BY <1>1, <2>3, <2>4
<1>16. DecoderInv'
  <2>1. CASE conn.dec.kind # "none"
    <3>1. Owned(CommitLsn(conn.tx)) /\ Current(conn.dec.snap, Position)
      BY <1>0, <2>1 DEF DecoderInv
    <3>2. Current(conn.dec.snap, Position)'
      BY <1>1, <1>7, <1>10, <3>1 DEF Current
    <3> QED
      BY <1>1, <1>12, <2>1, <3>1, <3>2 DEF DecoderInv
  <2>2. CASE conn.dec.kind = "none"
    <3>1. table'.kind = "ready" => table.kind = "ready"
      BY <1>7, <2>2
    <3>2. \A i \in 1..Len(outbox') : outbox'[i].type = "commit"
      BY <1>0, <1>2, <2>2 DEF DecoderInv
    <3> QED
      BY <1>0, <1>1, <1>7, <1>10, <2>2, <3>1, <3>2 DEF DecoderInv
  <2> QED
    BY <2>1, <2>2
<1>17. MaskInv'
  <2>1. Version(Position)' = Version(Position) /\ Changes(Position)' = Changes(Position)
        /\ Changes(SyncedTo + 1)' = Changes(SyncedTo + 1)
    BY <1>9, <1>10, PrimedPosition
  <2>2. (SnapVersion(table.snap) = table.mask /\ table.mask = Version(SyncedTo + 1))'
    BY <1>0, <1>9, MaskFacts
  <2>3. Truncates(conn.tx, conn.item)' <=> Truncates(conn.tx, conn.item)
    BY <1>1 DEF Truncates
  <2>4. conn.sent /\ conn.dec.mask = NoMask => table'.kind = "syncdone"
    <3>1. ASSUME conn.sent, conn.dec.mask = NoMask PROVE ~ ready /\ table.kind = "syncdone"
      BY <1>0, <3>1 DEF MaskInv
    <3> QED
      BY <1>7, <3>1
  <2> QED
    BY <1>0, <1>1, <1>12, <2>1, <2>2, <2>3, <2>4 DEF MaskInv
<1>18. AnnounceInv'
  <2>1. meta'.status # "applying"
    BY <1>0, <1>1, <1>2 DEF AnnounceInv
  <2>2. HeadApplied
    BY <1>0, <1>1, <1>2 DEF HeadApplied
  <2> QED
    BY <1>0, <1>1, <1>2, <2>1, <2>2, AnnounceTaken
<1>19. EarlyInv'
  <2>1. SUFFICES ASSUME checkpoint' + 1 < table.lsn
                 PROVE  /\ meta.status = "applied" /\ meta.snap = table.snap
                        /\ \A i \in 1..Len(outbox') : outbox'[i].type # "commit" => HandoverBefore(i)'
                        /\ Owned(CommitLsn(conn.tx))' => HandoverBefore(Len(outbox))'
    BY <1>1, <1>7 DEF EarlyInv
  <2>2. checkpoint + 1 < table.lsn
    BY <1>4, <1>6, <2>1
  <2>3. ~ (EndLsn(outbox[1].snap) >= table.lsn)
    BY <1>2, <1>4, <1>6, <2>1 DEF lsn
  <2>4. /\ meta.status = "applied" /\ meta.snap = table.snap
        /\ \A i \in 1..Len(outbox) : outbox[i].type # "commit" => HandoverBefore(i)
        /\ Owned(CommitLsn(conn.tx)) => HandoverBefore(Len(outbox))
    BY <1>0, <2>2 DEF EarlyInv
  <2>5. ASSUME NEW i \in 1..Len(outbox'), outbox'[i].type # "commit" PROVE HandoverBefore(i)'
    <3>1. i \in 0..Len(outbox') /\ HandoverBefore(i + 1)
      BY <1>2, <2>4, <2>5
    <3> QED
      BY <1>0, <1>2, <1>9, <2>3, <3>1, HandoverTaken
  <2>6. ASSUME Owned(CommitLsn(conn.tx))' PROVE HandoverBefore(Len(outbox))'
    <3>1. PICK n : n = Len(outbox')
      OBVIOUS
    <3>2. n \in 0..Len(outbox') /\ n + 1 = Len(outbox)
      BY <1>2, <3>1
    <3>3. HandoverBefore(n + 1)
      BY <1>12, <2>4, <2>6, <3>2
    <3>4. HandoverBefore(n)'
      BY <1>0, <1>2, <1>9, <2>3, <3>2, <3>3, HandoverTaken
    <3> QED
      BY <3>1, <3>4 DEF HandoverBefore
  <2> QED
    BY <2>4, <2>5, <2>6
<1>20. DecodedInForce'
  BY <1>0, <1>2, <1>9, InForceTaken
<1> QED
  BY <1>0, <1>1, <1>11, <1>13, <1>14, <1>15, <1>16, <1>17, <1>18, <1>19, <1>20 DEF DecodeInv

-----------------------------------------------------------------------------
(* Cleanup.                                                                *)

LEMMA GetOrNone ==
    ASSUME NEW S, Snapshots(S), NEW id \in Nat
    PROVE  \/ GetAtOrBefore(S, id) = NoSnapshot /\ \A u \in S : ~ (u <= id)
           \/ \E x \in S : /\ x <= id /\ x # NoSnapshot /\ GetAtOrBefore(S, id) = x
                           /\ \A u \in S : u <= id => u <= x
<1> DEFINE A == {s \in S : s <= id}
<1>0. S \subseteq Nat \ {NoSnapshot}
  BY DEF Snapshots
<1>1. CASE A = {}
  BY <1>1 DEF GetAtOrBefore, AtOrBefore
<1>2. CASE A # {}
  <2>1. A \subseteq Nat /\ \A s \in A : s <= id
    BY <1>0
  <2>2. PICK x \in A : \A s \in A : x >= s
    <3> HIDE DEF A
    <3> QED
      BY <1>2, <2>1, GreatestElement
  <2>3. x \in S /\ x <= id /\ x # NoSnapshot /\ \A u \in S : u <= id => u <= x
    BY <1>0, <2>2
  <2>4. GetAtOrBefore(S, id) = x
    BY <2>3, GetIs
  <2> QED
    BY <2>3, <2>4
<1> QED
  BY <1>1, <1>2

LEMMA PruneDecodes ==
    ASSUME RetentionInv, DecodeInv, ~ Adjacent, PruneSchemas
    PROVE  DecodeInv'
<1>0. /\ PlaceInv /\ StoredInv /\ ClosedInv /\ CleanupInv /\ DecoderInv /\ MaskInv /\ AnnounceInv
      /\ EarlyInv /\ DecodedInForce /\ Snapshots(stored) /\ Snapshots(cached)
      /\ queue \in Seq(0..Floor) /\ Floor \in Nat
  BY FloorType DEF DecodeInv, RetentionInv, DecodingTypes, QueueInv
<1>1. /\ UNCHANGED <<wal, base, table, meta, checkpoint, conn, outbox>> /\ queue' = <<>> /\ queue # <<>>
      /\ stored' = Prune(stored, queue[Len(queue)]) /\ cached' = Prune(cached, queue[Len(queue)])
  BY DEF PruneSchemas
<1>2. PICK r : r = queue[Len(queue)]
  OBVIOUS
<1>3. r \in Nat /\ r <= AtLsn(checkpoint) /\ AtLsn(checkpoint) \in Nat
  <2>1. Len(queue) \in Nat /\ Len(queue) # 0
    BY <1>0, <1>1, LenProperties, EmptySeq
  <2>2. Len(queue) \in 1..Len(queue)
    BY <2>1
  <2>3. queue[Len(queue)] \in 0..Floor
    BY <1>0, <2>2, ElementOfSeq
  <2> QED
    BY <1>0, <1>2, <2>2, <2>3, PlaceFacts DEF CleanupInv
<1>4. /\ Static /\ Onward /\ MaskInv' /\ Position' = Position /\ SyncedTo' = SyncedTo
      /\ Schemas' = Schemas
  BY <1>1, SteadyStays
<1>5. /\ Schemas \subseteq Nat /\ \A u \in Schemas : table.snap <= u
      /\ AtLsn(checkpoint) + 1 < Position /\ Position \in Nat /\ table.snap \in Nat
      /\ stored \subseteq Nat \ {NoSnapshot} /\ cached \subseteq stored
  BY <1>0, SchemaFacts, OwnedIs, PlaceFacts DEF Snapshots, ClosedInv
<1>6. PICK a : a = GetAtOrBefore(stored, r)
  OBVIOUS
<1>7. stored' = IF a = NoSnapshot THEN stored ELSE {s \in stored : s >= a}
  BY <1>1, <1>2, <1>6 DEF Prune
<1>8. PICK c : c = GetAtOrBefore(cached, r)
  OBVIOUS
<1>9. cached' = IF c = NoSnapshot THEN cached ELSE {s \in cached : s >= c}
  BY <1>1, <1>2, <1>8 DEF Prune
<1>10. \/ a = NoSnapshot
       \/ a \in stored /\ a <= r /\ a # NoSnapshot
  BY <1>0, <1>3, <1>6, GetOrNone
<1>11. \/ c = NoSnapshot /\ \A u \in cached : ~ (u <= r)
       \/ c \in cached /\ c <= r /\ c # NoSnapshot /\ \A u \in cached : u <= r => u <= c
  BY <1>0, <1>3, <1>8, GetOrNone
<1>12. StoredInv'
  <2>1. \A s \in stored' : s \in stored
    BY <1>7
  <2>2. ASSUME NEW s \in Schemas, s < Position \/ s = table.snap,
               \A u \in Schemas : u <= AtLsn(checkpoint) => u <= s
        PROVE  s \in stored'
    <3>1. s \in stored
      BY <1>0, <2>2 DEF StoredInv
    <3>2. ASSUME a # NoSnapshot PROVE s >= a
      <4>1. a \in stored /\ a <= r /\ a \in Nat
        BY <1>5, <1>10, <3>2
      <4>2. a <= table.snap \/ a \in Schemas
        BY <1>0, <4>1 DEF StoredInv
      <4> QED
        BY <1>3, <1>5, <2>2, <4>1, <4>2
    <3> QED
      BY <1>7, <3>1, <3>2
  <2> QED
    BY <1>0, <1>1, <1>4, <2>1, <2>2 DEF StoredInv
<1>13. ClosedInv'
  <2>1. ASSUME NEW x \in cached' PROVE x \in cached /\ x \in stored'
    <3>1. x \in cached /\ x \in stored /\ x \in Nat
      BY <1>5, <1>9
    <3>2. ASSUME a # NoSnapshot PROVE x >= a
      <4>0. a \in stored /\ a <= r /\ a \in Nat
        BY <1>5, <1>10, <3>2
      <4>1. CASE c = NoSnapshot
        <5>1. ~ (x <= r)
          BY <1>11, <3>1, <4>1, <1>5
        <5> QED
          BY <1>3, <3>1, <4>0, <5>1
      <4>2. CASE c # NoSnapshot
        <5>1. c \in cached /\ c \in Nat /\ c <= r /\ x >= c /\ \A u \in cached : u <= r => u <= c
          BY <1>5, <1>9, <1>11, <4>2
        <5>2. a < Position
          BY <1>3, <1>5, <4>0
        <5>3. c < a => a \in cached
          BY <1>0, <4>0, <5>1, <5>2 DEF ClosedInv
        <5>4. a <= c
          BY <4>0, <5>1, <5>3
        <5> QED
          BY <3>1, <4>0, <5>1, <5>4
      <4> QED
        BY <4>1, <4>2
    <3> QED
      BY <1>7, <3>1, <3>2
  <2>2. ASSUME NEW x \in cached', NEW s \in stored', x < s, s < Position \/ s <= table.snap
        PROVE  s \in cached'
    <3>1. x \in cached /\ s \in stored /\ x \in Nat /\ s \in Nat
      BY <1>5, <1>7, <2>1
    <3>2. s \in cached
      BY <1>0, <2>2, <3>1 DEF ClosedInv
    <3>3. c # NoSnapshot => x >= c /\ c \in Nat
      BY <1>5, <1>9, <1>11
    <3> QED
      BY <1>9, <2>2, <3>1, <3>2, <3>3
  <2> QED
    BY <1>1, <1>4, <2>1, <2>2 DEF ClosedInv
<1>14. PlaceInv'
  <2>1. CommitLsn(conn.tx)' = CommitLsn(conn.tx)
    BY <1>1
  <2> QED
    BY <1>0, <1>1, <1>4, <2>1 DEF PlaceInv
<1>15. CleanupInv'
  <2>1. Len(queue') = 0
    BY <1>1
  <2>2. 1..Len(queue') = {}
    BY <2>1
  <2> QED
    BY <2>2 DEF CleanupInv
<1>16. DecoderInv'
  <2>1. CASE conn.dec.kind # "none"
    BY <1>1, <2>1, SteadyDecoder
  <2>2. CASE conn.dec.kind = "none"
    BY <1>0, <1>1, <1>4, <2>2 DEF DecoderInv
  <2> QED
    BY <2>1, <2>2
<1>17. AnnounceInv' /\ EarlyInv'
  <2>1. \A i, s : Announced(i, s)' <=> Announced(i, s)
    BY <1>1 DEF Announced
  <2>2. \A i : HandoverBefore(i)' <=> HandoverBefore(i)
    BY <1>1 DEF HandoverBefore
  <2>3. Owned(CommitLsn(conn.tx))' <=> Owned(CommitLsn(conn.tx))
    BY <1>1 DEF Owned
  <2>4. AnnounceInv'
    BY <1>0, <1>1, <2>1 DEF AnnounceInv
  <2>5. EarlyInv'
    BY <1>0, <1>1, <2>2, <2>3 DEF EarlyInv
  <2> QED
    BY <2>4, <2>5
<1>18. DecodedInForce'
  <2>1. \A s : SnapVersion(s)' = SnapVersion(s)
    BY <1>4, StaticStays
  <2> QED
    BY <1>0, <1>1, <2>1 DEF DecodedInForce
<1> QED
  BY <1>4, <1>12, <1>13, <1>14, <1>15, <1>16, <1>17, <1>18 DEF DecodeInv

-----------------------------------------------------------------------------
(* Faults.                                                                 *)

(* A connection that starts at the checkpoint has everything the           *)
(* checkpoint covers behind it, and nothing else.                          *)
LEMMA ConnectPlace ==
    ASSUME WalTyped, ~ Adjacent, NEW lsn \in Points, NEW t \in Nat, t = Through(lsn) + 1
    PROVE  /\ Connect(lsn) = [tx |-> t, item |-> 1, sent |-> FALSE,
                              bootstrap |-> AtLsn(lsn), dec |-> Nothing]
           /\ t \in 1..NumTx + 1 /\ lsn <= CommitLsn(t) /\ NumTx \in Nat /\ 1 \in 1..Width
           /\ AtLsn(lsn) \in Nat /\ AtLsn(lsn) < Snap(t, 1) /\ Snap(t, 1) \in Nat
           /\ t # NumTx + 1 => 1 <= Len(wal[t]) + 1
           /\ \A u \in DdlSnaps(1, NumTx) : u < Snap(t, 1) => u <= AtLsn(lsn)
<1>0. Through(lsn) \in 0..NumTx /\ NumTx \in Nat /\ Width \in Nat \ {0} /\ Through(lsn) \in Nat
  BY ThroughIs, DecodingAssumption, WidthBounds
<1>1. Connect(lsn) = [tx |-> t, item |-> 1, sent |-> FALSE, bootstrap |-> AtLsn(lsn), dec |-> Nothing]
  BY ResumeTxIs DEF Connect
<1>2. t \in 1..NumTx + 1 /\ 1 \in 1..Width
  BY <1>0
<1>3. lsn <= CommitLsn(t)
  <2>1. lsn <= CommitLsn(t) <=> (Through(lsn) < t \/ lsn = 0)
    BY ThroughIs
  <2> QED
    BY <1>0, <2>1
<1>4. AtLsn(lsn) \in Nat /\ AtLsn(lsn) + 1 < Snap(t, 1) /\ Snap(t, 1) \in Nat
  <2>1. Through(lsn) < t /\ 1 \in Nat /\ 1 <= Width
    BY <1>0
  <2> QED
    BY <2>1, AtLsnIs, AtLsnCovers, SnapType
<1>5. t # NumTx + 1 => 1 <= Len(wal[t]) + 1
  <2>1. SUFFICES ASSUME t # NumTx + 1 PROVE 1 <= Len(wal[t]) + 1
    OBVIOUS
  <2>2. t \in 1..NumTx
    BY <1>0, <1>2, <2>1
  <2> QED
    BY <2>2, WalItem
<1>6. ASSUME NEW u \in DdlSnaps(1, NumTx), u < Snap(t, 1) PROVE u <= AtLsn(lsn)
  <2>1. PICK i \in 1..NumTx, j \in Nat :
          i \in Nat /\ 1 <= j /\ j <= Len(wal[i]) /\ j < Width /\ u = Snap(i, j)
    BY DdlSnapItem
  <2>2. i < t \/ (i = t /\ j < 1)
    BY <1>0, <1>6, <2>1, ItemBefore
  <2>3. i <= Through(lsn) /\ j <= Width
    BY <1>0, <2>1, <2>2
  <2> QED
    BY <2>1, <2>3, AtLsnCovers
<1> QED
  BY <1>0, <1>1, <1>2, <1>3, <1>4, <1>5, <1>6

(* A transaction after the checkpoint that may be the apply worker's is    *)
(* next to the handover.                                                   *)
LEMMA BehindHandover ==
    ASSUME ~ Adjacent, NEW lsn \in Points, lsn # 0, NEW from \in Points, from + 1 < lsn
    PROVE  ~ (lsn <= CommitLsn(Through(from) + 1))
<1>1. lsn \in Nat /\ from \in Nat /\ Through(lsn) \in Nat /\ Through(from) \in Nat
  BY ThroughIs, DecodingAssumption
<1>2. lsn = 2 * Through(lsn) + 1
  BY ThroughIs
<1>3. from # 0 => from = 2 * Through(from) + 1
  BY ThroughIs
<1>4. from = 0 => Through(from) = 0
  BY DEF Through
<1>5. CommitLsn(Through(from) + 1) = 2 * (Through(from) + 1)
  BY DEF CommitLsn
<1> QED
  BY <1>1, <1>2, <1>3, <1>4, <1>5

LEMMA ResumeDecodes ==
    ASSUME RetentionInv, DecodeInv, ~ Adjacent, Reconnect \/ Restart
    PROVE  DecodeInv' /\ verdict' = "ok"
<1>0. /\ PlaceInv /\ StoredInv /\ ClosedInv /\ MaskInv /\ EarlyInv /\ Snapshots(stored)
      /\ meta \in [status : {"applied", "applying", "interrupted"}, snap : Nat, previous : Nat]
      /\ meta.snap \in stored
  BY DEF DecodeInv, RetentionInv, DecodingTypes, EndpointsRetained
<1>1. /\ UNCHANGED <<wal, base, table, stored, checkpoint, verdict>> /\ verdict = "ok"
      /\ conn' = Connect(checkpoint) /\ outbox' = <<>> /\ queue' = <<>>
      /\ meta' = IF meta.status = "applying" THEN [meta EXCEPT !.status = "interrupted"] ELSE meta
      /\ cached' = cached \/ cached' = {Max(stored)}
  BY DEF Reconnect, Restart, Resume
<1>2. /\ WalTyped /\ checkpoint \in Points /\ Position \in Nat /\ Schemas \subseteq Nat
      /\ SyncedTo \in Nat /\ table.snap <= SyncedTo /\ table.snap \in Nat
      /\ Through(checkpoint) < conn.tx /\ conn.tx \in Nat /\ conn.item \in Nat /\ 1 <= conn.item
      /\ stored \subseteq Nat /\ Width \in Nat \ {0} /\ Through(checkpoint) \in Nat
      /\ table.lsn \in Points /\ table.lsn \in Nat /\ checkpoint \in Nat
  <2>1. checkpoint \in Points /\ NumTx \in Nat
    BY <1>0, PlaceFacts
  <2>2. Through(checkpoint) \in 0..NumTx
    BY <2>1, ThroughIs
  <2>3. Through(checkpoint) \in Nat
    BY <2>1, <2>2
  <2> QED
    BY <1>0, <2>1, <2>3, PlaceFacts, OwnedIs, SchemaFacts, WidthBounds DEF Snapshots
<1>3. PICK t \in Nat : t = Through(checkpoint) + 1
  BY <1>2
<1>4. /\ Connect(checkpoint) = [tx |-> t, item |-> 1, sent |-> FALSE,
                                bootstrap |-> AtLsn(checkpoint), dec |-> Nothing]
      /\ t \in 1..NumTx + 1 /\ checkpoint <= CommitLsn(t) /\ 1 \in 1..Width
      /\ AtLsn(checkpoint) \in Nat /\ AtLsn(checkpoint) < Snap(t, 1) /\ Snap(t, 1) \in Nat
      /\ t # NumTx + 1 => 1 <= Len(wal[t]) + 1
      /\ \A u \in DdlSnaps(1, NumTx) : u < Snap(t, 1) => u <= AtLsn(checkpoint)
  BY <1>2, <1>3, ConnectPlace
<1>5. /\ conn'.tx = t /\ conn'.item = 1 /\ conn'.sent = FALSE /\ conn'.dec = Nothing
      /\ conn'.bootstrap = AtLsn(checkpoint) /\ Position' = Snap(t, 1)
  BY <1>1, <1>4 DEF Position
<1>6. Nothing \in Decoders /\ Nothing.kind = "none" /\ Nothing.mask = NoMask
  BY DEF Nothing, Decoders, NoSnapshot, NoMask
<1>7. Position' <= Position
  <2>1. PICK w \in Nat \ {0} : w = Width
    BY <1>2
  <2>2. PICK p \in Nat, q \in Nat : p = t * w /\ q = conn.tx * w
    BY <1>2, ProductBounds
  <2>3. p <= q
    BY <1>2, <1>3, <2>1, <2>2, ProductBounds
  <2>4. Snap(t, 1) = p + 1 + 1 /\ Position = q + conn.item + 1
    BY <2>1, <2>2 DEF Position, Snap
  <2>5. p + 1 + 1 <= q + conn.item + 1
    BY <1>2, <2>2, <2>3
  <2> QED
    BY <1>5, <2>4, <2>5
<1>8. Static
  BY <1>1 DEF Static
<1>9. SyncedTo' = SyncedTo /\ Schemas' = Schemas /\ Position' \in Nat
  BY <1>4, <1>5, <1>8, StaticStays
<1>10. Len(outbox') = 0 /\ 1..Len(outbox') = {} /\ outbox' \in Seq(Events) /\ Len(queue') = 0
       /\ 1..Len(queue') = {}
  <2>1. Len(outbox') = 0 /\ Len(queue') = 0 /\ outbox' \in Seq(Events)
    BY <1>1
  <2> QED
    BY <2>1
<1>11. PlaceInv'
  <2>1. CommitLsn(conn.tx)' = CommitLsn(t)
    BY <1>5 DEF CommitLsn
  <2> QED
    BY <1>0, <1>1, <1>4, <1>5, <1>6, <1>9, <1>10, <2>1 DEF PlaceInv
<1>12. StoredInv'
  <2>1. \A s \in Schemas : s < Position' => s < Position
    BY <1>2, <1>7, <1>9
  <2> QED
    BY <1>0, <1>1, <1>9, <2>1 DEF StoredInv
<1>13. ClosedInv'
  <2>1. CASE cached' = cached
    <3>1. \A s \in stored : s < Position' => s < Position
      BY <1>2, <1>7, <1>9
    <3> QED
      BY <1>0, <1>1, <2>1, <3>1 DEF ClosedInv
  <2>2. CASE cached' = {Max(stored)}
    <3>1. PICK b \in Nat : \A s \in stored : s <= b
      BY <1>0 DEF Snapshots
    <3>2. Max(stored) \in stored /\ \A s \in stored : Max(stored) >= s
      BY <1>0, <1>2, <3>1, MaxIsGreatest
    <3>3. \A s \in stored : ~ (Max(stored) < s)
      <4>1. PICK m : m = Max(stored)
        OBVIOUS
      <4>2. m \in Nat /\ \A s \in stored : s \in Nat /\ m >= s
        BY <1>2, <3>2, <4>1
      <4>3. \A s \in stored : ~ (m < s)
        BY <4>2
      <4> QED
        BY <4>1, <4>3
    <3> QED
      BY <1>1, <2>2, <3>2, <3>3 DEF ClosedInv
  <2> QED
    BY <1>1, <2>1, <2>2
<1>14. CleanupInv'
  BY <1>10 DEF CleanupInv
<1>15. DecoderInv'
  <2>1. ASSUME NEW u \in Schemas, u < Position' PROVE u <= SyncedTo \/ u <= AtLsn(checkpoint)
    <3>1. u = table.snap \/ u \in DdlSnaps(1, NumTx)
      BY <1>0, SchemaFacts
    <3> QED
      BY <1>2, <1>4, <1>5, <2>1, <3>1
  <2>2. table.kind = "ready" => SyncedTo <= AtLsn(checkpoint)
    <3>1. table.kind = "ready" => table.lsn <= checkpoint
      BY <1>0 DEF PlaceInv
    <3> QED
      BY <1>2, <3>1, AtLsnRises DEF SyncedTo
  <2> QED
    BY <1>1, <1>5, <1>6, <1>9, <1>10, <2>1, <2>2 DEF DecoderInv
<1>16. MaskInv'
  <2>1. (SnapVersion(table.snap) = table.mask /\ table.mask = Version(SyncedTo + 1))'
    BY <1>0, <1>8, MaskFacts
  <2> QED
    BY <1>5, <1>6, <2>1 DEF MaskInv
<1>17. AnnounceInv'
  <2>1. meta'.status # "applying"
    BY <1>0, <1>1
  <2> QED
    BY <1>5, <1>6, <1>10, <2>1 DEF AnnounceInv
<1>18. EarlyInv'
  <2>1. SUFFICES ASSUME checkpoint + 1 < table.lsn
                 PROVE  meta'.status = "applied" /\ meta'.snap = table.snap /\ ~ Owned(CommitLsn(conn.tx))'
    BY <1>1, <1>10 DEF EarlyInv
  <2>2. meta.status = "applied" /\ meta.snap = table.snap
    BY <1>0, <2>1 DEF EarlyInv
  <2>3. meta' = meta
    BY <1>1, <2>2
  <2>4. ~ (table.lsn <= CommitLsn(t))
    BY <1>0, <1>2, <1>3, <2>1, PlaceFacts, BehindHandover
  <2>5. table.kind # "ready"
    <3>1. table.kind = "ready" => table.lsn <= checkpoint
      BY <1>0 DEF PlaceInv
    <3> QED
      BY <1>2, <2>1, <3>1
  <2>6. ~ Owned(CommitLsn(conn.tx))'
    <3>1. CommitLsn(conn.tx)' = CommitLsn(t)
      BY <1>5 DEF CommitLsn
    <3> QED
      BY <1>1, <2>4, <2>5, <3>1 DEF Owned
  <2> QED
    BY <2>2, <2>3, <2>6
<1>19. DecodedInForce'
  <2>1. DOMAIN outbox' = {}
    BY <1>1
  <2> QED
    BY <2>1 DEF DecodedInForce
<1> QED
  BY <1>1, <1>11, <1>12, <1>13, <1>14, <1>15, <1>16, <1>17, <1>18, <1>19 DEF DecodeInv

-----------------------------------------------------------------------------
(* Initial states.                                                         *)

(* The newest schema of table sync is of the version handed over. *)
LEMMA VersionHandedOver ==
    ASSUME WalTyped, NEW c \in 0..NumTx, NEW d \in c..NumTx, base = VersionAfterTx(c),
           NEW S, S = {Initial} \cup DdlSnaps(c + 1, d), NEW m \in S, m \in Nat, S \subseteq Nat,
           \A s \in S : s <= m
    PROVE  SnapVersion(m) = VersionAfterTx(d)
<1>0. /\ NumTx \in Nat /\ c \in Nat /\ d \in Nat /\ c <= d /\ d <= NumTx /\ c <= NumTx
      /\ c + 1 \in Nat /\ d + 1 \in Nat /\ Width \in Nat \ {0} /\ 0 \in Nat /\ 0 <= Width
  BY DecodingAssumption, WidthBounds
<1>1. PICK p \in Nat : p = Snap(d + 1, 0)
  BY <1>0, SnapType
<1>2. VersionAfterTx(d) = Version(p)
  BY <1>0, <1>1, VersionAfterIs
(* Every change after the copy is in S. *)
<1>3. ASSUME NEW a \in 1..NumTx, NEW k \in DdlItems(a), Snap(a, k) < p
      PROVE  /\ k \in Nat /\ 1 <= k /\ k <= Len(wal[a]) /\ a \in Nat
             /\ a <= c \/ (c < a /\ Snap(a, k) \in S /\ Snap(a, k) <= m)
  <2>1. k \in Nat /\ 1 <= k /\ k <= Len(wal[a]) /\ a \in Nat /\ wal[a][k] = "ddl" /\ Len(wal[a]) \in Nat
    BY ChangeItem, WalItem
  <2>2. a <= d
    <3>1. a < d + 1 \/ (a = d + 1 /\ k < 0)
      BY <1>0, <1>1, <1>3, <2>1, ItemBefore
    <3> QED
      BY <1>0, <2>1, <3>1
  <2>3. ASSUME c < a PROVE Snap(a, k) \in S
    <3>1. a \in c + 1..d /\ k \in 1..Len(wal[a]) /\ IsDdl(a, k)
      BY <1>0, <2>1, <2>2, <2>3 DEF IsDdl
    <3>2. Snap(a, k) \in DdlSnaps(c + 1, d)
      BY <3>1, DdlSnapIs
    <3> QED
      BY <3>2
  <2> QED
    BY <1>0, <2>1, <2>3
<1>4. CASE m = Initial
  <2>1. SnapVersion(m) = Version(Snap(c + 1, 0))
    BY <1>0, <1>4, VersionAfterIs DEF SnapVersion
  <2>2. PICK q \in Nat : q = Snap(c + 1, 0)
    BY <1>0, SnapType
  <2>3. ASSUME NEW a \in 1..NumTx, NEW k \in DdlItems(a)
        PROVE  Snap(a, k) < q <=> Snap(a, k) < p
    <3>0. k \in Nat /\ 1 <= k /\ k <= Len(wal[a]) /\ a \in Nat /\ k < Width
      BY <2>3, ChangeItem, WalItem
    <3>1. Snap(a, k) < q <=> a < c + 1 \/ (a = c + 1 /\ k < 0)
      BY <1>0, <2>2, <3>0, ItemBefore
    <3>2. Snap(a, k) < p <=> a < d + 1 \/ (a = d + 1 /\ k < 0)
      BY <1>0, <1>1, <3>0, ItemBefore
    <3>3. Initial < Snap(a, k)
      <4>1. 0 < a
        BY <3>0
      <4> QED
        BY <1>0, <3>0, <4>1, SnapOrder DEF Initial
    <3>4. Initial \in Nat /\ Snap(a, k) \in Nat
      BY <1>0, <3>0, SnapType DEF Initial
    <3>5. Snap(a, k) < p => a <= c
      BY <1>3, <1>4, <2>3, <3>3, <3>4
    <3> QED
      BY <1>0, <3>0, <3>1, <3>2, <3>5
  <2>4. Changes(q) = Changes(p)
    <3>1. \A x : x \in Changes(q) <=> x \in Changes(p)
      BY <2>3, ChangeIs
    <3> QED
      BY <3>1
  <2> QED
    BY <1>2, <2>1, <2>2, <2>4 DEF Version
<1>5. CASE m # Initial
  <2>1. m \in DdlSnaps(c + 1, d)
    BY <1>5
  <2>2. PICK i \in c + 1..d : \E j \in 1..Len(wal[i]) : IsDdl(i, j) /\ m = Snap(i, j)
    BY <2>1, DdlSnapIs
  <2>3. PICK j \in 1..Len(wal[i]) : IsDdl(i, j) /\ m = Snap(i, j)
    BY <2>2
  <2>4. /\ i \in 1..NumTx /\ i \in Nat /\ c < i /\ i <= d
    BY <1>0, <2>2
  <2>5. j \in Nat /\ 1 <= j /\ j <= Len(wal[i]) /\ j < Width
    BY <2>3, <2>4, WalItem, WidthBounds
  <2>6. (m - 1) \div Width = i /\ (m - 1) % Width = j
    BY <2>3, <2>4, <2>5, SnapParts
  <2>7. SnapVersion(m) = Version(m + 1)
    BY <1>5, <2>3, <2>4, <2>5, <2>6, VersionAtIs DEF SnapVersion
  <2>8. m < p
    <3>1. i < d + 1 \/ (i = d + 1 /\ j < 0)
      BY <1>0, <2>4
    <3> QED
      BY <1>0, <1>1, <2>3, <2>4, <2>5, <3>1, ItemBefore
  <2>9. ASSUME NEW a \in 1..NumTx, NEW k \in DdlItems(a)
        PROVE  Snap(a, k) < m + 1 <=> Snap(a, k) < p
    <3>0. k \in Nat /\ 1 <= k /\ k <= Len(wal[a]) /\ a \in Nat /\ Snap(a, k) \in Nat
      BY <2>9, ChangeItem, WalItem, SnapType
    <3>1. Snap(a, k) < m + 1 => Snap(a, k) < p
      BY <2>8, <3>0
    <3>2. ASSUME Snap(a, k) < p PROVE Snap(a, k) <= m
      <4>1. CASE a <= c
        <5>1. a < i \/ (a = i /\ k < j)
          BY <1>0, <2>4, <3>0, <4>1
        <5>2. j <= Width
          BY <1>0, <2>5
        <5>3. Snap(a, k) < Snap(i, j)
          BY <2>4, <2>5, <3>0, <5>1, <5>2, ItemBefore
        <5> QED
          BY <2>3, <3>0, <5>3
      <4>2. CASE ~ (a <= c)
        BY <1>3, <2>9, <3>2, <4>2
      <4> QED
        BY <4>1, <4>2
    <3> QED
      BY <3>0, <3>1, <3>2
  <2>10. Changes(m + 1) = Changes(p)
    <3>1. \A x : x \in Changes(m + 1) <=> x \in Changes(p)
      BY <2>9, ChangeIs
    <3> QED
      BY <3>1
  <2> QED
    BY <1>2, <2>7, <2>10 DEF Version
<1> QED
  BY <1>4, <1>5

LEMMA DecodingStarts == ASSUME Init, ~ Adjacent PROVE DecodeInv /\ verdict = "ok"
<1>0. WalTyped /\ outbox = <<>> /\ queue = <<>> /\ verdict = "ok"
  BY DEF Init, WalTyped
<1> DEFINE Starts(c, d, from) ==
             /\ base = VersionAfterTx(c)
             /\ stored = {Initial} \cup DdlSnaps(c + 1, d)
             /\ cached = {s \in stored : Cardinality({u \in stored : u > s}) < MaxCached}
             /\ table = [kind |-> "syncdone", lsn |-> EndLsn(d), snap |-> Max(stored),
                         mask |-> VersionAfterTx(d)]
             /\ meta = [status |-> "applied", snap |-> Max(stored), previous |-> NoSnapshot]
             /\ checkpoint = (IF from = 0 THEN 0 ELSE EndLsn(from))
             /\ conn = Connect(checkpoint)
<1>c. PICK c \in 0..NumTx : \E d \in c..NumTx : \E from \in 0..d : Starts(c, d, from)
  BY DEF Init
<1>d. PICK d \in c..NumTx : \E from \in 0..d : Starts(c, d, from)
  BY <1>c
<1>1. PICK from \in 0..d : Starts(c, d, from)
  BY <1>d
<1>2. /\ NumTx \in Nat /\ c \in Nat /\ d \in Nat /\ c <= d /\ d <= NumTx /\ from \in Nat /\ from <= d
      /\ Width \in Nat \ {0}
  BY <1>1, DecodingAssumption, WidthBounds
<1>3. Snapshots(stored) /\ stored \subseteq Nat
  BY RetentionStarts DEF RetentionInv, DecodingTypes, Snapshots
<1>4. PICK m : m = Max(stored)
  OBVIOUS
<1>5. m \in stored /\ m \in Nat /\ \A s \in stored : s <= m
  <2>1. PICK b \in Nat : \A s \in stored : s <= b
    BY <1>3 DEF Snapshots
  <2>2. stored # {}
    BY <1>1
  <2>3. Max(stored) \in stored /\ \A s \in stored : Max(stored) >= s
    BY <1>3, <2>1, <2>2, MaxIsGreatest
  <2> QED
    BY <1>3, <1>4, <2>3
<1>6. table.kind = "syncdone" /\ table.lsn = EndLsn(d) /\ table.snap = m /\ table.mask = VersionAfterTx(d)
  BY <1>1, <1>4
<1>7. /\ table.lsn \in Points /\ table.lsn = 2 * d + 1 /\ table.lsn \in Nat /\ Through(table.lsn) = d
  <2>1. table.lsn = 2 * d + 1
    BY <1>6 DEF EndLsn, CommitLsn
  <2>2. table.lsn \in Points
    BY <1>2, <1>6 DEF Points
  <2> QED
    BY <1>2, <2>1, <2>2 DEF Through
<1>8. checkpoint \in Points /\ checkpoint \in Nat /\ checkpoint <= table.lsn
  <2>1. CASE from = 0
    BY <1>1, <1>7, <2>1 DEF Points
  <2>2. CASE from # 0
    <3>1. checkpoint = 2 * from + 1
      BY <1>1, <2>2 DEF EndLsn, CommitLsn
    <3>2. checkpoint \in Points
      BY <1>1, <1>2, <2>2 DEF Points
    <3> QED
      BY <1>2, <1>7, <3>1, <3>2
  <2> QED
    BY <2>1, <2>2
<1>9. Through(checkpoint) \in Nat
  <2>1. Through(checkpoint) \in 0..NumTx
    BY <1>8, ThroughIs
  <2> QED
    BY <1>2, <2>1
<1>10. PICK t \in Nat : t = Through(checkpoint) + 1
  BY <1>9
<1>11. /\ Connect(checkpoint) = [tx |-> t, item |-> 1, sent |-> FALSE,
                                 bootstrap |-> AtLsn(checkpoint), dec |-> Nothing]
       /\ t \in 1..NumTx + 1 /\ checkpoint <= CommitLsn(t) /\ 1 \in 1..Width
       /\ AtLsn(checkpoint) \in Nat /\ AtLsn(checkpoint) < Snap(t, 1) /\ Snap(t, 1) \in Nat
       /\ t # NumTx + 1 => 1 <= Len(wal[t]) + 1
       /\ \A u \in DdlSnaps(1, NumTx) : u < Snap(t, 1) => u <= AtLsn(checkpoint)
  BY <1>0, <1>8, <1>10, ConnectPlace
<1>12. /\ conn.tx = t /\ conn.item = 1 /\ conn.sent = FALSE /\ conn.dec = Nothing
       /\ conn.bootstrap = AtLsn(checkpoint) /\ Position = Snap(t, 1)
  BY <1>1, <1>11 DEF Position
<1>13. Nothing \in Decoders /\ Nothing.kind = "none" /\ Nothing.mask = NoMask
  BY DEF Nothing, Decoders, NoSnapshot, NoMask
<1>14. SyncedTo = (d + 1) * Width /\ SyncedTo \in Nat /\ AtLsn(checkpoint) <= SyncedTo
  BY <1>7, <1>8, AtLsnIs, AtLsnRises DEF SyncedTo
<1>15. m <= SyncedTo
  <2>1. CASE m = Initial
    <3>1. Initial = 1
      BY <1>2 DEF Initial, Snap
    <3>2. 1 * Width <= (d + 1) * Width
      BY <1>2, ProductBounds
    <3> QED
      BY <1>2, <1>14, <2>1, <3>1, <3>2
  <2>2. CASE m # Initial
    <3>1. m \in DdlSnaps(c + 1, d)
      BY <1>1, <1>5, <2>2
    <3>2. PICK i \in c + 1..d : \E j \in 1..Len(wal[i]) : IsDdl(i, j) /\ m = Snap(i, j)
      BY <3>1, DdlSnapIs
    <3>3. PICK j \in 1..Len(wal[i]) : m = Snap(i, j)
      BY <3>2
    <3>4. i \in 1..NumTx /\ i \in Nat /\ i <= d
      BY <1>2, <3>2
    <3>5. j \in Nat /\ 1 <= j /\ j < Width /\ j <= Width
      BY <1>0, <3>3, <3>4, WalItem, WidthBounds
    <3> QED
      BY <1>7, <3>3, <3>4, <3>5, AtLsnCovers DEF SyncedTo
  <2> QED
    BY <2>1, <2>2
<1>16. Len(outbox) = 0 /\ 1..Len(outbox) = {} /\ outbox \in Seq(Events) /\ Len(queue) = 0
       /\ 1..Len(queue) = {}
  <2>1. Len(outbox) = 0 /\ Len(queue) = 0 /\ outbox \in Seq(Events)
    BY <1>0
  <2> QED
    BY <2>1
<1>17. VersionAfterTx(d) = Version(SyncedTo + 1) /\ VersionAfterTx(d) \in Nat
  <2>1. Snap(d + 1, 0) = SyncedTo + 1
    <3>1. PICK q \in Nat : q = (d + 1) * Width
      BY <1>14
    <3> QED
      BY <1>14, <3>1 DEF Snap
  <2>2. VersionAfterTx(d) = Version(Snap(d + 1, 0))
    BY <1>0, <1>2, VersionAfterIs
  <2> QED
    BY <2>1, <2>2, VersionType
<1>18. PlaceInv
  <2>1. table \in [kind : {"syncdone", "ready"}, lsn : {EndLsn(k) : k \in 0..NumTx}, snap : Nat, mask : Nat]
    <3>1. EndLsn(d) \in {EndLsn(k) : k \in 0..NumTx}
      BY <1>2
    <3> QED
      BY <1>1, <1>4, <1>5, <1>17, <3>1
  <2> QED
    BY <1>0, <1>6, <1>8, <1>11, <1>12, <1>13, <1>15, <1>16, <2>1 DEF PlaceInv, WalTyped
<1>19. \A u \in Schemas : u < Position => u <= SyncedTo
  <2>1. SUFFICES ASSUME NEW u \in Schemas, u < Position PROVE u <= SyncedTo
    OBVIOUS
  <2>2. u = table.snap \/ (u \in DdlSnaps(1, NumTx) /\ u \in Nat)
    BY <1>18, SchemaFacts
  <2> QED
    BY <1>6, <1>11, <1>12, <1>14, <1>15, <2>1, <2>2
<1>20. StoredInv
  <2>1. ASSUME NEW s \in Schemas, s < Position \/ s = table.snap PROVE s \in stored
    <3>1. s = table.snap \/ (SyncedTo < s /\ s \in Nat)
      BY <1>18, SchemaFacts
    <3> QED
      BY <1>5, <1>6, <1>14, <1>19, <2>1, <3>1
  <2> QED
    BY <1>5, <1>6, <2>1 DEF StoredInv
<1>21. ClosedInv
  <2>1. stored \cup {Initial} = stored /\ Initial \in Nat \ {NoSnapshot}
    BY <1>1, SnapType DEF Initial
  <2>2. cached = InsertWithEviction(stored, Initial, MaxCached)
    BY <1>1, <2>1 DEF InsertWithEviction
  <2>3. ASSUME NEW x \in cached, NEW s \in stored, x < s PROVE s \in cached
    BY <1>3, <2>1, <2>2, <2>3, EvictOldest
  <2>4. cached \subseteq stored
    BY <1>1
  <2> QED
    BY <2>3, <2>4 DEF ClosedInv
<1>22. CleanupInv
  BY <1>16 DEF CleanupInv
<1>23. DecoderInv
  BY <1>6, <1>12, <1>13, <1>16, <1>19 DEF DecoderInv
<1>24. MaskInv
  <2>1. SnapVersion(m) = VersionAfterTx(d)
    BY <1>0, <1>1, <1>3, <1>5, VersionHandedOver
  <2> QED
    BY <1>6, <1>12, <1>13, <1>17, <2>1 DEF MaskInv
<1>25. AnnounceInv
  <2>1. meta.status # "applying"
    BY <1>1
  <2> QED
    BY <1>12, <1>13, <1>16, <2>1 DEF AnnounceInv
<1>26. EarlyInv
  <2>1. SUFFICES ASSUME checkpoint + 1 < table.lsn PROVE ~ Owned(CommitLsn(conn.tx))
    BY <1>1, <1>4, <1>6, <1>16 DEF EarlyInv
  <2>2. ~ (table.lsn <= CommitLsn(t))
    <3>1. table.lsn # 0
      BY <1>2, <1>7
    <3> QED
      BY <1>7, <1>8, <1>10, <2>1, <3>1, BehindHandover
  <2> QED
    BY <1>6, <1>12, <2>2 DEF Owned
<1>27. DecodedInForce
  <2>1. DOMAIN outbox = {}
    BY <1>0
  <2> QED
    BY <2>1 DEF DecodedInForce
<1> QED
  BY <1>0, <1>18, <1>20, <1>21, <1>22, <1>23, <1>24, <1>25, <1>26, <1>27 DEF DecodeInv

-----------------------------------------------------------------------------
(* The theorems.                                                           *)

LEMMA DecodingStep == DecodingInv /\ ~ Adjacent /\ [Next]_vars => DecodingInv'
<1>1. SUFFICES ASSUME DecodingInv, ~ Adjacent, [Next]_vars PROVE DecodingInv'
  OBVIOUS
<1>2. RetentionInv /\ NoDecodeFailure /\ DecodedInForce /\ (verdict = "ok" => DecodeInv)
  BY <1>1 DEF DecodingInv
<1>3. RetentionInv'
  BY <1>1, <1>2, RetentionStep
<1>4. ASSUME verdict = "ok", DecodeInv' /\ verdict' = "ok" PROVE DecodingInv'
  BY <1>3, <1>4 DEF DecodingInv, DecodeInv, NoDecodeFailure
<1>5. CASE HandleDdlMessage
  BY <1>1, <1>2, <1>4, <1>5, DdlDecodes DEF HandleDdlMessage, AtItem, Live
<1>6. CASE HandleRelationMessage
  BY <1>1, <1>2, <1>4, <1>6, RelationDecodes DEF HandleRelationMessage, AtItem, Live
<1>7. CASE HandleRowMessage
  BY <1>1, <1>2, <1>4, <1>7, RowDecodes DEF HandleRowMessage, AtItem, Live
<1>8. CASE HandleTruncateMessage
  BY <1>1, <1>2, <1>4, <1>8, TruncateDecodes DEF HandleTruncateMessage, AtItem, Live
<1>9. CASE HandleCommitMessage
  BY <1>1, <1>2, <1>4, <1>9, CommitMessageDecodes DEF HandleCommitMessage, Live
<1>10. CASE Invalidate
  <2>1. ConnTypes /\ verdict = "ok" /\ verdict' = verdict
    BY <1>2, <1>10 DEF Invalidate, Live, RetentionInv, DecodingTypes
  <2> QED
    BY <1>1, <1>2, <1>4, <1>10, <2>1, InvalidateDecodes
<1>11. CASE ApplyRelation
  <2>1. verdict = "ok"
    BY <1>11 DEF ApplyRelation, Working
  <2>2. DecodedInForce' /\ ((DecodeInv' /\ verdict' = "ok") \/ verdict' = "rewind")
    BY <1>1, <1>2, <1>11, <2>1, ApplyDecodes
  <2> QED
    BY <1>3, <2>2 DEF DecodingInv, NoDecodeFailure
<1>12. CASE RecoverInterrupted
  BY <1>1, <1>2, <1>4, <1>12, RecoverDecodes DEF RecoverInterrupted
<1>13. CASE WriteRow
  BY <1>1, <1>2, <1>4, <1>13, WriteDecodes DEF WriteRow, Working
<1>14. CASE CompleteCommit
  BY <1>1, <1>2, <1>4, <1>14, CompleteDecodes DEF CompleteCommit, Working
<1>15. CASE PruneSchemas
  <2>1. Static /\ outbox' = outbox /\ verdict' = verdict
    BY <1>15 DEF PruneSchemas, Static
  <2>2. DecodedInForce'
    BY <1>2, <2>1, StaticStays DEF DecodedInForce
  <2>3. verdict = "ok" => DecodeInv'
    BY <1>1, <1>2, <1>15, PruneDecodes
  <2> QED
    BY <1>2, <1>3, <2>1, <2>2, <2>3 DEF DecodingInv, NoDecodeFailure
<1>16. CASE Reconnect \/ Restart
  BY <1>1, <1>2, <1>4, <1>16, ResumeDecodes DEF Reconnect, Restart, Resume
<1>17. CASE UNCHANGED vars
  <2>1. Away /\ UNCHANGED <<meta, outbox, verdict>>
    BY <1>17 DEF vars, Away
  <2>2. DecodedInForce'
    <3>1. Static
      BY <2>1 DEF Away, Static
    <3> QED
      BY <1>2, <2>1, <3>1, StaticStays DEF DecodedInForce
  <2>3. ASSUME verdict = "ok" PROVE DecodeInv'
    <3>0. DecodeInv
      BY <1>2, <2>3
    <3>1. Static /\ StoredInv' /\ ClosedInv' /\ CleanupInv' /\ MaskInv'
      BY <1>1, <2>1, <3>0, AwayStays
    <3>2. SyncedTo' = SyncedTo /\ Schemas' = Schemas /\ Position' = Position
      BY <1>1, <2>1, <3>0, SteadyStays DEF Away
    <3>3. PlaceInv'
      <4>1. CommitLsn(conn.tx)' = CommitLsn(conn.tx)
        BY <2>1 DEF Away
      <4> QED
        BY <2>1, <3>0, <3>2, <4>1 DEF DecodeInv, PlaceInv, Away
    <3>4. DecoderInv'
      <4>1. CASE conn.dec.kind # "none"
        BY <1>1, <2>1, <3>0, <4>1, SteadyDecoder DEF Away
      <4>2. CASE conn.dec.kind = "none"
        BY <2>1, <3>0, <3>2, <4>2 DEF DecodeInv, DecoderInv, Away
      <4> QED
        BY <4>1, <4>2
    <3>5. AnnounceInv' /\ EarlyInv'
      <4>1. \A i, s : Announced(i, s)' <=> Announced(i, s)
        BY <2>1 DEF Announced
      <4>2. \A i : HandoverBefore(i)' <=> HandoverBefore(i)
        BY <2>1 DEF HandoverBefore, Away
      <4>3. Owned(CommitLsn(conn.tx))' <=> Owned(CommitLsn(conn.tx))
        BY <2>1 DEF Owned, Away
      <4>4. AnnounceInv'
        BY <2>1, <3>0, <4>1 DEF DecodeInv, AnnounceInv, Away
      <4>5. EarlyInv'
        BY <2>1, <3>0, <4>2, <4>3 DEF DecodeInv, EarlyInv, Away
      <4> QED
        BY <4>4, <4>5
    <3> QED
      BY <2>2, <3>1, <3>3, <3>4, <3>5 DEF DecodeInv
  <2> QED
    BY <1>2, <1>3, <2>1, <2>2, <2>3 DEF DecodingInv, NoDecodeFailure
<1> QED
  BY <1>1, <1>5, <1>6, <1>7, <1>8, <1>9, <1>10, <1>11, <1>12, <1>13, <1>14, <1>15, <1>16, <1>17 DEF Next

(* The inductive invariant of decoding: the schema in force, the schemas   *)
(* stored from the checkpoint to the stream's position, the cache without  *)
(* holes, and what the destination has been told, as the apply loop keeps  *)
(* them (apply.rs).                                                        *)
THEOREM DecodingInvariance == ~ Adjacent => (Spec => []DecodingInv)
<1>1. SUFFICES ASSUME ~ Adjacent PROVE Spec => []DecodingInv
  OBVIOUS
<1>2. Init => DecodingInv
  BY <1>1, RetentionStarts, DecodingStarts DEF DecodingInv, DecodeInv, NoDecodeFailure
<1>3. DecodingInv /\ [Next]_vars => DecodingInv'
  BY <1>1, DecodingStep
<1> QED
  BY <1>2, <1>3, PTL DEF Spec

(* The apply loop never meets a row or relation it has no schema for, and  *)
(* the destination never gets a row for a schema other than the one it has *)
(* applied, for every WAL whose commit records do not touch, any cache and *)
(* queue capacity and any number of breaks (the MissingTableSchema and     *)
(* InvalidState errors of the lookups).                                    *)
THEOREM RowsAlwaysDecodable == ~ Adjacent => (Spec => []NoDecodeFailure)
<1>1. DecodingInv => NoDecodeFailure
  BY DEF DecodingInv
<1> QED
  BY <1>1, DecodingInvariance, PTL

(* Every row sent is decoded with the columns and the masks in force when  *)
(* it was written, for every WAL whose commit records do not touch         *)
(* (select_relation_schema, get_replicated_table_schema).                  *)
THEOREM RowsDecodedInForce == ~ Adjacent => (Spec => []DecodedInForce)
<1>1. DecodingInv => DecodedInForce
  BY DEF DecodingInv
<1> QED
  BY <1>1, DecodingInvariance, PTL

-----------------------------------------------------------------------------
(* The slot: the inductive invariant.                                      *)

Steps == {"inspect", "forget", "create", "resume", "reset", "drop", "recreate",
          "stream", "failed"}
SlotRecord == [kind : {"missing", "valid", "invalid"}, lsn : Nat, timeline : Nat]
CheckpointRecord == [kind : {"none", "some"}, lsn : Nat, timeline : Nat]
Lifecycle == {"none", "init", "datasync", "finished", "syncdone", "ready", "errored"}
Row == [cur : Lifecycle, prev : Lifecycle, lsn : Nat]
Worker == [run : {"none", "running", "retrying"},
           state : Lifecycle \cup {"copying", "syncwait", "catchup"}, lsn : Nat]

SlotTypes ==
    /\ slotWal \in Nat /\ timeline \in Nat \ {0}
    /\ slot \in SlotRecord /\ slotCheckpoint \in CheckpointRecord
    /\ row \in [Tables -> Row] /\ worker \in [Tables -> Worker]
    /\ dest \in [Tables -> Nat] /\ apply \in [step : Steps, pos : Nat]

(* Where each call of get_start_lsn and handle_invalidated_slot finds the  *)
(* slot and the checkpoint.                                                *)
StepInv ==
    /\ apply.step \in {"forget", "create", "recreate"} => slot.kind = "missing"
    /\ apply.step \in {"resume", "stream"} => slot.kind # "missing"
    /\ apply.step \in {"create", "drop", "recreate"} => slotCheckpoint = Slot!NoCheckpoint
    /\ slot.kind = "missing" => slot.lsn = 0
    /\ Slot!CheckpointOfThisSlot

Handed(t) == row[t].cur \in {"syncdone", "ready"}

(* A table-sync worker that still has its work before it, or will retry,   *)
(* has not handed its table over, and a retry does not restore a handover. *)
(* The attempt that set a catchup target waits at it.                      *)
WorkerInv ==
    \A t \in Tables :
        /\ Slot!Running(t, {"init", "datasync", "finished", "copying", "syncwait", "catchup"})
              => ~ Handed(t)
        /\ worker[t].run = "retrying" => ~ Handed(t) /\ row[t].prev \notin {"syncdone", "ready"}
        /\ Slot!Running(t, {"catchup"}) => apply.step = "stream" /\ apply.pos <= worker[t].lsn

(* Without a slot no table is handed over: what the slot's positions meant *)
(* for a table is gone with it.                                            *)
UnslottedInv ==
    slot.kind = "missing" \/ apply.step \in {"drop", "recreate"} =>
        \A t \in Tables : ~ Handed(t)

(* The destination has what a handed-over table's boundary promises, and   *)
(* everything before any position an attempt may start from.               *)
BoundaryInv ==
    \A t \in Tables :
        /\ row[t].cur = "syncdone" => dest[t] >= row[t].lsn
        /\ Slot!OwnedAt(t, Slot!StartLsn) => dest[t] >= Slot!StartLsn

StreamInv == apply.step = "stream" => slotCheckpoint.lsn <= apply.pos /\ slot.lsn <= apply.pos

LineInv == UnslottedInv /\ BoundaryInv /\ StreamInv /\ Slot!NoMissedChanges

(* After a failover to an earlier position, the stored positions mean      *)
(* nothing any more: the missing-slot warning is about that.               *)
SlotInv == SlotTypes /\ StepInv /\ WorkerInv /\ (timeline = 1 => LineInv)

-----------------------------------------------------------------------------
(* Facts about the steps.                                                  *)

(* SetCatchup moves one worker to a target at or after the stream. *)
LEMMA CatchupFacts ==
    ASSUME SlotTypes, NEW t \in Tables, Slot!SetCatchup(t)
    PROVE  /\ worker' \in [Tables -> Worker]
           /\ worker'[t].state = "catchup" /\ worker'[t].lsn >= apply.pos
           /\ worker[t].run = "running" /\ worker[t].state = "syncwait"
           /\ worker'[t].run = "running"
           /\ \A u \in Tables : u # t => worker'[u] = worker[u]
<1>1. worker \in [Tables -> Worker] /\ apply.pos \in Nat /\ worker[t].lsn \in Nat
  BY DEF SlotTypes, Worker
<1>a. PICK target : target = Slot!Later(worker[t].lsn, apply.pos)
  OBVIOUS
<1>b. target \in Nat /\ target >= apply.pos
  BY <1>1, <1>a DEF Slot!Later
<1>2. worker' = [worker EXCEPT ![t].state = "catchup", ![t].lsn = target]
  BY <1>a DEF Slot!SetCatchup
<1>3. worker[t].run = "running" /\ worker[t].state = "syncwait"
  BY DEF Slot!SetCatchup
<1>. QED
  BY <1>1, <1>b, <1>2, <1>3 DEF Worker

(* The first state is clean. *)
LEMMA InitSlot == Slot!Init => SlotInv
<1>. SUFFICES ASSUME Slot!Init PROVE SlotInv
  OBVIOUS
<1>1. SlotTypes
  BY DEF Slot!Init, SlotTypes, SlotRecord, CheckpointRecord, Row, Worker, Lifecycle, Steps,
     Slot!NoSlot, Slot!NoCheckpoint, Slot!NoWorker, Slot!At
<1>2. \A t \in Tables : row[t].cur = "init" /\ worker[t].run = "none"
  BY DEF Slot!Init, Slot!NoWorker
<1>. QED
  BY <1>1, <1>2 DEF Slot!Init, SlotInv, StepInv, WorkerInv, LineInv, UnslottedInv,
     BoundaryInv, StreamInv, Slot!NoMissedChanges, Slot!CheckpointOfThisSlot, Slot!OwnedAt,
     Handed, Slot!Running, Slot!NoSlot, Slot!NoCheckpoint, Slot!At

(* Every step preserves the types. *)
LEMMA NextTypes == SlotTypes /\ [Slot!Next]_(Slot!vars) => SlotTypes'
<1>. SUFFICES ASSUME SlotTypes, [Slot!Next]_(Slot!vars) PROVE SlotTypes'
  OBVIOUS
<1>. USE DEF SlotTypes, SlotRecord, CheckpointRecord, Row, Worker, Lifecycle, Steps
<1>0. CASE UNCHANGED Slot!vars
  BY <1>0 DEF Slot!vars
<1>1. CASE Slot!InspectSlot
  BY <1>1 DEF Slot!InspectSlot, Slot!At
<1>2. CASE Slot!DeleteCheckpoint
  BY <1>2 DEF Slot!DeleteCheckpoint, Slot!At, Slot!Forget, Slot!NoCheckpoint
<1>3. CASE Slot!CreateMissingSlot
  BY <1>3 DEF Slot!CreateMissingSlot, Slot!CreateSlot, Slot!StreamFrom, Slot!NoCheckpoint
<1>4. CASE Slot!ResumeSlot
  BY <1>4 DEF Slot!ResumeSlot, Slot!StreamFrom, Slot!StartLsn, Slot!Later
<1>5. CASE Slot!ResetTablesForResync
  BY <1>5 DEF Slot!ResetTablesForResync, Slot!At, Slot!Forget, Slot!NoCheckpoint, Slot!Pushed
<1>6. CASE Slot!DeleteInvalidatedSlot
  BY <1>6 DEF Slot!DeleteInvalidatedSlot, Slot!At, Slot!NoSlot
<1>7. CASE Slot!RecreateSlot
  BY <1>7 DEF Slot!RecreateSlot, Slot!CreateSlot, Slot!StreamFrom, Slot!NoCheckpoint
<1>8. CASE Slot!Stream
  BY <1>8 DEF Slot!Stream, Slot!Streaming, Slot!Later
<1>9. CASE Slot!PersistCheckpoint
  BY <1>9 DEF Slot!PersistCheckpoint, Slot!Streaming, Slot!Pushed
<1>10. CASE Slot!ConfirmFlush
  BY <1>10 DEF Slot!ConfirmFlush, Slot!Streaming
<1>11. CASE Slot!Write
  BY <1>11 DEF Slot!Write
<1>12. CASE Slot!InvalidateSlot
  BY <1>12 DEF Slot!InvalidateSlot, Slot!Fault, Slot!At, Slot!Streaming
<1>13. CASE Slot!FailAttempt
  BY <1>13 DEF Slot!FailAttempt, Slot!Fault, Slot!At
<1>14. CASE Slot!Crash
  BY <1>14 DEF Slot!Crash, Slot!Fault, Slot!At, Slot!NoWorker
<1>15. CASE Slot!Failover
  BY <1>15 DEF Slot!Failover, Slot!Fault, Slot!At, Slot!NoWorker, Slot!NoSlot
<1>16. ASSUME NEW t \in Tables, Slot!SpawnWorker(t) PROVE SlotTypes'
  BY <1>16 DEF Slot!SpawnWorker, Slot!Streaming
<1>17. ASSUME NEW t \in Tables, Slot!SetCatchup(t) PROVE SlotTypes'
  BY <1>17, CatchupFacts DEF Slot!SetCatchup, Slot!Streaming
<1>18. ASSUME NEW t \in Tables, Slot!StartCopy(t) PROVE SlotTypes'
  BY <1>18 DEF Slot!StartCopy, Slot!Pushed, Slot!Running
<1>19. ASSUME NEW t \in Tables, Slot!FinishCopy(t) PROVE SlotTypes'
  BY <1>19 DEF Slot!FinishCopy, Slot!Pushed, Slot!Running
<1>20. ASSUME NEW t \in Tables, Slot!CompleteCatchup(t) PROVE SlotTypes'
  BY <1>20 DEF Slot!CompleteCatchup, Slot!Pushed, Slot!Running
<1>21. ASSUME NEW t \in Tables, Slot!FinishWorker(t) PROVE SlotTypes'
  BY <1>21 DEF Slot!FinishWorker, Slot!NoWorker, Slot!Running
<1>22. ASSUME NEW t \in Tables, Slot!FailWorker(t) PROVE SlotTypes'
  BY <1>22 DEF Slot!FailWorker, Slot!Pushed, Slot!Running
<1>23. ASSUME NEW t \in Tables, Slot!RetryWorker(t) PROVE SlotTypes'
  BY <1>23 DEF Slot!RetryWorker, Slot!Running
<1>. QED
  BY <1>0, <1>1, <1>2, <1>3, <1>4, <1>5, <1>6, <1>7, <1>8, <1>9, <1>10, <1>11, <1>12,
     <1>13, <1>14, <1>15, <1>16, <1>17, <1>18, <1>19, <1>20, <1>21, <1>22, <1>23 DEF Slot!Next

(* Every step keeps the slot and the checkpoint where the calls expect them. *)
LEMMA NextStep == SlotTypes /\ StepInv /\ [Slot!Next]_(Slot!vars) => StepInv'
<1>. SUFFICES ASSUME SlotTypes, StepInv, [Slot!Next]_(Slot!vars) PROVE StepInv'
  OBVIOUS
<1>. USE DEF StepInv, Slot!CheckpointOfThisSlot, SlotTypes, SlotRecord, CheckpointRecord
<1>0. CASE UNCHANGED Slot!vars
  BY <1>0 DEF Slot!vars
<1>1. CASE Slot!InspectSlot
  BY <1>1 DEF Slot!InspectSlot, Slot!At
<1>2. CASE Slot!DeleteCheckpoint
  BY <1>2 DEF Slot!DeleteCheckpoint, Slot!At, Slot!Forget, Slot!NoCheckpoint
<1>3. CASE Slot!CreateMissingSlot
  BY <1>3 DEF Slot!CreateMissingSlot, Slot!CreateSlot, Slot!StreamFrom, Slot!NoCheckpoint
<1>4. CASE Slot!ResumeSlot
  BY <1>4 DEF Slot!ResumeSlot, Slot!StreamFrom, Slot!StartLsn, Slot!Later
<1>5. CASE Slot!ResetTablesForResync
  BY <1>5 DEF Slot!ResetTablesForResync, Slot!At, Slot!Forget, Slot!NoCheckpoint, Slot!Pushed
<1>6. CASE Slot!DeleteInvalidatedSlot
  BY <1>6 DEF Slot!DeleteInvalidatedSlot, Slot!At, Slot!NoSlot
<1>7. CASE Slot!RecreateSlot
  BY <1>7 DEF Slot!RecreateSlot, Slot!CreateSlot, Slot!StreamFrom, Slot!NoCheckpoint
<1>8. CASE Slot!Stream
  BY <1>8 DEF Slot!Stream, Slot!Streaming, Slot!Later
<1>9. CASE Slot!PersistCheckpoint
  BY <1>9 DEF Slot!PersistCheckpoint, Slot!Streaming, Slot!Pushed
<1>10. CASE Slot!ConfirmFlush
  BY <1>10 DEF Slot!ConfirmFlush, Slot!Streaming
<1>11. CASE Slot!Write
  BY <1>11 DEF Slot!Write
<1>12. CASE Slot!InvalidateSlot
  BY <1>12 DEF Slot!InvalidateSlot, Slot!Fault, Slot!At, Slot!Streaming
<1>13. CASE Slot!FailAttempt
  BY <1>13 DEF Slot!FailAttempt, Slot!Fault, Slot!At
<1>14. CASE Slot!Crash
  BY <1>14 DEF Slot!Crash, Slot!Fault, Slot!At, Slot!NoWorker
<1>15. CASE Slot!Failover
  BY <1>15 DEF Slot!Failover, Slot!Fault, Slot!At, Slot!NoWorker, Slot!NoSlot
<1>16. ASSUME NEW t \in Tables, Slot!SpawnWorker(t) PROVE StepInv'
  BY <1>16 DEF Slot!SpawnWorker, Slot!Streaming
<1>17. ASSUME NEW t \in Tables, Slot!SetCatchup(t) PROVE StepInv'
  BY <1>17 DEF Slot!SetCatchup, Slot!Streaming, Slot!Later
<1>18. ASSUME NEW t \in Tables, Slot!StartCopy(t) PROVE StepInv'
  BY <1>18 DEF Slot!StartCopy, Slot!Pushed, Slot!Running
<1>19. ASSUME NEW t \in Tables, Slot!FinishCopy(t) PROVE StepInv'
  BY <1>19 DEF Slot!FinishCopy, Slot!Pushed, Slot!Running
<1>20. ASSUME NEW t \in Tables, Slot!CompleteCatchup(t) PROVE StepInv'
  BY <1>20 DEF Slot!CompleteCatchup, Slot!Pushed, Slot!Running
<1>21. ASSUME NEW t \in Tables, Slot!FinishWorker(t) PROVE StepInv'
  BY <1>21 DEF Slot!FinishWorker, Slot!NoWorker, Slot!Running
<1>22. ASSUME NEW t \in Tables, Slot!FailWorker(t) PROVE StepInv'
  BY <1>22 DEF Slot!FailWorker, Slot!Pushed, Slot!Running
<1>23. ASSUME NEW t \in Tables, Slot!RetryWorker(t) PROVE StepInv'
  BY <1>23 DEF Slot!RetryWorker, Slot!Running
<1>. QED
  BY <1>0, <1>1, <1>2, <1>3, <1>4, <1>5, <1>6, <1>7, <1>8, <1>9, <1>10, <1>11, <1>12,
     <1>13, <1>14, <1>15, <1>16, <1>17, <1>18, <1>19, <1>20, <1>21, <1>22, <1>23 DEF Slot!Next

(* Every step keeps a working table-sync worker's table unhanded. *)
LEMMA NextWorker == SlotTypes /\ WorkerInv /\ [Slot!Next]_(Slot!vars) => WorkerInv'
<1>. SUFFICES ASSUME SlotTypes, WorkerInv, [Slot!Next]_(Slot!vars) PROVE WorkerInv'
  OBVIOUS
<1>. USE DEF WorkerInv, SlotTypes, Row, Worker, Lifecycle, Handed, Slot!Running, Slot!CatchingUp
<1>0. CASE UNCHANGED Slot!vars
  BY <1>0 DEF Slot!vars
<1>1. CASE Slot!InspectSlot
  BY <1>1 DEF Slot!InspectSlot, Slot!At
<1>2. CASE Slot!DeleteCheckpoint
  BY <1>2 DEF Slot!DeleteCheckpoint, Slot!At, Slot!Forget, Slot!NoCheckpoint
<1>3. CASE Slot!CreateMissingSlot
  BY <1>3 DEF Slot!CreateMissingSlot, Slot!CreateSlot, Slot!StreamFrom, Slot!NoCheckpoint
<1>4. CASE Slot!ResumeSlot
  BY <1>4 DEF Slot!ResumeSlot, Slot!StreamFrom, Slot!StartLsn, Slot!Later
<1>5. CASE Slot!ResetTablesForResync
  BY <1>5 DEF Slot!ResetTablesForResync, Slot!At, Slot!Forget, Slot!NoCheckpoint, Slot!Pushed
<1>6. CASE Slot!DeleteInvalidatedSlot
  BY <1>6 DEF Slot!DeleteInvalidatedSlot, Slot!At, Slot!NoSlot
<1>7. CASE Slot!RecreateSlot
  BY <1>7 DEF Slot!RecreateSlot, Slot!CreateSlot, Slot!StreamFrom, Slot!NoCheckpoint
<1>8. CASE Slot!Stream
  BY <1>8 DEF Slot!Stream, Slot!Streaming, Slot!Later
<1>9. CASE Slot!PersistCheckpoint
  BY <1>9 DEF Slot!PersistCheckpoint, Slot!Streaming, Slot!Pushed
<1>10. CASE Slot!ConfirmFlush
  BY <1>10 DEF Slot!ConfirmFlush, Slot!Streaming
<1>11. CASE Slot!Write
  BY <1>11 DEF Slot!Write
<1>12. CASE Slot!InvalidateSlot
  BY <1>12 DEF Slot!InvalidateSlot, Slot!Fault, Slot!At, Slot!Streaming
<1>13. CASE Slot!FailAttempt
  BY <1>13 DEF Slot!FailAttempt, Slot!Fault, Slot!At
<1>14. CASE Slot!Crash
  BY <1>14 DEF Slot!Crash, Slot!Fault, Slot!At, Slot!NoWorker
<1>15. CASE Slot!Failover
  BY <1>15 DEF Slot!Failover, Slot!Fault, Slot!At, Slot!NoWorker, Slot!NoSlot
<1>16. ASSUME NEW t \in Tables, Slot!SpawnWorker(t) PROVE WorkerInv'
  BY <1>16 DEF Slot!SpawnWorker, Slot!Streaming
<1>17. ASSUME NEW t \in Tables, Slot!SetCatchup(t) PROVE WorkerInv'
  BY <1>17, CatchupFacts DEF Slot!SetCatchup, Slot!Streaming
<1>18. ASSUME NEW t \in Tables, Slot!StartCopy(t) PROVE WorkerInv'
  BY <1>18 DEF Slot!StartCopy, Slot!Pushed, Slot!Running
<1>19. ASSUME NEW t \in Tables, Slot!FinishCopy(t) PROVE WorkerInv'
  BY <1>19 DEF Slot!FinishCopy, Slot!Pushed, Slot!Running
<1>20. ASSUME NEW t \in Tables, Slot!CompleteCatchup(t) PROVE WorkerInv'
  BY <1>20 DEF Slot!CompleteCatchup, Slot!Pushed, Slot!Running
<1>21. ASSUME NEW t \in Tables, Slot!FinishWorker(t) PROVE WorkerInv'
  BY <1>21 DEF Slot!FinishWorker, Slot!NoWorker, Slot!Running
<1>22. ASSUME NEW t \in Tables, Slot!FailWorker(t) PROVE WorkerInv'
  BY <1>22 DEF Slot!FailWorker, Slot!Pushed, Slot!Running
<1>23. ASSUME NEW t \in Tables, Slot!RetryWorker(t) PROVE WorkerInv'
  BY <1>23 DEF Slot!RetryWorker, Slot!Running
<1>. QED
  BY <1>0, <1>1, <1>2, <1>3, <1>4, <1>5, <1>6, <1>7, <1>8, <1>9, <1>10, <1>11, <1>12,
     <1>13, <1>14, <1>15, <1>16, <1>17, <1>18, <1>19, <1>20, <1>21, <1>22, <1>23 DEF Slot!Next

(* Until a failover, every step keeps what the start positions promise. *)
LEMMA NextLine == SlotInv /\ timeline' = 1 /\ [Slot!Next]_(Slot!vars) => LineInv'
<1>. SUFFICES ASSUME SlotTypes, StepInv, WorkerInv, timeline = 1 => LineInv,
                     timeline' = 1, [Slot!Next]_(Slot!vars)
              PROVE  LineInv'
  BY DEF SlotInv
<1>. USE DEF LineInv, UnslottedInv, BoundaryInv, StreamInv, Slot!NoMissedChanges, StepInv,
             WorkerInv, SlotTypes, SlotRecord, CheckpointRecord, Row, Worker, Lifecycle,
             Slot!OwnedAt, Slot!StartLsn, Slot!Later, Handed, Slot!Running, Slot!CatchingUp
<1>0. CASE UNCHANGED Slot!vars
  BY <1>0 DEF Slot!vars
<1>1. CASE Slot!InspectSlot
  BY <1>1 DEF Slot!InspectSlot, Slot!At
<1>2. CASE Slot!DeleteCheckpoint
  BY <1>2 DEF Slot!DeleteCheckpoint, Slot!At, Slot!Forget, Slot!NoCheckpoint
<1>3. CASE Slot!CreateMissingSlot
  BY <1>3 DEF Slot!CreateMissingSlot, Slot!CreateSlot, Slot!StreamFrom, Slot!NoCheckpoint
<1>4. CASE Slot!ResumeSlot
  BY <1>4 DEF Slot!ResumeSlot, Slot!StreamFrom, Slot!StartLsn, Slot!Later
<1>5. CASE Slot!ResetTablesForResync
  BY <1>5 DEF Slot!ResetTablesForResync, Slot!At, Slot!Forget, Slot!NoCheckpoint, Slot!Pushed
<1>6. CASE Slot!DeleteInvalidatedSlot
  BY <1>6 DEF Slot!DeleteInvalidatedSlot, Slot!At, Slot!NoSlot
<1>7. CASE Slot!RecreateSlot
  BY <1>7 DEF Slot!RecreateSlot, Slot!CreateSlot, Slot!StreamFrom, Slot!NoCheckpoint
<1>8. CASE Slot!Stream
  BY <1>8 DEF Slot!Stream, Slot!Streaming, Slot!Later
<1>9. CASE Slot!PersistCheckpoint
  BY <1>9 DEF Slot!PersistCheckpoint, Slot!Streaming, Slot!Pushed
<1>10. CASE Slot!ConfirmFlush
  BY <1>10 DEF Slot!ConfirmFlush, Slot!Streaming
<1>11. CASE Slot!Write
  BY <1>11 DEF Slot!Write
<1>12. CASE Slot!InvalidateSlot
  BY <1>12 DEF Slot!InvalidateSlot, Slot!Fault, Slot!At, Slot!Streaming
<1>13. CASE Slot!FailAttempt
  BY <1>13 DEF Slot!FailAttempt, Slot!Fault, Slot!At
<1>14. CASE Slot!Crash
  BY <1>14 DEF Slot!Crash, Slot!Fault, Slot!At, Slot!NoWorker
<1>15. CASE Slot!Failover
  BY <1>15 DEF Slot!Failover, Slot!Fault, Slot!At, Slot!NoWorker, Slot!NoSlot
<1>16. ASSUME NEW t \in Tables, Slot!SpawnWorker(t) PROVE LineInv'
  BY <1>16 DEF Slot!SpawnWorker, Slot!Streaming
<1>17. ASSUME NEW t \in Tables, Slot!SetCatchup(t) PROVE LineInv'
  BY <1>17, CatchupFacts DEF Slot!SetCatchup, Slot!Streaming
<1>18. ASSUME NEW t \in Tables, Slot!StartCopy(t) PROVE LineInv'
  BY <1>18 DEF Slot!StartCopy, Slot!Pushed, Slot!Running
<1>19. ASSUME NEW t \in Tables, Slot!FinishCopy(t) PROVE LineInv'
  BY <1>19 DEF Slot!FinishCopy, Slot!Pushed, Slot!Running
<1>20. ASSUME NEW t \in Tables, Slot!CompleteCatchup(t) PROVE LineInv'
  BY <1>20 DEF Slot!CompleteCatchup, Slot!Pushed, Slot!Running
<1>21. ASSUME NEW t \in Tables, Slot!FinishWorker(t) PROVE LineInv'
  BY <1>21 DEF Slot!FinishWorker, Slot!NoWorker, Slot!Running
<1>22. ASSUME NEW t \in Tables, Slot!FailWorker(t) PROVE LineInv'
  BY <1>22 DEF Slot!FailWorker, Slot!Pushed, Slot!Running
<1>23. ASSUME NEW t \in Tables, Slot!RetryWorker(t) PROVE LineInv'
  BY <1>23 DEF Slot!RetryWorker, Slot!Running
<1>. QED
  BY <1>0, <1>1, <1>2, <1>3, <1>4, <1>5, <1>6, <1>7, <1>8, <1>9, <1>10, <1>11, <1>12,
     <1>13, <1>14, <1>15, <1>16, <1>17, <1>18, <1>19, <1>20, <1>21, <1>22, <1>23 DEF Slot!Next

-----------------------------------------------------------------------------
(* Theorems.                                                               *)

(* The invariant holds in every reachable state. *)
THEOREM SlotInvariance == Slot!Spec => []SlotInv
<1>1. SlotInv /\ [Slot!Next]_(Slot!vars) => SlotInv'
  BY NextTypes, NextStep, NextWorker, NextLine DEF SlotInv
<1>. QED
  BY <1>1, InitSlot, PTL DEF Slot!Spec

(* A slot is never paired with the checkpoint of an earlier slot, whatever *)
(* call of get_start_lsn a crash or a failover comes after.                *)
THEOREM CheckpointFollowsSlot == Slot!Spec => []CheckpointOfThisSlot
<1>1. SlotInv => CheckpointOfThisSlot
  BY DEF CheckpointOfThisSlot, SlotInv, StepInv
<1>. QED
  BY <1>1, SlotInvariance, PTL

(* Until a failover, no table the apply worker owns misses a change before *)
(* the position it streams from: the reset of every table is stored before *)
(* the slot is replaced, and no surviving table-sync worker hands its      *)
(* table over in between.                                                  *)
THEOREM StartMissesNothing == Slot!Spec => []NoMissedChanges
<1>1. SlotInv => NoMissedChanges
  BY DEF NoMissedChanges, SlotInv, LineInv, Slot!NoMissedChanges
<1>. QED
  BY <1>1, SlotInvariance, PTL

================================================================================
