-------------------------- MODULE PostgresStoreProofs --------------------------
(***************************************************************************)
(* TLAPS proofs about PostgresStore, for any finite set of tables, any     *)
(* states, positions, metadata and snapshots, any bound of the cache and   *)
(* any number of history rows.                                             *)
(***************************************************************************)
EXTENDS PostgresStore, FiniteSetTheorems, WellFoundedInduction, TLAPS

USE StoreAssumption

-----------------------------------------------------------------------------
(* The inductive invariant of the history rows.                            *)

RowTypes ==
    /\ lastId \in 0..MaxRows
    /\ rows = [i \in DOMAIN rows |-> rows[i]]
    /\ \A i \in DOMAIN rows : i \in 1..lastId /\ rows[i] \in Row

(* RowChains without cardinalities: prev links an older row of the same    *)
(* table, no two rows share one, and the current row is the unlinked one.  *)
ChainInv ==
    /\ \A i \in DOMAIN rows : rows[i].prev # 0 =>
          /\ rows[i].prev \in DOMAIN rows /\ rows[i].prev < i
          /\ rows[rows[i].prev].table = rows[i].table
    /\ \A i, j \in DOMAIN rows :
          rows[i].table = rows[j].table /\ rows[i].prev = rows[j].prev => i = j
    /\ \A i \in DOMAIN rows : rows[i].current <=> \A j \in DOMAIN rows : rows[j].prev # i
    /\ \A i, j \in DOMAIN rows :
          rows[i].table = rows[j].table /\ rows[i].current /\ rows[j].current => i = j
    /\ \A i \in DOMAIN rows : \E j \in DOMAIN rows :
          rows[j].table = rows[i].table /\ rows[j].current

RowInv == RowTypes /\ ChainInv

(* The row the next one of a table points to. *)
OldId(t) == IF CurrentIds(t) = {} THEN 0 ELSE CHOOSE i \in CurrentIds(t) : TRUE

-----------------------------------------------------------------------------
(* Facts about the rows.                                                   *)

(* A table has rows exactly when it has a current one, which is unique. *)
RowFacts ==
    \A t \in Tables :
        /\ t \in Stored <=> \E i \in DOMAIN rows : rows[i].table = t
        /\ t \in Stored => /\ OldId(t) \in CurrentIds(t)
                           /\ OldId(t) \in DOMAIN rows
                           /\ rows[OldId(t)].table = t /\ rows[OldId(t)].current
                           /\ StoredState(t) = rows[OldId(t)].state
                           /\ StoredState(t) \in States
        /\ t \notin Stored => OldId(t) = 0 /\ CurrentIds(t) = {}
        /\ \A i \in DOMAIN rows : rows[i].table = t /\ rows[i].current =>
              i = OldId(t) /\ t \in Stored

(* The invariant implies these facts. *)
LEMMA CurrentRow == RowInv => RowFacts
<1>. SUFFICES ASSUME RowInv, NEW t \in Tables
              PROVE  /\ t \in Stored <=> \E i \in DOMAIN rows : rows[i].table = t
                     /\ t \in Stored => /\ OldId(t) \in CurrentIds(t)
                                        /\ OldId(t) \in DOMAIN rows
                                        /\ rows[OldId(t)].table = t /\ rows[OldId(t)].current
                                        /\ StoredState(t) = rows[OldId(t)].state
                                        /\ StoredState(t) \in States
                     /\ t \notin Stored => OldId(t) = 0 /\ CurrentIds(t) = {}
                     /\ \A i \in DOMAIN rows : rows[i].table = t /\ rows[i].current =>
                           i = OldId(t) /\ t \in Stored
  BY DEF RowFacts
<1>1. t \in Stored <=> \E i \in DOMAIN rows : rows[i].table = t
  BY DEF RowInv, ChainInv, Stored, CurrentIds
<1>2. ASSUME t \in Stored
      PROVE  /\ OldId(t) \in CurrentIds(t) /\ OldId(t) \in DOMAIN rows
             /\ rows[OldId(t)].table = t /\ rows[OldId(t)].current
             /\ StoredState(t) = rows[OldId(t)].state
             /\ StoredState(t) \in States
  <2>1. CurrentIds(t) # {}
    BY <1>2 DEF Stored
  <2>2. OldId(t) \in CurrentIds(t) /\ StoredState(t) = rows[OldId(t)].state
    BY <2>1 DEF OldId, StoredState
  <2>. QED
    BY <2>2 DEF CurrentIds, RowInv, RowTypes, Row
<1>3. t \notin Stored => OldId(t) = 0 /\ CurrentIds(t) = {}
  BY DEF Stored, OldId
<1>4. \A i \in DOMAIN rows : rows[i].table = t /\ rows[i].current =>
         i = OldId(t) /\ t \in Stored
  BY <1>1, <1>2 DEF RowInv, ChainInv
<1>. QED
  BY <1>1, <1>2, <1>3, <1>4

(* An update appends to the chain of each of its tables. *)
LEMMA InsertLinks ==
    ASSUME RowInv, NEW T \in SUBSET Tables, NEW u \in [T -> States], NEW n \in Nat,
           NEW order \in [T -> 1..n], \A t, v \in T : t # v => order[t] # order[v],
           lastId + n <= MaxRows, lastId' = lastId + n, rows' = InsertRows(u, order)
    PROVE  /\ RowInv' /\ Stored' = Stored \cup T
           /\ \A t \in T : StoredState(t)' = u[t]
           /\ \A t \in Stored \ T : StoredState(t)' = StoredState(t) /\ OldId(t)' = OldId(t)
           /\ \A t \in T : rows'[OldId(t)'].prev = OldId(t)
           /\ \A i \in DOMAIN rows : /\ i \in DOMAIN rows' /\ rows'[i].state = rows[i].state
                                     /\ rows'[i].prev = rows[i].prev
<1>. DEFINE id(t) == lastId + order[t]
<1>0. RowFacts
  BY CurrentRow
<1>1. /\ rows' = [i \in DOMAIN rows' |-> rows'[i]]
      /\ DOMAIN rows' = DOMAIN rows \cup {lastId + order[t] : t \in T}
      /\ \A t \in T : /\ id(t) \notin DOMAIN rows
                      /\ rows'[id(t)] =
                           [table |-> t, state |-> u[t], prev |-> OldId(t), current |-> TRUE]
      /\ \A i \in DOMAIN rows :
            rows'[i] = [rows[i] EXCEPT !.current = rows[i].current /\ rows[i].table \notin T]
  <2>. DEFINE new == {lastId + order[t] : t \in T}
  <2>1. DOMAIN u = T
    OBVIOUS
  <2>2. \A t \in T : id(t) > lastId /\ id(t) \notin DOMAIN rows
    BY DEF RowInv, RowTypes
  <2>3. \A t \in T : (CHOOSE v \in T : id(v) = id(t)) = t
    <3>1. \A t, v \in T : id(v) = id(t) => v = t
      BY DEF RowInv, RowTypes
    <3>. QED
      BY <3>1
  <2>. HIDE DEF new
  <2>4. rows' =
          [i \in DOMAIN rows \cup new |->
              IF i \in new
              THEN [table |-> CHOOSE v \in T : id(v) = i, state |-> u[CHOOSE v \in T : id(v) = i],
                    prev |-> OldId(CHOOSE v \in T : id(v) = i), current |-> TRUE]
              ELSE [rows[i] EXCEPT !.current = rows[i].current /\ rows[i].table \notin T]]
    BY <2>1 DEF InsertRows, OldId, new
  <2>5. \A i \in DOMAIN rows : i \notin new
    BY <2>2 DEF new
  <2>6. \A t \in T : id(t) \in new
    BY DEF new
  <2>7. DOMAIN rows' = DOMAIN rows \cup new
    BY <2>4
  <2>8. \A i \in DOMAIN rows : rows'[i] =
            [rows[i] EXCEPT !.current = rows[i].current /\ rows[i].table \notin T]
    BY <2>4, <2>5
  <2>9. ASSUME NEW t \in T
        PROVE  rows'[id(t)] =
                  [table |-> t, state |-> u[t], prev |-> OldId(t), current |-> TRUE]
    <3>1. PICK v : v = (CHOOSE x \in T : id(x) = id(t))
      OBVIOUS
    <3>2. v = t
      BY <2>3, <3>1
    <3>. HIDE DEF id
    <3>3. rows'[id(t)] =
            [table |-> v, state |-> u[v], prev |-> OldId(v), current |-> TRUE]
      BY <2>4, <2>6, <3>1
    <3>. QED
      BY <3>2, <3>3
  <2>. QED
    BY <2>2, <2>4, <2>7, <2>8, <2>9 DEF new
<1>2. /\ \A t \in T : /\ id(t) \in DOMAIN rows' /\ rows'[id(t)].table = t
                      /\ rows'[id(t)].state = u[t] /\ rows'[id(t)].prev = OldId(t)
                      /\ rows'[id(t)].current /\ id(t) \in Nat /\ id(t) > lastId
                      /\ id(t) <= lastId + n
      /\ \A t, v \in T : id(t) = id(v) => t = v
  <2>1. \A t \in T : id(t) \in Nat /\ id(t) > lastId /\ id(t) <= lastId + n
    BY DEF RowInv, RowTypes
  <2>2. \A t, v \in T : id(t) = id(v) => t = v
    BY DEF RowInv, RowTypes
  <2>3. \A t \in T : id(t) \in DOMAIN rows'
    BY <1>1
  <2>. HIDE DEF id
  <2>4. ASSUME NEW t \in T
        PROVE  /\ rows'[id(t)].table = t /\ rows'[id(t)].state = u[t]
               /\ rows'[id(t)].prev = OldId(t) /\ rows'[id(t)].current
    <3>1. rows'[id(t)] = [table |-> t, state |-> u[t], prev |-> OldId(t), current |-> TRUE]
      BY <1>1
    <3>. QED
      BY <3>1
  <2>. QED
    BY <2>1, <2>2, <2>3, <2>4
<1>3. \A i \in DOMAIN rows :
        /\ i \in DOMAIN rows' /\ rows'[i].table = rows[i].table
        /\ rows'[i].state = rows[i].state /\ rows'[i].prev = rows[i].prev
        /\ (rows'[i].current <=> rows[i].current /\ rows[i].table \notin T)
        /\ rows'[i] \in Row
        /\ \A t \in T : i # id(t)
  <2>. HIDE DEF id
  <2>. SUFFICES ASSUME NEW i \in DOMAIN rows
                PROVE  /\ i \in DOMAIN rows' /\ rows'[i].table = rows[i].table
                       /\ rows'[i].state = rows[i].state /\ rows'[i].prev = rows[i].prev
                       /\ (rows'[i].current <=> rows[i].current /\ rows[i].table \notin T)
                       /\ rows'[i] \in Row
                       /\ \A t \in T : i # id(t)
    OBVIOUS
  <2>1. rows[i] \in Row
    BY DEF RowInv, RowTypes
  <2>2. PICK c \in BOOLEAN : c = (rows[i].current /\ rows[i].table \notin T)
    BY <2>1 DEF Row
  <2>3. rows'[i] = [rows[i] EXCEPT !.current = c]
    BY <1>1, <2>2
  <2>4. /\ rows'[i].table = rows[i].table /\ rows'[i].state = rows[i].state
        /\ rows'[i].prev = rows[i].prev /\ rows'[i].current = c /\ rows'[i] \in Row
    BY <2>1, <2>3 DEF Row
  <2>. QED
    BY <1>1, <2>2, <2>4
<1>4. \A i \in DOMAIN rows' : i \in DOMAIN rows \/ \E t \in T : i = id(t)
  BY <1>1
<1>5. \A i \in DOMAIN rows : i \in 1..lastId /\ rows[i] \in Row
  BY DEF RowInv, RowTypes
<1>6. \A t \in T : OldId(t) \in Nat /\ OldId(t) <= lastId
                  /\ (OldId(t) # 0 => OldId(t) \in DOMAIN rows /\ rows[OldId(t)].table = t
                                      /\ rows[OldId(t)].current)
  BY <1>0, <1>5 DEF RowFacts, RowInv, RowTypes
<1>7. RowTypes'
  <2>1. lastId' \in 0..MaxRows
    BY DEF RowInv, RowTypes
  <2>2. \A i \in DOMAIN rows' : i \in 1..lastId'
    BY <1>2, <1>4, <1>5 DEF RowInv, RowTypes
  <2>3. \A t \in T : rows'[id(t)] \in Row
    <3>. HIDE DEF id
    <3>1. \A t \in T : OldId(t) \in 0..MaxRows /\ t \in Tables /\ u[t] \in States
      BY <1>6 DEF RowInv, RowTypes
    <3>2. \A t \in T : rows'[id(t)] =
                [table |-> t, state |-> u[t], prev |-> OldId(t), current |-> TRUE]
      BY <1>1
    <3>3. ASSUME NEW t \in T
          PROVE  [table |-> t, state |-> u[t], prev |-> OldId(t), current |-> TRUE] \in Row
      BY <3>1 DEF Row
    <3>. QED
      BY <3>2, <3>3
  <2>. QED
    BY <1>1, <1>3, <1>4, <2>1, <2>2, <2>3 DEF RowTypes
<1>. HIDE DEF id
<1>8. ChainInv'
  <2>1. \A i \in DOMAIN rows' : rows'[i].prev # 0 =>
          /\ rows'[i].prev \in DOMAIN rows' /\ rows'[i].prev < i
          /\ rows'[rows'[i].prev].table = rows'[i].table
    BY <1>2, <1>3, <1>4, <1>5, <1>6 DEF RowInv, ChainInv, RowTypes
  <2>2. \A i, j \in DOMAIN rows' :
          rows'[i].table = rows'[j].table /\ rows'[i].prev = rows'[j].prev => i = j
    <3>1. ASSUME NEW i \in DOMAIN rows, NEW t \in T
          PROVE  ~ (rows[i].table = t /\ rows[i].prev = OldId(t))
      BY <1>0, <1>6 DEF RowInv, ChainInv, RowFacts
    <3>. QED
      BY <1>2, <1>3, <1>4, <3>1 DEF RowInv, ChainInv
  <2>3. \A i \in DOMAIN rows' : rows'[i].current <=> \A j \in DOMAIN rows' : rows'[j].prev # i
    <3>1. ASSUME NEW t \in T PROVE \A j \in DOMAIN rows' : rows'[j].prev # id(t)
      BY <1>2, <1>3, <1>4, <1>5, <1>6 DEF RowInv, RowTypes, ChainInv
    <3>2. ASSUME NEW i \in DOMAIN rows, rows[i].table \in T, rows[i].current
          PROVE  rows'[id(rows[i].table)].prev = i
      BY <1>0, <1>2, <3>2 DEF RowFacts
    <3>3. ASSUME NEW i \in DOMAIN rows, rows[i].table \notin T, NEW t \in T
          PROVE  rows'[id(t)].prev # i
      BY <1>2, <1>5, <1>6, <3>3
    <3>4. ASSUME NEW i \in DOMAIN rows PROVE rows'[i].current <=> \A j \in DOMAIN rows' : rows'[j].prev # i
      <4>1. CASE rows[i].table \in T /\ rows[i].current
        BY <1>2, <1>3, <3>2, <4>1
      <4>2. CASE rows[i].table \notin T
        BY <1>3, <1>4, <3>3, <4>2 DEF RowInv, ChainInv
      <4>3. CASE ~ rows[i].current
        BY <1>3, <4>3 DEF RowInv, ChainInv
      <4>. QED
        BY <4>1, <4>2, <4>3
    <3>. QED
      BY <1>2, <1>4, <3>1, <3>4
  <2>4. \A i, j \in DOMAIN rows' :
          rows'[i].table = rows'[j].table /\ rows'[i].current /\ rows'[j].current => i = j
    BY <1>2, <1>3, <1>4 DEF RowInv, ChainInv
  <2>5. \A i \in DOMAIN rows' : \E j \in DOMAIN rows' :
          rows'[j].table = rows'[i].table /\ rows'[j].current
    BY <1>2, <1>3, <1>4 DEF RowInv, ChainInv
  <2>. QED
    BY <2>1, <2>2, <2>3, <2>4, <2>5 DEF ChainInv
<1>9. RowInv'
  BY <1>7, <1>8 DEF RowInv
<1>10. RowFacts'
  BY <1>9, CurrentRow, PTL
<1>11. Stored' = Stored \cup T
  <2>1. \A t \in Tables : t \in Stored' <=> \E i \in DOMAIN rows' : rows'[i].table = t
    BY <1>10 DEF RowFacts
  <2>2. \A t \in Tables : t \in Stored <=> \E i \in DOMAIN rows : rows[i].table = t
    BY <1>0 DEF RowFacts
  <2>3. Stored' \subseteq Tables /\ Stored \subseteq Tables
    BY DEF Stored
  <2>. QED
    BY <1>2, <1>3, <1>4, <2>1, <2>2, <2>3
<1>12. ASSUME NEW t \in T PROVE StoredState(t)' = u[t] /\ rows'[OldId(t)'].prev = OldId(t)
  <2>1. OldId(t)' = id(t) /\ t \in Stored'
    BY <1>2, <1>10 DEF RowFacts
  <2>. QED
    BY <1>2, <1>10, <2>1 DEF RowFacts
<1>13. ASSUME NEW t \in Stored \ T
       PROVE  StoredState(t)' = StoredState(t) /\ OldId(t)' = OldId(t)
  <2>0. t \in Tables
    BY DEF Stored
  <2>1. OldId(t)' = OldId(t) /\ t \in Stored'
    BY <1>0, <1>3, <1>10, <2>0 DEF RowFacts
  <2>. QED
    BY <1>0, <1>3, <1>10, <2>0, <2>1 DEF RowFacts
<1>. QED
  BY <1>3, <1>9, <1>11, <1>12, <1>13

(* Its tables have the new states. *)
LEMMA InsertEffect ==
    ASSUME RowInv, NEW T \in SUBSET Tables, NEW u \in [T -> States], NEW n \in Nat,
           NEW order \in [T -> 1..n], \A t, v \in T : t # v => order[t] # order[v],
           lastId + n <= MaxRows, lastId' = lastId + n, rows' = InsertRows(u, order)
    PROVE  /\ RowInv' /\ Stored' = Stored \cup T
           /\ \A t \in T : StoredState(t)' = u[t]
           /\ \A t \in Stored \ T : StoredState(t)' = StoredState(t)
<1>1. /\ RowInv' /\ Stored' = Stored \cup T
      /\ \A t \in T : StoredState(t)' = u[t]
      /\ \A t \in Stored \ T : StoredState(t)' = StoredState(t) /\ OldId(t)' = OldId(t)
      /\ \A t \in T : rows'[OldId(t)'].prev = OldId(t)
      /\ \A i \in DOMAIN rows : /\ i \in DOMAIN rows' /\ rows'[i].state = rows[i].state
                                /\ rows'[i].prev = rows[i].prev
  BY InsertLinks, Zenon
<1>. QED
  BY <1>1, Zenon

(* A rollback takes the end off a table's chain. *)
LEMMA RollbackEffect ==
    ASSUME RowInv, NEW t \in Tables, NEW i \in CurrentIds(t), rows[i].prev # 0,
           lastId' = lastId, rows' = RollbackRows(t)
    PROVE  /\ RowInv' /\ Stored' = Stored
           /\ i = OldId(t) /\ OldId(t)' = rows[i].prev
           /\ rows[i].prev \in DOMAIN rows /\ rows[i].prev # i
           /\ StoredState(t)' = rows[rows[i].prev].state
           /\ \A v \in Stored \ {t} : OldId(v)' = OldId(v) /\ StoredState(v)' = StoredState(v)
           /\ DOMAIN rows' = DOMAIN rows \ {i}
           /\ \A j \in DOMAIN rows' : /\ rows'[j].state = rows[j].state
                                      /\ rows'[j].prev = rows[j].prev
<1>0. RowFacts
  BY CurrentRow
<1>1. /\ i \in DOMAIN rows /\ rows[i].table = t /\ rows[i].current /\ i = OldId(t)
      /\ i = CHOOSE j \in CurrentIds(t) : TRUE
  BY <1>0 DEF CurrentIds, RowFacts, OldId
<1>2. PICK p : p = rows[i].prev
  OBVIOUS
<1>3. p \in DOMAIN rows /\ rows[p].table = t /\ p # i /\ p < i
  BY <1>1, <1>2 DEF RowInv, ChainInv, RowTypes
<1>4. rows' = [j \in DOMAIN rows \ {i} |->
                  IF j = p THEN [rows[j] EXCEPT !.current = TRUE] ELSE rows[j]]
  BY <1>1, <1>2 DEF RollbackRows
<1>5. \A j \in DOMAIN rows : j \in 1..lastId /\ rows[j] \in Row
  BY DEF RowInv, RowTypes
<1>6. DOMAIN rows' = DOMAIN rows \ {i} /\ rows' = [j \in DOMAIN rows' |-> rows'[j]]
  BY <1>4
<1>7. /\ rows'[p].table = t /\ rows'[p].state = rows[p].state /\ rows'[p].prev = rows[p].prev
      /\ rows'[p].current /\ rows'[p] \in Row
  <2>1. rows'[p] = [rows[p] EXCEPT !.current = TRUE]
    BY <1>3, <1>4
  <2>. QED
    BY <1>3, <1>5, <2>1 DEF Row
<1>8. \A j \in DOMAIN rows' : j # p => rows'[j] = rows[j]
  BY <1>4
<1>9. RowTypes'
  BY <1>5, <1>6, <1>7, <1>8 DEF RowInv, RowTypes
<1>10. \A j \in DOMAIN rows' : /\ rows'[j].table = rows[j].table /\ rows'[j].prev = rows[j].prev
                               /\ j \in DOMAIN rows
  BY <1>3, <1>6, <1>7, <1>8
<1>11. ChainInv'
  <2>1. \A j \in DOMAIN rows : rows[j].prev # i
    BY <1>1 DEF RowInv, ChainInv
  <2>2. \A j \in DOMAIN rows' : rows'[j].prev # 0 =>
          /\ rows'[j].prev \in DOMAIN rows' /\ rows'[j].prev < j
          /\ rows'[rows'[j].prev].table = rows'[j].table
    BY <1>6, <1>10, <2>1 DEF RowInv, ChainInv
  <2>3. \A j, k \in DOMAIN rows' :
          rows'[j].table = rows'[k].table /\ rows'[j].prev = rows'[k].prev => j = k
    BY <1>10 DEF RowInv, ChainInv
  <2>4. ASSUME NEW j \in DOMAIN rows'
        PROVE  rows'[j].current <=> \A k \in DOMAIN rows' : rows'[k].prev # j
    <3>1. CASE j = p
      <4>1. \A k \in DOMAIN rows : rows[k].prev = p => k = i
        BY <1>1, <1>2, <1>3, <1>5 DEF RowInv, ChainInv
      <4>. QED
        BY <1>6, <1>7, <1>10, <3>1, <4>1
    <3>2. CASE j # p
      BY <1>2, <1>6, <1>8, <1>10, <3>2 DEF RowInv, ChainInv
    <3>. QED
      BY <3>1, <3>2
  <2>5. \A j \in DOMAIN rows' : rows'[j].table = t /\ rows'[j].current => j = p
    BY <1>1, <1>6, <1>8, <1>10 DEF RowInv, ChainInv
  <2>6. \A j, k \in DOMAIN rows' :
          rows'[j].table = rows'[k].table /\ rows'[j].current /\ rows'[k].current => j = k
    BY <1>3, <1>7, <1>8, <1>10, <2>5 DEF RowInv, ChainInv
  <2>7. \A j \in DOMAIN rows' : \E k \in DOMAIN rows' :
          rows'[k].table = rows'[j].table /\ rows'[k].current
    <3>. SUFFICES ASSUME NEW j \in DOMAIN rows'
                  PROVE  \E k \in DOMAIN rows' : rows'[k].table = rows'[j].table /\ rows'[k].current
      OBVIOUS
    <3>1. CASE rows[j].table = t
      BY <1>3, <1>6, <1>7, <1>10, <3>1
    <3>2. CASE rows[j].table # t
      <4>1. PICK k \in DOMAIN rows : rows[k].table = rows[j].table /\ rows[k].current
        BY <1>10 DEF RowInv, ChainInv
      <4>2. k # i /\ k # p
        BY <1>1, <1>3, <3>2, <4>1
      <4>3. k \in DOMAIN rows' /\ rows'[k] = rows[k] /\ rows'[j].table = rows[j].table
        BY <1>6, <1>8, <1>10, <4>2
      <4>. QED
        BY <4>1, <4>3
    <3>. QED
      BY <3>1, <3>2
  <2>. QED
    BY <2>2, <2>3, <2>4, <2>6, <2>7 DEF ChainInv
<1>12. RowInv'
  BY <1>9, <1>11 DEF RowInv
<1>13. RowFacts'
  BY <1>12, CurrentRow, PTL
<1>14. \A v \in Tables : (\E j \in DOMAIN rows' : rows'[j].table = v)
                            <=> \E j \in DOMAIN rows : rows[j].table = v
  <2>. SUFFICES ASSUME NEW v \in Tables, NEW j \in DOMAIN rows, rows[j].table = v
                PROVE  \E k \in DOMAIN rows' : rows'[k].table = v
    BY <1>10
  <2>1. CASE j = i
    BY <1>1, <1>3, <1>6, <1>7, <2>1
  <2>2. CASE j # i
    BY <1>6, <1>10, <2>2
  <2>. QED
    BY <2>1, <2>2
<1>15. Stored' = Stored
  <2>1. \A v \in Tables : v \in Stored' <=> v \in Stored
    BY <1>0, <1>13, <1>14 DEF RowFacts
  <2>2. Stored \subseteq Tables /\ Stored' \subseteq Tables
    BY DEF Stored
  <2>. QED
    BY <2>1, <2>2
<1>16. OldId(t)' = p /\ StoredState(t)' = rows[p].state
  <2>1. OldId(t)' = p /\ t \in Stored'
    BY <1>3, <1>6, <1>7, <1>13 DEF RowFacts
  <2>. QED
    BY <1>7, <1>13, <2>1 DEF RowFacts
<1>17. ASSUME NEW v \in Stored \ {t}
       PROVE  OldId(v)' = OldId(v) /\ StoredState(v)' = StoredState(v)
  <2>0. v \in Tables
    BY DEF Stored
  <2>1. /\ OldId(v) \in DOMAIN rows' /\ OldId(v) # p
        /\ rows[OldId(v)].table = v /\ rows[OldId(v)].current
    BY <1>0, <1>1, <1>3, <1>6, <2>0 DEF RowFacts
  <2>2. OldId(v)' = OldId(v)
    BY <1>8, <1>13, <2>0, <2>1 DEF RowFacts
  <2>. QED
    BY <1>0, <1>8, <1>13, <1>15, <2>0, <2>1, <2>2 DEF RowFacts
<1>18. \A j \in DOMAIN rows' : rows'[j].state = rows[j].state
  BY <1>7, <1>8
<1>. QED
  BY <1>1, <1>2, <1>3, <1>6, <1>10, <1>12, <1>15, <1>16, <1>17, <1>18

(* Deleting whole tables leaves the other chains alone. *)
LEMMA DeleteEffect ==
    ASSUME RowInv, NEW T \in SUBSET Tables, lastId' = lastId, rows' = DeleteRows(T)
    PROVE  /\ RowInv' /\ Stored' = Stored \ T
           /\ DOMAIN rows' = {j \in DOMAIN rows : rows[j].table \notin T}
           /\ \A j \in DOMAIN rows' : rows'[j] = rows[j]
           /\ \A v \in Stored \ T : OldId(v)' = OldId(v) /\ StoredState(v)' = StoredState(v)
<1>0. RowFacts
  BY CurrentRow
<1>1. /\ rows' = [j \in DOMAIN rows' |-> rows'[j]]
      /\ DOMAIN rows' = {j \in DOMAIN rows : rows[j].table \notin T}
      /\ \A j \in DOMAIN rows' : rows'[j] = rows[j]
  BY DEF DeleteRows
<1>2. RowTypes'
  BY <1>1 DEF RowInv, RowTypes
<1>3. ChainInv'
  <2>1. \A j \in DOMAIN rows' : rows'[j].prev # 0 =>
          /\ rows'[j].prev \in DOMAIN rows' /\ rows'[j].prev < j
          /\ rows'[rows'[j].prev].table = rows'[j].table
    BY <1>1 DEF RowInv, ChainInv
  <2>2. \A j \in DOMAIN rows' : rows'[j].current <=> \A k \in DOMAIN rows' : rows'[k].prev # j
    <3>1. ASSUME NEW j \in DOMAIN rows', NEW k \in DOMAIN rows, rows[k].prev = j
          PROVE  k \in DOMAIN rows'
      BY <1>1, <3>1 DEF RowInv, ChainInv, RowTypes
    <3>. QED
      BY <1>1, <3>1 DEF RowInv, ChainInv
  <2>3. \A j \in DOMAIN rows' : \E k \in DOMAIN rows' :
          rows'[k].table = rows'[j].table /\ rows'[k].current
    BY <1>1 DEF RowInv, ChainInv
  <2>4. /\ \A j, k \in DOMAIN rows' :
             rows'[j].table = rows'[k].table /\ rows'[j].prev = rows'[k].prev => j = k
        /\ \A j, k \in DOMAIN rows' :
             rows'[j].table = rows'[k].table /\ rows'[j].current /\ rows'[k].current => j = k
    BY <1>1 DEF RowInv, ChainInv
  <2>. QED
    BY <2>1, <2>2, <2>3, <2>4 DEF ChainInv
<1>4. RowInv'
  BY <1>2, <1>3 DEF RowInv
<1>5. RowFacts'
  BY <1>4, CurrentRow, PTL
<1>6. Stored' = Stored \ T
  <2>1. \A v \in Tables : v \in Stored' <=> v \in Stored \ T
    BY <1>0, <1>1, <1>5 DEF RowFacts
  <2>2. Stored \subseteq Tables /\ Stored' \subseteq Tables
    BY DEF Stored
  <2>. QED
    BY <2>1, <2>2
<1>7. ASSUME NEW v \in Stored \ T
      PROVE  OldId(v)' = OldId(v) /\ StoredState(v)' = StoredState(v)
  <2>0. v \in Tables
    BY DEF Stored
  <2>1. OldId(v)' = OldId(v) /\ OldId(v) \in DOMAIN rows'
    BY <1>0, <1>1, <1>5, <2>0 DEF RowFacts
  <2>. QED
    BY <1>0, <1>1, <1>5, <1>6, <2>0, <2>1 DEF RowFacts
<1>. QED
  BY <1>1, <1>4, <1>6, <1>7

(* A replaced history is one fresh row. *)
LEMMA ReplaceEffect ==
    ASSUME RowInv, NEW T \in SUBSET Tables, T \subseteq Stored, NEW n \in Nat,
           NEW order \in [T -> 1..n], \A t, v \in T : t # v => order[t] # order[v],
           lastId + n <= MaxRows, lastId' = lastId + n, rows' = ReplaceRows(T, order)
    PROVE  /\ RowInv' /\ Stored' = Stored
           /\ \A t \in T : /\ OldId(t)' \in DOMAIN rows' /\ OldId(t)' \in Nat
                           /\ rows'[OldId(t)'].prev = 0 /\ rows'[OldId(t)'].state = InitState
           /\ \A j \in DOMAIN rows : rows[j].table \notin T =>
                 j \in DOMAIN rows' /\ rows'[j] = rows[j]
           /\ \A v \in Stored \ T : OldId(v)' = OldId(v)
<1>. DEFINE id(t) == lastId + order[t]
            new == {lastId + order[t] : t \in T}
            kept == {j \in DOMAIN rows : rows[j].table \notin T}
<1>0. RowFacts
  BY CurrentRow
<1>1. /\ \A t \in T : id(t) \in Nat /\ id(t) > lastId /\ id(t) <= lastId + n
      /\ \A t \in T : id(t) \in new
      /\ \A i \in new : \E t \in T : i = id(t)
      /\ \A t, v \in T : id(t) = id(v) => t = v
  BY DEF RowInv, RowTypes
<1>2. \A i \in DOMAIN rows : i \in 1..lastId /\ rows[i] \in Row
  BY DEF RowInv, RowTypes
<1>3. rows' = [i \in kept \cup new |->
                 IF i \in new
                 THEN [table |-> CHOOSE t \in T : id(t) = i,
                       state |-> InitState, prev |-> 0, current |-> TRUE]
                 ELSE IF i \in kept THEN rows[i] ELSE DeleteRows(T)[i]]
  BY DEF ReplaceRows, DeleteRows
<1>. HIDE DEF new, id
<1>4. DOMAIN rows' = kept \cup new /\ rows' = [i \in DOMAIN rows' |-> rows'[i]]
  BY <1>3
<1>5. \A i \in DOMAIN rows : i \notin new
  BY <1>1, <1>2 DEF RowInv, RowTypes
<1>6. \A i \in kept : i \in DOMAIN rows' /\ rows'[i] = rows[i]
  BY <1>3, <1>5
<1>7. ASSUME NEW t \in T
      PROVE  /\ id(t) \in DOMAIN rows' /\ rows'[id(t)].table = t
             /\ rows'[id(t)].prev = 0 /\ rows'[id(t)].state = InitState
             /\ rows'[id(t)].current /\ rows'[id(t)] \in Row
  <2>1. PICK v : v = CHOOSE x \in T : id(x) = id(t)
    OBVIOUS
  <2>2. v = t
    BY <1>1, <2>1
  <2>3. rows'[id(t)] = [table |-> v, state |-> InitState, prev |-> 0, current |-> TRUE]
    BY <1>1, <1>3, <2>1
  <2>4. id(t) \in DOMAIN rows'
    BY <1>1, <1>4
  <2>5. [table |-> t, state |-> InitState, prev |-> 0, current |-> TRUE] \in Row
    BY DEF Row
  <2>. QED
    BY <2>2, <2>3, <2>4, <2>5
<1>8. \A i \in DOMAIN rows' : i \in kept \/ \E t \in T : i = id(t)
  BY <1>1, <1>4
<1>9. RowTypes'
  <2>1. lastId' \in 0..MaxRows
    BY DEF RowInv, RowTypes
  <2>2. \A i \in DOMAIN rows' : i \in 1..lastId'
    BY <1>1, <1>2, <1>8 DEF RowInv, RowTypes
  <2>3. \A i \in DOMAIN rows' : rows'[i] \in Row
    BY <1>2, <1>6, <1>7, <1>8
  <2>. QED
    BY <1>4, <2>1, <2>2, <2>3 DEF RowTypes
<1>10. ChainInv'
  <2>0. \A i \in kept : /\ i \in DOMAIN rows /\ rows[i].table \notin T
                        /\ \A t \in T : i # id(t)
                        /\ \A j \in DOMAIN rows : rows[j].prev = i => j \in kept
                        /\ rows[i].prev # 0 => rows[i].prev \in kept
    <3>1. \A i \in DOMAIN rows : i # 0
      BY <1>2
    <3>. QED
      BY <1>1, <1>5, <3>1 DEF RowInv, ChainInv
  <2>1. \A j \in DOMAIN rows' : rows'[j].prev # 0 =>
          /\ rows'[j].prev \in DOMAIN rows' /\ rows'[j].prev < j
          /\ rows'[rows'[j].prev].table = rows'[j].table
    BY <1>6, <1>7, <1>8, <2>0 DEF RowInv, ChainInv
  <2>. HIDE DEF kept
  <2>2. \A j, k \in DOMAIN rows' :
          rows'[j].table = rows'[k].table /\ rows'[j].prev = rows'[k].prev => j = k
    BY <1>6, <1>7, <1>8, <2>0 DEF RowInv, ChainInv
  <2>3. \A j \in DOMAIN rows' : rows'[j].current <=> \A k \in DOMAIN rows' : rows'[k].prev # j
    <3>1. \A t \in T : \A k \in DOMAIN rows' : rows'[k].prev # id(t)
      <4>1. \A t \in T : id(t) # 0 /\ id(t) \notin DOMAIN rows
        BY <1>1, <1>2 DEF RowInv, RowTypes
      <4>. QED
        BY <1>6, <1>7, <1>8, <2>0, <4>1 DEF RowInv, ChainInv
    <3>2. ASSUME NEW j \in kept
          PROVE  rows'[j].current <=> \A k \in DOMAIN rows' : rows'[k].prev # j
      <4>1. j # 0
        BY <1>2, <2>0
      <4>. QED
        BY <1>6, <1>7, <1>8, <2>0, <4>1 DEF RowInv, ChainInv
    <3>. QED
      BY <1>7, <1>8, <3>1, <3>2
  <2>4. \A j, k \in DOMAIN rows' :
          rows'[j].table = rows'[k].table /\ rows'[j].current /\ rows'[k].current => j = k
    BY <1>6, <1>7, <1>8, <2>0 DEF RowInv, ChainInv
  <2>5. ASSUME NEW j \in DOMAIN rows'
        PROVE  \E k \in DOMAIN rows' : rows'[k].table = rows'[j].table /\ rows'[k].current
    <3>1. CASE j \in kept
      <4>1. PICK k \in DOMAIN rows : rows[k].table = rows[j].table /\ rows[k].current
        BY <2>0, <3>1 DEF RowInv, ChainInv
      <4>2. k \in kept
        BY <2>0, <3>1, <4>1 DEF kept
      <4>. QED
        BY <1>6, <3>1, <4>1, <4>2
    <3>2. CASE j \notin kept
      BY <1>7, <1>8, <3>2
    <3>. QED
      BY <3>1, <3>2
  <2>. QED
    BY <2>1, <2>2, <2>3, <2>4, <2>5 DEF ChainInv
<1>11. RowInv'
  BY <1>9, <1>10 DEF RowInv
<1>12. RowFacts'
  BY <1>11, CurrentRow, PTL
<1>13. Stored' = Stored
  <2>1. ASSUME NEW v \in Tables PROVE v \in Stored' <=> v \in Stored
    <3>1. CASE v \in T
      BY <1>7, <1>12, <3>1 DEF RowFacts
    <3>2. CASE v \notin T
      BY <1>0, <1>6, <1>7, <1>8, <1>12, <3>2 DEF RowFacts
    <3>. QED
      BY <3>1, <3>2
  <2>2. Stored \subseteq Tables /\ Stored' \subseteq Tables
    BY DEF Stored
  <2>. QED
    BY <2>1, <2>2
<1>14. ASSUME NEW t \in T PROVE OldId(t)' = id(t)
  BY <1>7, <1>12 DEF RowFacts
<1>15. ASSUME NEW v \in Stored \ T PROVE OldId(v)' = OldId(v)
  <2>0. v \in Tables
    BY DEF Stored
  <2>. QED
    BY <1>0, <1>6, <1>12, <2>0 DEF RowFacts
<1>. QED
  BY <1>1, <1>6, <1>7, <1>11, <1>13, <1>14, <1>15

-----------------------------------------------------------------------------
(* Facts about sets of snapshots.                                          *)

Bounded(S) == S \subseteq Nat /\ \E b \in Nat : \A s \in S : s <= b

(* A set of naturals that is not empty has a least element. *)
LEMMA LeastNat ==
    ASSUME NEW S, S \subseteq Nat, S # {}
    PROVE  \E m \in S : \A s \in S : m <= s
<1>1. PICK m \in S : \A s \in S : ~ (<<s, m>> \in OpToRel(<, Nat))
  BY NatLessThanWellFounded, WFMin, Zenon
<1>2. \A s \in S : ~ (s < m)
  BY <1>1 DEF OpToRel
<1>. QED
  BY <1>2

(* A bounded set that is not empty has a greatest element. *)
LEMMA Newest ==
    ASSUME NEW S, Bounded(S), S # {}
    PROVE  \E m \in S : \A s \in S : s <= m
<1>. DEFINE U == {b \in Nat : \A s \in S : s <= b}
<1>1. U \subseteq Nat /\ U # {}
  BY DEF Bounded
<1>2. PICK m \in U : \A b \in U : m <= b
  <2>. HIDE DEF U
  <2>. QED
    BY <1>1, LeastNat
<1>3. m \in S
  <2>1. SUFFICES ASSUME m \notin S PROVE FALSE
    OBVIOUS
  <2>2. \A s \in S : s \in Nat /\ s < m
    BY <1>2, <2>1 DEF Bounded
  <2>3. m \in Nat /\ m - 1 \in Nat /\ \A s \in S : s <= m - 1
    BY <1>2, <2>2
  <2>. QED
    BY <1>2, <2>3
<1>. QED
  BY <1>2, <1>3

(* A bounded set is finite. *)
LEMMA BoundedFinite ==
    ASSUME NEW S, Bounded(S)
    PROVE  IsFiniteSet(S) /\ Cardinality(S) \in Nat
<1>1. PICK b \in Nat : \A s \in S : s <= b
  BY DEF Bounded
<1>2. S \in SUBSET (0..b)
  BY <1>1 DEF Bounded
<1>3. IsFiniteSet(0..b)
  BY <1>1, FS_Interval
<1>4. IsFiniteSet(S)
  BY <1>2, <1>3, FS_Subset
<1>. QED
  BY <1>4, FS_CardinalityType

(* Inserting with eviction keeps the newest snapshot, and the bound. *)
LEMMA Evicted ==
    ASSUME NEW S, Bounded(S), NEW id \in Nat, NEW E, E = InsertWithEviction(S, id, MaxCached)
    PROVE  /\ E \subseteq S \cup {id} /\ Bounded(E)
           /\ \A s \in S \cup {id} : \E c \in E : c >= s
           /\ Cardinality(E) <= MaxCached
<1>. DEFINE all == S \cup {id}
            above(s) == {u \in all : u > s}
<1>1. E = {s \in all : Cardinality(above(s)) < MaxCached}
  BY DEF InsertWithEviction
<1>2. Bounded(all)
  <2>1. PICK b \in Nat : \A s \in S : s <= b
    BY DEF Bounded
  <2>2. PICK d \in Nat : d >= b /\ d >= id
    BY <2>1
  <2>3. all \subseteq Nat /\ \A s \in all : s <= d
    BY <2>1, <2>2 DEF Bounded
  <2>. QED
    BY <2>2, <2>3 DEF Bounded
<1>3. E \subseteq all /\ Bounded(E)
  BY <1>1, <1>2 DEF Bounded
<1>. HIDE DEF all
<1>4. PICK m \in all : \A s \in all : s <= m
  <2>1. all # {}
    BY DEF all
  <2>. QED
    BY <1>2, <2>1, Newest
<1>5. m \in E
  <2>0. \A s \in all : ~ (s > m)
    BY <1>2, <1>4 DEF Bounded
  <2>1. above(m) = {}
    BY <2>0
  <2>. HIDE DEF above
  <2>2. Cardinality(above(m)) = 0
    BY <2>1, FS_EmptySet
  <2>. QED
    BY <1>1, <1>4, <2>2
<1>6. \A s \in all : \E c \in E : c >= s
  BY <1>2, <1>4, <1>5 DEF Bounded
<1>7. Cardinality(E) <= MaxCached
  <2>1. PICK l \in E : \A s \in E : l <= s
    BY <1>3, <1>5, LeastNat DEF Bounded
  <2>2. IsFiniteSet(above(l)) /\ Cardinality(above(l)) \in Nat
    <3>1. Bounded(above(l))
      BY <1>2 DEF Bounded
    <3>. HIDE DEF above
    <3>. QED
      BY <3>1, BoundedFinite
  <2>3. E \ {l} \in SUBSET above(l)
    BY <1>2, <1>3, <2>1 DEF Bounded
  <2>. HIDE DEF above
  <2>4. Cardinality(E \ {l}) <= Cardinality(above(l))
    BY <2>2, <2>3, FS_Subset
  <2>5. Cardinality(E \ {l}) = Cardinality(E) - 1
    BY <1>3, <2>1, BoundedFinite, FS_RemoveElement
  <2>6. Cardinality(E) \in Nat
    BY <1>3, BoundedFinite
  <2>7. Cardinality(above(l)) < MaxCached
    BY <1>1, <2>1
  <2>. QED
    BY <2>2, <2>4, <2>5, <2>6, <2>7
<1>. QED
  BY <1>3, <1>6, <1>7 DEF all

(* Pruning by the active snapshot, as the cache does it, is pruning by a   *)
(* newer snapshot at or before the boundary, as the statement does it; the *)
(* newest snapshot stays.                                                  *)
LEMMA Pruned ==
    ASSUME NEW S, Bounded(S), NEW r \in Nat
    PROVE  /\ Prune(S, r) = {s \in S : ~ \E u \in S : s < u /\ u <= r}
           /\ \A s \in S : \E c \in Prune(S, r) : c >= s
<1>. DEFINE A == {s \in S : s <= r}
<1>1. CASE A = {}
  <2>1. Prune(S, r) = S
    BY <1>1 DEF Prune, GetAtOrBefore, AtOrBefore, NoSnapshot
  <2>. QED
    BY <1>1, <2>1 DEF Bounded
<1>2. CASE A # {}
  <2>1. Bounded(A)
    BY DEF Bounded
  <2>2. PICK a : a = CHOOSE m \in A : \A s \in A : s <= m
    OBVIOUS
  <2>3. a \in A /\ \A s \in A : s <= a
    <3>. HIDE DEF A
    <3>1. \E m \in A : \A s \in A : s <= m
      BY <1>2, <2>1, Newest
    <3>. QED
      BY <2>2, <3>1
  <2>4. GetAtOrBefore(S, r) = a
    BY <1>2, <2>2 DEF GetAtOrBefore, AtOrBefore
  <2>5. S \subseteq Nat
    BY DEF Bounded
  <2>6. Prune(S, r) = {s \in S : s >= a}
    <3>1. CASE a = 0
      <4>1. Prune(S, r) = S
        BY <2>4, <3>1 DEF Prune, NoSnapshot
      <4>2. \A s \in S : s >= a
        BY <2>5, <3>1
      <4>. QED
        BY <4>1, <4>2
    <3>2. CASE a # 0
      BY <2>4, <3>2 DEF Prune, NoSnapshot
    <3>. QED
      BY <3>1, <3>2
  <2>7. a \in S /\ a <= r /\ \A s \in S : s <= r => s <= a
    BY <2>3
  <2>8. \A s \in S : s >= a <=> ~ \E u \in S : s < u /\ u <= r
    <3>1. ASSUME NEW s \in S, NEW u \in S, s >= a, s < u, u <= r PROVE FALSE
      <4>1. u <= a /\ s \in Nat /\ u \in Nat /\ a \in Nat
        BY <2>5, <2>7, <3>1
      <4>. QED
        BY <3>1, <4>1
    <3>2. ASSUME NEW s \in S, ~ (s >= a) PROVE s < a
      BY <2>5, <2>7, <3>2
    <3>. QED
      BY <2>7, <3>1, <3>2
  <2>9. \A s \in S : s >= a \/ a >= s
    BY <2>5, <2>7
  <2>10. \A s \in S : s >= s
    BY <2>5
  <2>. HIDE DEF A
  <2>. QED
    BY <2>6, <2>7, <2>8, <2>9, <2>10
<1>. QED
  BY <1>1, <1>2

-----------------------------------------------------------------------------
(* The inductive invariant of the cache.                                   *)

CacheRecord ==
    [states  : [Tables -> States \cup {Absent}],
     metas   : [Tables -> Metas \cup {Absent}],
     schemas : [Tables -> SUBSET Snapshots],
     counts  : [States -> Nat]]

Entries == {"state", "meta", "schema"} \X Tables

StoreTypes ==
    /\ checkpoints \in [Workers -> Lsns \cup {Absent}]
    /\ dbMetas \in [Tables -> Metas \cup {Absent}]
    /\ dbSchemas \in [Tables -> SUBSET Snapshots]
    /\ cache \in CacheRecord
    /\ phase \in {"down", "starting", "running"}
    /\ plan \in [add : SUBSET Tables, drop : SUBSET Tables]
    /\ doubt \subseteq Entries

(* The snapshots of a table are finitely many, so there is a newest one;   *)
(* of those the cache holds a limited number.                              *)
SchemaInv ==
    \A t \in Tables :
        /\ Bounded(dbSchemas[t]) /\ Bounded(cache.schemas[t])
        /\ Cardinality(cache.schemas[t]) <= MaxCached

(* As CacheCoherent, with the tables listed from the start on. *)
CoherentInv ==
    /\ cache.counts = InitStateCounts(cache.states)
    /\ phase # "down" =>
          /\ Listed = Stored
          /\ \A t \in Tables :
                /\ <<"state", t>> \notin doubt /\ t \in Stored
                      => cache.states[t] = StoredState(t)
                /\ <<"meta", t>> \notin doubt => cache.metas[t] = dbMetas[t]

StoreInv == RowInv /\ StoreTypes /\ SchemaInv /\ CoherentInv /\ LatestSchemaCached

-----------------------------------------------------------------------------
(* Facts about the cache.                                                  *)

(* Disjoint finite sets add up. *)
LEMMA DisjointUnion ==
    ASSUME NEW S, NEW T, IsFiniteSet(S), IsFiniteSet(T), S \cap T = {}
    PROVE  /\ Cardinality(S) \in Nat /\ Cardinality(T) \in Nat
           /\ Cardinality(S \cup T) = Cardinality(S) + Cardinality(T)
<1>1. Cardinality(S) \in Nat /\ Cardinality(T) \in Nat
  BY FS_CardinalityType
<1>2. Cardinality(S \cup T) = Cardinality(S) + Cardinality(T) - Cardinality(S \cap T)
  BY FS_Union
<1>3. Cardinality(S \cap T) = 0
  BY FS_EmptySet
<1>. QED
  BY <1>1, <1>2, <1>3

(* The counts follow the states when some tables change theirs. *)
LEMMA CountsFollow ==
    ASSUME NEW c \in CacheRecord, c.counts = InitStateCounts(c.states),
           NEW T \in SUBSET Tables, NEW u \in [T -> States],
           NEW d, d = SetTableStates(c, u)
    PROVE  /\ d \in CacheRecord /\ d.counts = InitStateCounts(d.states)
           /\ d.states = [t \in Tables |-> IF t \in T THEN u[t] ELSE c.states[t]]
           /\ d.metas = c.metas /\ d.schemas = c.schemas
<1>1. DOMAIN u = T
  OBVIOUS
<1>2. PICK st : st = [t \in Tables |-> IF t \in T THEN u[t] ELSE c.states[t]]
  OBVIOUS
<1>3. PICK ct : ct = [s \in States |-> (c.counts[s] + Cardinality({t \in T : u[t] = s}))
                                         - Cardinality({t \in T : c.states[t] = s})]
  OBVIOUS
<1>4. d = [c EXCEPT !.states = st, !.counts = ct]
  BY <1>1, <1>2, <1>3 DEF SetTableStates
<1>5. /\ d.states = st /\ d.counts = ct /\ d.metas = c.metas /\ d.schemas = c.schemas
      /\ d = [states |-> st, metas |-> c.metas, schemas |-> c.schemas, counts |-> ct]
  BY <1>4 DEF CacheRecord
<1>6. st \in [Tables -> States \cup {Absent}]
  BY <1>2 DEF CacheRecord
<1>7. ASSUME NEW s \in States
      PROVE  ct[s] = Cardinality({t \in Tables : st[t] = s}) /\ ct[s] \in Nat
  <2>. DEFINE rest == {t \in Tables \ T : c.states[t] = s}
              before == {t \in T : c.states[t] = s}
              after == {t \in T : u[t] = s}
  <2>1. IsFiniteSet(rest) /\ IsFiniteSet(before) /\ IsFiniteSet(after)
    <3>1. rest \in SUBSET Tables /\ before \in SUBSET Tables /\ after \in SUBSET Tables
      OBVIOUS
    <3>. HIDE DEF rest, before, after
    <3>. QED
      BY <3>1, FS_Subset
  <2>2. {t \in Tables : c.states[t] = s} = rest \cup before /\ rest \cap before = {}
    OBVIOUS
  <2>3. {t \in Tables : st[t] = s} = rest \cup after /\ rest \cap after = {}
    BY <1>2
  <2>4. c.counts[s] = Cardinality(rest \cup before)
    BY <2>2 DEF InitStateCounts
  <2>5. ct[s] = (c.counts[s] + Cardinality(after)) - Cardinality(before)
    BY <1>3
  <2>. HIDE DEF rest, before, after
  <2>6. /\ Cardinality(rest) \in Nat /\ Cardinality(before) \in Nat
        /\ Cardinality(rest \cup before) = Cardinality(rest) + Cardinality(before)
    BY <2>1, <2>2, DisjointUnion
  <2>7. /\ Cardinality(after) \in Nat
        /\ Cardinality(rest \cup after) = Cardinality(rest) + Cardinality(after)
    BY <2>1, <2>3, DisjointUnion
  <2>8. ct[s] = Cardinality(rest \cup after)
    BY <2>4, <2>5, <2>6, <2>7
  <2>9. Cardinality(rest \cup after) \in Nat
    BY <2>6, <2>7
  <2>. QED
    BY <2>3, <2>8, <2>9
<1>8. ct = InitStateCounts(st) /\ ct \in [States -> Nat]
  BY <1>3, <1>7 DEF InitStateCounts
<1>9. d \in CacheRecord
  BY <1>5, <1>6, <1>8 DEF CacheRecord
<1>. QED
  BY <1>2, <1>5, <1>8, <1>9

(* So do they when one table leaves. *)
LEMMA CountsShrink ==
    ASSUME NEW c \in CacheRecord, c.counts = InitStateCounts(c.states),
           NEW t \in Tables, NEW d, d = RemoveTableState(c, t)
    PROVE  /\ d \in CacheRecord /\ d.counts = InitStateCounts(d.states)
           /\ d.states = [c.states EXCEPT ![t] = Absent]
           /\ d.metas = c.metas /\ d.schemas = c.schemas
<1>0. c.states \in [Tables -> States \cup {Absent}] /\ c.counts \in [States -> Nat]
  BY DEF CacheRecord
<1>1. CASE c.states[t] = Absent
  <2>1. d = c
    BY <1>1 DEF RemoveTableState
  <2>. QED
    BY <1>0, <1>1, <2>1
<1>2. CASE c.states[t] # Absent
  <2>1. PICK g \in States : g = c.states[t]
    BY <1>0, <1>2
  <2>2. PICK st : st = [c.states EXCEPT ![t] = Absent]
    OBVIOUS
  <2>3. PICK ct : ct = [c.counts EXCEPT ![g] = Minus(c.counts[g])]
    OBVIOUS
  <2>4. d = [c EXCEPT !.states = st, !.counts = ct]
    BY <1>2, <2>1, <2>2, <2>3 DEF RemoveTableState
  <2>5. /\ d.states = st /\ d.counts = ct /\ d.metas = c.metas /\ d.schemas = c.schemas
        /\ d = [states |-> st, metas |-> c.metas, schemas |-> c.schemas, counts |-> ct]
    BY <2>4 DEF CacheRecord
  <2>6. ASSUME NEW s \in States
        PROVE  ct[s] = Cardinality({v \in Tables : st[v] = s}) /\ ct[s] \in Nat
    <3>. DEFINE with == {v \in Tables : c.states[v] = s}
                without == {v \in Tables : st[v] = s}
    <3>1. IsFiniteSet(with) /\ Cardinality(with) \in Nat
      <4>1. with \in SUBSET Tables
        OBVIOUS
      <4>. HIDE DEF with
      <4>2. IsFiniteSet(with)
        BY <4>1, FS_Subset
      <4>. QED
        BY <4>2, FS_CardinalityType
    <3>2. c.counts[s] = Cardinality(with)
      BY DEF InitStateCounts
    <3>3. CASE s = g
      <4>1. without = with \ {t} /\ t \in with
        BY <1>0, <2>1, <2>2, <3>3
      <4>. HIDE DEF with, without
      <4>2. Cardinality(without) = Cardinality(with) - 1 /\ Cardinality(with) # 0
        BY <3>1, <4>1, FS_RemoveElement, FS_EmptySet
      <4>3. ct[s] = Minus(c.counts[s])
        BY <1>0, <2>3, <3>3
      <4>. QED
        BY <3>1, <3>2, <4>2, <4>3 DEF Minus, without
    <3>4. CASE s # g
      <4>1. without = with
        BY <1>0, <2>1, <2>2, <3>4
      <4>2. ct[s] = c.counts[s]
        BY <1>0, <2>3, <3>4
      <4>. QED
        BY <3>1, <3>2, <4>1, <4>2
    <3>. QED
      BY <3>3, <3>4
  <2>7. ct = InitStateCounts(st) /\ ct \in [States -> Nat]
    BY <1>0, <2>3, <2>6 DEF InitStateCounts
  <2>8. st \in [Tables -> States \cup {Absent}]
    BY <1>0, <2>2
  <2>9. d \in CacheRecord
    BY <2>5, <2>7, <2>8 DEF CacheRecord
  <2>. QED
    BY <2>2, <2>5, <2>7, <2>9
<1>. QED
  BY <1>1, <1>2

(* The cache of a process that does not run holds nothing. *)
LEMMA EmptyFacts ==
    /\ EmptyCache \in CacheRecord /\ EmptyCache.counts = InitStateCounts(EmptyCache.states)
    /\ \A t \in Tables : /\ EmptyCache.schemas[t] = {} /\ Bounded(EmptyCache.schemas[t])
                         /\ Cardinality(EmptyCache.schemas[t]) <= MaxCached
<1>1. ASSUME NEW s \in States PROVE Cardinality({t \in Tables : EmptyCache.states[t] = s}) = 0
  <2>1. {t \in Tables : EmptyCache.states[t] = s} = {}
    BY DEF EmptyCache
  <2>. QED
    BY <2>1, FS_EmptySet
<1>2. EmptyCache.counts = InitStateCounts(EmptyCache.states)
  BY <1>1 DEF EmptyCache, InitStateCounts
<1>3. \A t \in Tables : EmptyCache.schemas[t] = {}
  BY DEF EmptyCache
<1>4. Bounded({}) /\ Cardinality({}) <= MaxCached
  BY FS_EmptySet DEF Bounded
<1>5. EmptyCache \in CacheRecord
  BY DEF EmptyCache, CacheRecord
<1>. QED
  BY <1>2, <1>3, <1>4, <1>5

(* A process that ends leaves the database as it is. *)
LEMMA DownKeeps ==
    ASSUME StoreTypes, RowInv', checkpoints' \in [Workers -> Lsns \cup {Absent}],
           dbMetas' \in [Tables -> Metas \cup {Absent}],
           dbSchemas' \in [Tables -> SUBSET Snapshots],
           \A t \in Tables : Bounded(dbSchemas'[t]),
           cache' = EmptyCache, phase' = "down", plan' = NoPlan, doubt' = {}
    PROVE  StoreInv'
<1>1. StoreTypes'
  BY EmptyFacts DEF StoreTypes, NoPlan, Entries
<1>2. SchemaInv'
  BY EmptyFacts DEF SchemaInv
<1>3. CoherentInv'
  <2>1. cache'.counts = InitStateCounts(cache'.states)
    BY EmptyFacts
  <2>. QED
    BY <2>1 DEF CoherentInv, InitStateCounts
<1>4. LatestSchemaCached'
  BY DEF LatestSchemaCached
<1>. QED
  BY <1>1, <1>2, <1>3, <1>4 DEF StoreInv

(* What leaves the schemas alone. *)
LEMMA SchemasKept ==
    ASSUME StoreInv, phase # "down", cache'.schemas = cache.schemas, dbSchemas' = dbSchemas,
           \A t \in Tables : <<"schema", t>> \in doubt => <<"schema", t>> \in doubt'
    PROVE  SchemaInv' /\ LatestSchemaCached'
BY DEF StoreInv, SchemaInv, LatestSchemaCached

(* What leaves the states alone. *)
LEMMA StatesKept ==
    ASSUME StoreInv, phase # "down", rows' = rows,
           cache'.states = cache.states, cache'.counts = cache.counts,
           \A t \in Tables : <<"state", t>> \in doubt => <<"state", t>> \in doubt',
           \A t \in Tables : <<"meta", t>> \notin doubt' => cache'.metas[t] = dbMetas'[t]
    PROVE  CoherentInv'
<1>1. Stored' = Stored /\ Listed' = Listed /\ \A t \in Tables : StoredState(t)' = StoredState(t)
  BY DEF Stored, Listed, StoredState, CurrentIds
<1>2. cache'.counts = InitStateCounts(cache'.states)
  BY DEF StoreInv, CoherentInv
<1>3. (InitStateCounts(cache.states))' = InitStateCounts(cache'.states)
  BY DEF InitStateCounts
<1>. QED
  BY <1>1, <1>2, <1>3 DEF StoreInv, CoherentInv

(* A state update that reaches the cache, and one whose COMMIT is lost. *)
LEMMA UpdateKeeps ==
    ASSUME StoreInv, phase # "down", NEW T \in SUBSET Tables, NEW u \in [T -> States],
           NEW n \in Nat, NEW order \in [T -> 1..n],
           \A t, v \in T : t # v => order[t] # order[v],
           lastId + n <= MaxRows, lastId' = lastId + n, rows' = InsertRows(u, order),
           UNCHANGED <<dbMetas, dbSchemas>>,
           \/ cache' = SetTableStates(cache, u) /\ doubt \ StateOf(T) \subseteq doubt'
           \/ T \subseteq Stored /\ cache' = cache /\ doubt' = doubt \cup StateOf(T)
    PROVE  RowInv' /\ SchemaInv' /\ CoherentInv' /\ LatestSchemaCached' /\ cache' \in CacheRecord
<1>0. /\ cache \in CacheRecord /\ cache.counts = InitStateCounts(cache.states)
      /\ Listed = Stored /\ RowInv
  BY DEF StoreInv, StoreTypes, CoherentInv
<1>1. /\ RowInv' /\ Stored' = Stored \cup T
      /\ \A t \in T : StoredState(t)' = u[t]
      /\ \A t \in Stored \ T : StoredState(t)' = StoredState(t)
  BY <1>0, InsertEffect
<1>2. \A t \in Tables : /\ <<"schema", t>> \in doubt => <<"schema", t>> \in doubt'
                        /\ <<"meta", t>> \in doubt => <<"meta", t>> \in doubt'
                        /\ t \notin T /\ <<"state", t>> \in doubt => <<"state", t>> \in doubt'
  BY DEF StateOf
<1>3. CASE cache' = SetTableStates(cache, u)
  <2>1. /\ cache' \in CacheRecord /\ cache'.counts = InitStateCounts(cache'.states)
        /\ cache'.states = [t \in Tables |-> IF t \in T THEN u[t] ELSE cache.states[t]]
        /\ cache'.metas = cache.metas /\ cache'.schemas = cache.schemas
    BY <1>0, <1>3, CountsFollow
  <2>2. SchemaInv' /\ LatestSchemaCached'
    BY <1>2, <2>1, SchemasKept
  <2>3. \A t \in Tables : /\ t \in T => cache'.states[t] = u[t] /\ u[t] # Absent
                          /\ t \notin T => cache'.states[t] = cache.states[t]
    BY <2>1
  <2>4. Listed' = Stored'
    BY <1>0, <1>1, <2>3 DEF Listed, Stored
  <2>5. (InitStateCounts(cache.states))' = InitStateCounts(cache'.states)
    BY DEF InitStateCounts
  <2>6. \A t \in Tables : <<"state", t>> \notin doubt' /\ t \in Stored'
                            => cache'.states[t] = StoredState(t)'
    BY <1>1, <1>2, <2>3 DEF StoreInv, CoherentInv
  <2>7. \A t \in Tables : <<"meta", t>> \notin doubt' => cache'.metas[t] = dbMetas'[t]
    BY <1>2, <2>1 DEF StoreInv, CoherentInv
  <2>8. CoherentInv'
    BY <2>1, <2>4, <2>5, <2>6, <2>7 DEF CoherentInv
  <2>. QED
    BY <1>1, <2>1, <2>2, <2>8
<1>4. CASE T \subseteq Stored /\ cache' = cache /\ doubt' = doubt \cup StateOf(T)
  <2>1. SchemaInv' /\ LatestSchemaCached'
    BY <1>2, <1>4, SchemasKept
  <2>2. Stored' = Stored /\ Listed' = Stored'
    BY <1>0, <1>1, <1>4 DEF Listed
  <2>3. (InitStateCounts(cache.states))' = InitStateCounts(cache.states)
    BY <1>4 DEF InitStateCounts
  <2>4. \A t \in Tables : <<"state", t>> \notin doubt' => t \notin T /\ <<"state", t>> \notin doubt
    BY <1>4 DEF StateOf
  <2>5. \A t \in Tables : <<"state", t>> \notin doubt' /\ t \in Stored'
                            => cache'.states[t] = StoredState(t)'
    BY <1>1, <1>4, <2>2, <2>4 DEF StoreInv, CoherentInv
  <2>6. \A t \in Tables : <<"meta", t>> \notin doubt' => cache'.metas[t] = dbMetas'[t]
    BY <1>2, <1>4 DEF StoreInv, CoherentInv
  <2>7. CoherentInv'
    BY <1>0, <1>4, <2>2, <2>3, <2>5, <2>6 DEF CoherentInv
  <2>. QED
    BY <1>0, <1>1, <1>4, <2>1, <2>7
<1>. QED
  BY <1>3, <1>4

-----------------------------------------------------------------------------
(* Every step preserves the invariant: starting and stopping.              *)

(* An empty database and no process. *)
LEMMA InitStore == Init => StoreInv
<1>. SUFFICES ASSUME Init PROVE StoreInv
  OBVIOUS
<1>1. DOMAIN rows = {} /\ rows = [i \in DOMAIN rows |-> rows[i]]
  BY DEF Init
<1>2. RowInv
  BY <1>1 DEF Init, RowInv, RowTypes, ChainInv
<1>3. StoreTypes
  BY EmptyFacts DEF Init, StoreTypes, NoPlan, Entries
<1>4. SchemaInv
  <2>1. Bounded({})
    BY DEF Bounded
  <2>. QED
    BY <2>1, EmptyFacts DEF Init, SchemaInv
<1>5. CoherentInv
  BY EmptyFacts DEF Init, CoherentInv
<1>6. LatestSchemaCached
  BY DEF Init, LatestSchemaCached
<1>. QED
  BY <1>2, <1>3, <1>4, <1>5, <1>6 DEF StoreInv

(* What a start loads is what is stored, with the newest schemas. *)
LEMMA LoadKeeps ==
    ASSUME StoreInv, NEW P \in SUBSET Tables, Load(P)
    PROVE  StoreInv'
<1>0. /\ RowInv /\ RowFacts /\ StoreTypes /\ SchemaInv
      /\ UNCHANGED <<rows, lastId, checkpoints, dbMetas, dbSchemas>>
      /\ phase' = "starting" /\ doubt' = {}
      /\ plan' = [add |-> P \ Stored, drop |-> Stored \ P]
  BY CurrentRow DEF StoreInv, Load, dbVars
<1>1. RowInv'
  BY <1>0 DEF RowInv, RowTypes, ChainInv
<1>2. Stored' = Stored /\ \A t \in Tables : StoredState(t)' = StoredState(t)
  BY <1>0 DEF Stored, StoredState, CurrentIds
<1>3. PICK st : st = LoadedStates
  OBVIOUS
<1>4. /\ st \in [Tables -> States \cup {Absent}]
      /\ \A t \in Tables : /\ t \in Stored => st[t] = StoredState(t) /\ st[t] # Absent
                           /\ t \notin Stored => st[t] = Absent
  BY <1>0, <1>3 DEF LoadedStates, RowFacts
<1>5. PICK ct : ct = InitStateCounts(st)
  OBVIOUS
<1>6. ct \in [States -> Nat]
  <2>1. ASSUME NEW s \in States PROVE Cardinality({t \in Tables : st[t] = s}) \in Nat
    <3>1. {t \in Tables : st[t] = s} \in SUBSET Tables
      OBVIOUS
    <3>2. IsFiniteSet({t \in Tables : st[t] = s})
      BY <3>1, FS_Subset
    <3>. QED
      BY <3>2, FS_CardinalityType
  <2>. QED
    BY <1>5, <2>1 DEF InitStateCounts
<1>7. PICK sc : sc = LatestSchemas
  OBVIOUS
<1>8. ASSUME NEW t \in Tables
      PROVE  /\ sc[t] \subseteq dbSchemas[t] /\ Bounded(sc[t]) /\ Cardinality(sc[t]) <= MaxCached
             /\ \A s \in dbSchemas[t] : \E c \in sc[t] : c >= s
  <2>1. sc[t] = {s \in dbSchemas[t] : \A u \in dbSchemas[t] : u <= s}
    BY <1>7 DEF LatestSchemas
  <2>2. Bounded(dbSchemas[t])
    BY <1>0 DEF SchemaInv
  <2>3. sc[t] \subseteq dbSchemas[t] /\ Bounded(sc[t])
    BY <2>1, <2>2 DEF Bounded
  <2>4. CASE dbSchemas[t] = {}
    <3>1. sc[t] = {}
      BY <2>1, <2>4
    <3>. QED
      BY <2>3, <2>4, <3>1, FS_EmptySet
  <2>5. CASE dbSchemas[t] # {}
    <3>1. PICK m \in dbSchemas[t] : \A s \in dbSchemas[t] : s <= m
      BY <2>2, <2>5, Newest
    <3>2. sc[t] = {m}
      BY <2>1, <2>2, <3>1 DEF Bounded
    <3>3. Cardinality(sc[t]) <= MaxCached
      BY <3>2, FS_Singleton
    <3>4. \A s \in dbSchemas[t] : m >= s
      BY <2>2, <3>1 DEF Bounded
    <3>. QED
      BY <2>3, <3>2, <3>3, <3>4
  <2>. QED
    BY <2>4, <2>5
<1>9. sc \in [Tables -> SUBSET Snapshots]
  <2>1. \A t \in Tables : sc[t] \in SUBSET Snapshots
    BY <1>0, <1>8 DEF StoreTypes
  <2>. QED
    BY <1>7, <2>1 DEF LatestSchemas
<1>10. cache' = [states |-> st, metas |-> dbMetas, schemas |-> sc, counts |-> ct]
  BY <1>3, <1>5, <1>7 DEF Load
<1>11. StoreTypes'
  <2>1. cache' \in CacheRecord
    BY <1>0, <1>4, <1>6, <1>9, <1>10 DEF CacheRecord, StoreTypes
  <2>2. plan' \in [add : SUBSET Tables, drop : SUBSET Tables]
    BY <1>0 DEF Stored
  <2>. QED
    BY <1>0, <2>1, <2>2 DEF StoreTypes
<1>12. SchemaInv' /\ LatestSchemaCached'
  BY <1>0, <1>8, <1>10 DEF SchemaInv, LatestSchemaCached
<1>13. CoherentInv'
  <2>1. cache'.states = st /\ cache'.counts = InitStateCounts(st) /\ cache'.metas = dbMetas
    BY <1>5, <1>10
  <2>2. Listed' = Stored'
    BY <1>2, <1>4, <2>1 DEF Listed, Stored
  <2>3. (InitStateCounts(cache.states))' = InitStateCounts(st)
    BY <2>1 DEF InitStateCounts
  <2>. QED
    BY <1>0, <1>2, <1>4, <2>1, <2>2, <2>3 DEF CoherentInv
<1>. QED
  BY <1>1, <1>11, <1>12, <1>13 DEF StoreInv

(* A table that is new to the publication. *)
LEMMA InitializeKeeps ==
    ASSUME StoreInv, NEW t \in Tables, InitializeTable(t)
    PROVE  StoreInv'
<1>. DEFINE u == [x \in {t} |-> InitState]
            order == [x \in {t} |-> 1]
<1>0. /\ phase = "starting" /\ lastId < MaxRows /\ rows' = InsertRows(u, order)
      /\ lastId' = lastId + 1 /\ StartStep(SetTableState(cache, t, InitState))
      /\ plan' = IF phase' = "down" THEN NoPlan ELSE [plan EXCEPT !.add = plan.add \ {t}]
      /\ UNCHANGED <<checkpoints, dbMetas, dbSchemas>>
  BY DEF InitializeTable
<1>1. SetTableState(cache, t, InitState) = SetTableStates(cache, u)
  BY DEF SetTableState
<1>a. PICK T \in SUBSET Tables : T = {t}
  OBVIOUS
<1>b. PICK v \in [T -> States] : v = u
  BY <1>a
<1>c. PICK o \in [T -> 1..1] : o = order
  <2>1. 1 \in 1..1
    OBVIOUS
  <2>2. order \in [T -> 1..1]
    BY <1>a, <2>1
  <2>. HIDE DEF order
  <2>. QED
    BY <2>2
<1>2. T = {t} /\ v = u /\ o = order
  BY <1>a, <1>b, <1>c
<1>3. /\ \A x, y \in T : x # y => o[x] # o[y]
      /\ RowInv /\ lastId \in Nat /\ MaxRows \in Nat /\ lastId + 1 <= MaxRows
  BY <1>0, <1>2 DEF StoreInv, RowInv, RowTypes
<1>. HIDE DEF u, order
<1>4. RowInv'
  BY <1>0, <1>2, <1>3, InsertEffect
<1>5. CASE cache' = SetTableStates(cache, v) /\ UNCHANGED <<phase, doubt>>
  <2>1. SchemaInv' /\ CoherentInv' /\ LatestSchemaCached' /\ cache' \in CacheRecord
    BY <1>0, <1>2, <1>3, <1>5, UpdateKeeps
  <2>2. plan' \in [add : SUBSET Tables, drop : SUBSET Tables]
    BY <1>0, <1>5 DEF StoreInv, StoreTypes
  <2>3. StoreTypes'
    BY <1>0, <1>5, <2>1, <2>2 DEF StoreInv, StoreTypes
  <2>. QED
    BY <1>4, <2>1, <2>3 DEF StoreInv
<1>6. CASE cache' = EmptyCache /\ phase' = "down" /\ doubt' = {}
  <2>1. plan' = NoPlan
    BY <1>0, <1>6
  <2>. QED
    BY <1>0, <1>4, <1>6, <2>1, DownKeeps DEF StoreInv, StoreTypes, SchemaInv
<1>. QED
  BY <1>0, <1>1, <1>2, <1>5, <1>6 DEF StartStep

(* A table that left the publication. *)
LEMMA DeleteKeeps ==
    ASSUME StoreInv, NEW t \in Tables, DeleteTableState(t)
    PROVE  StoreInv'
<1>. USE DEF StoreInv
<1>0. /\ phase = "starting" /\ rows' = DeleteRows({t}) /\ lastId' = lastId
      /\ dbMetas' = [dbMetas EXCEPT ![t] = Absent]
      /\ dbSchemas' = [dbSchemas EXCEPT ![t] = {}]
      /\ checkpoints' = [checkpoints EXCEPT ![t] = Absent]
      /\ StartStep(Forget(RemoveTableState(cache, t), t))
      /\ plan' = IF phase' = "down" THEN NoPlan ELSE [plan EXCEPT !.drop = plan.drop \ {t}]
  BY DEF DeleteTableState, WithoutMetadata, WithoutSchemas, WithoutCheckpoint
<1>1. /\ RowInv' /\ Stored' = Stored \ {t}
      /\ \A v \in Stored \ {t} : StoredState(v)' = StoredState(v)
  <2>1. PICK T \in SUBSET Tables : T = {t}
    OBVIOUS
  <2>2. rows' = DeleteRows(T)
    BY <1>0, <2>1
  <2>. QED
    BY <1>0, <2>1, <2>2, DeleteEffect
<1>2. /\ checkpoints' \in [Workers -> Lsns \cup {Absent}]
      /\ dbMetas' \in [Tables -> Metas \cup {Absent}]
      /\ dbSchemas' \in [Tables -> SUBSET Snapshots]
      /\ dbMetas'[t] = Absent /\ dbSchemas'[t] = {}
      /\ \A v \in Tables \ {t} : dbMetas'[v] = dbMetas[v] /\ dbSchemas'[v] = dbSchemas[v]
  BY <1>0 DEF StoreTypes
<1>3. Bounded({}) /\ Cardinality({}) <= MaxCached
  BY FS_EmptySet DEF Bounded
<1>4. \A v \in Tables : Bounded(dbSchemas'[v])
  BY <1>2, <1>3 DEF SchemaInv
<1>5. CASE cache' = Forget(RemoveTableState(cache, t), t) /\ UNCHANGED <<phase, doubt>>
  <2>1. PICK d : d = RemoveTableState(cache, t)
    OBVIOUS
  <2>2. /\ d \in CacheRecord /\ d.counts = InitStateCounts(d.states)
        /\ d.states = [cache.states EXCEPT ![t] = Absent]
        /\ d.metas = cache.metas /\ d.schemas = cache.schemas
    <3>1. cache \in CacheRecord /\ cache.counts = InitStateCounts(cache.states)
      BY DEF StoreTypes, CoherentInv
    <3>. QED
      BY <2>1, <3>1, CountsShrink, Zenon
  <2>3. cache' = [d EXCEPT !.schemas[t] = {}, !.metas[t] = Absent]
    BY <1>5, <2>1 DEF Forget
  <2>4. /\ cache' \in CacheRecord
        /\ cache'.states = d.states /\ cache'.counts = d.counts
        /\ cache'.schemas = [d.schemas EXCEPT ![t] = {}]
        /\ cache'.metas = [d.metas EXCEPT ![t] = Absent]
    BY <2>2, <2>3 DEF CacheRecord
  <2>5. /\ cache'.states[t] = Absent /\ cache'.schemas[t] = {} /\ cache'.metas[t] = Absent
        /\ \A v \in Tables \ {t} : /\ cache'.states[v] = cache.states[v]
                                   /\ cache'.schemas[v] = cache.schemas[v]
                                   /\ cache'.metas[v] = cache.metas[v]
    BY <2>2, <2>4 DEF StoreTypes, CacheRecord
  <2>6. StoreTypes'
    <3>1. plan' \in [add : SUBSET Tables, drop : SUBSET Tables]
      BY <1>0, <1>5 DEF StoreTypes
    <3>. QED
      BY <1>2, <1>5, <2>4, <3>1 DEF StoreTypes
  <2>7. SchemaInv' /\ LatestSchemaCached'
    BY <1>0, <1>2, <1>3, <1>4, <1>5, <2>5 DEF SchemaInv, LatestSchemaCached
  <2>8. CoherentInv'
    <3>1. Listed' = Stored'
      BY <1>0, <1>1, <2>5 DEF CoherentInv, Listed, Stored
    <3>2. (InitStateCounts(cache.states))' = InitStateCounts(d.states)
      BY <2>4 DEF InitStateCounts
    <3>3. \A v \in Tables : <<"state", v>> \notin doubt' /\ v \in Stored'
                              => cache'.states[v] = StoredState(v)'
      BY <1>0, <1>1, <1>5, <2>5 DEF CoherentInv
    <3>4. \A v \in Tables : <<"meta", v>> \notin doubt' => cache'.metas[v] = dbMetas'[v]
      BY <1>0, <1>2, <1>5, <2>5 DEF CoherentInv
    <3>. QED
      BY <2>2, <2>4, <3>1, <3>2, <3>3, <3>4 DEF CoherentInv
  <2>. QED
    BY <1>1, <2>6, <2>7, <2>8
<1>6. CASE cache' = EmptyCache /\ phase' = "down" /\ doubt' = {}
  <2>1. plan' = NoPlan
    BY <1>0, <1>6
  <2>2. StoreTypes
    OBVIOUS
  <2>. QED
    BY <1>1, <1>2, <1>4, <1>6, <2>1, <2>2, DownKeeps
<1>. QED
  BY <1>0, <1>5, <1>6 DEF StartStep

-----------------------------------------------------------------------------
(* Every step preserves the invariant: the operations of the workers.      *)

(* Numbering the updates of one call. *)
LEMMA OrderFacts ==
    ASSUME NEW T \in SUBSET Tables, NEW order \in Orders(T)
    PROVE  /\ Cardinality(T) \in Nat /\ order \in [T -> 1..Cardinality(T)]
           /\ \A t, v \in T : t # v => order[t] # order[v]
<1>1. IsFiniteSet(T)
  BY FS_Subset
<1>. QED
  BY <1>1, FS_CardinalityType DEF Orders

(* An update of several tables, or of all of them. *)
LEMMA UpdateTypes ==
    ASSUME StoreInv, phase = "running", NEW T \in SUBSET Tables, T \subseteq Listed,
           NEW u \in [T -> States], NEW order \in Orders(T),
           lastId + Cardinality(T) <= MaxRows, lastId' = lastId + Cardinality(T),
           rows' = InsertRows(u, order),
           Finish(SetTableStates(cache, u), StateOf(T)),
           UNCHANGED <<phase, plan, dbMetas, dbSchemas>>,
           checkpoints' \in [Workers -> Lsns \cup {Absent}]
    PROVE  StoreInv'
<1>1. PICK n : n = Cardinality(T)
  OBVIOUS
<1>2. /\ n \in Nat /\ order \in [T -> 1..n] /\ \A t, v \in T : t # v => order[t] # order[v]
      /\ lastId + n <= MaxRows /\ lastId' = lastId + n
  BY <1>1, OrderFacts
<1>3. T \subseteq Stored /\ phase # "down"
  BY DEF StoreInv, CoherentInv
<1>4. \/ cache' = SetTableStates(cache, u) /\ doubt \ StateOf(T) \subseteq doubt'
      \/ T \subseteq Stored /\ cache' = cache /\ doubt' = doubt \cup StateOf(T)
  BY <1>3 DEF Finish
<1>5. RowInv' /\ SchemaInv' /\ CoherentInv' /\ LatestSchemaCached' /\ cache' \in CacheRecord
  BY <1>2, <1>3, <1>4, UpdateKeeps
<1>6. doubt' \subseteq Entries
  BY DEF Finish, StoreInv, StoreTypes, Entries, StateOf
<1>7. StoreTypes'
  BY <1>5, <1>6 DEF StoreInv, StoreTypes
<1>. QED
  BY <1>5, <1>7 DEF StoreInv

(* A rollback. *)
LEMMA RollbackKeeps ==
    ASSUME StoreInv, NEW t \in Tables, RollbackTableState(t)
    PROVE  StoreInv'
<1>. USE DEF StoreInv
<1>0. /\ phase = "running"
      /\ UNCHANGED <<phase, plan, lastId, checkpoints, dbMetas, dbSchemas>>
      /\ cache \in CacheRecord /\ cache.counts = InitStateCounts(cache.states)
      /\ Listed = Stored /\ RowInv
  BY DEF RollbackTableState, Running, StoreTypes, CoherentInv
<1>1. PICK i \in CurrentIds(t) :
          /\ rows[i].prev # 0 /\ rows' = RollbackRows(t)
          /\ Finish(SetTableState(cache, t, rows[rows[i].prev].state), StateOf({t}))
  BY DEF RollbackTableState
<1>2. /\ RowInv' /\ Stored' = Stored /\ rows[i].prev \in DOMAIN rows
      /\ StoredState(t)' = rows[rows[i].prev].state
      /\ \A v \in Stored \ {t} : StoredState(v)' = StoredState(v)
  BY <1>0, <1>1, RollbackEffect
<1>3. PICK s \in States : s = rows[rows[i].prev].state
  BY <1>0, <1>2 DEF RowInv, RowTypes, Row
<1>a. t \in Stored
  BY <1>1 DEF Stored
<1>4. PICK T \in SUBSET Tables : T = {t}
  OBVIOUS
<1>5. PICK u \in [T -> States] : u = [x \in {t} |-> s]
  BY <1>4
<1>6. PICK d : d = SetTableStates(cache, u)
  OBVIOUS
<1>7. d = SetTableState(cache, t, rows[rows[i].prev].state)
  BY <1>3, <1>5, <1>6 DEF SetTableState
<1>8. /\ d \in CacheRecord /\ d.counts = InitStateCounts(d.states)
      /\ d.states = [x \in Tables |-> IF x \in T THEN u[x] ELSE cache.states[x]]
      /\ d.metas = cache.metas /\ d.schemas = cache.schemas
  BY <1>0, <1>6, CountsFollow
<1>9. d.states[t] = s /\ s # Absent /\ \A v \in Tables \ {t} : d.states[v] = cache.states[v]
  BY <1>4, <1>5, <1>8
<1>10. \/ cache' = d /\ doubt' = doubt \ StateOf({t})
       \/ cache' = cache /\ doubt' = doubt \cup StateOf({t})
  BY <1>1, <1>7 DEF Finish
<1>11. /\ cache' \in CacheRecord /\ cache'.metas = cache.metas /\ cache'.schemas = cache.schemas
       /\ cache'.counts = InitStateCounts(cache'.states)
       /\ \A v \in Tables \ {t} : cache'.states[v] = cache.states[v]
       /\ cache'.states[t] # Absent
       /\ <<"state", t>> \notin doubt' => cache'.states[t] = s
  BY <1>0, <1>8, <1>9, <1>10, <1>a DEF StateOf, Listed
<1>12. \A v \in Tables : /\ <<"schema", v>> \in doubt => <<"schema", v>> \in doubt'
                         /\ <<"meta", v>> \in doubt => <<"meta", v>> \in doubt'
                         /\ v # t /\ <<"state", v>> \in doubt => <<"state", v>> \in doubt'
  BY <1>10 DEF StateOf
<1>13. SchemaInv' /\ LatestSchemaCached'
  BY <1>0, <1>11, <1>12, SchemasKept
<1>14. CoherentInv'
  <2>1. Listed' = Stored'
    BY <1>0, <1>2, <1>11, <1>a DEF Listed, Stored
  <2>2. (InitStateCounts(cache.states))' = InitStateCounts(cache'.states)
    BY DEF InitStateCounts
  <2>3. \A v \in Tables : <<"state", v>> \notin doubt' /\ v \in Stored'
                            => cache'.states[v] = StoredState(v)'
    BY <1>0, <1>2, <1>3, <1>11, <1>12 DEF CoherentInv
  <2>4. \A v \in Tables : <<"meta", v>> \notin doubt' => cache'.metas[v] = dbMetas'[v]
    BY <1>0, <1>11, <1>12 DEF CoherentInv
  <2>. QED
    BY <1>11, <2>1, <2>2, <2>3, <2>4 DEF CoherentInv
<1>15. doubt' \subseteq Entries
  BY <1>10 DEF StoreTypes, Entries, StateOf
<1>16. StoreTypes'
  BY <1>0, <1>11, <1>15 DEF StoreTypes
<1>. QED
  BY <1>2, <1>13, <1>14, <1>16

(* What touches neither the rows nor the states. *)
LEMMA OtherKeeps ==
    ASSUME StoreInv, phase # "down", UNCHANGED <<rows, lastId>>,
           cache' \in CacheRecord, cache'.states = cache.states, cache'.counts = cache.counts,
           StoreTypes', SchemaInv', LatestSchemaCached',
           \A t \in Tables : <<"state", t>> \in doubt => <<"state", t>> \in doubt',
           \A t \in Tables : <<"meta", t>> \notin doubt' => cache'.metas[t] = dbMetas'[t]
    PROVE  StoreInv'
<1>1. RowInv'
  BY DEF StoreInv, RowInv, RowTypes, ChainInv
<1>2. CoherentInv'
  BY StatesKept
<1>. QED
  BY <1>1, <1>2 DEF StoreInv

(* Storing metadata. *)
LEMMA MetadataKeeps ==
    ASSUME StoreInv, NEW t \in Tables, NEW meta \in Metas, StoreMetadata(t, meta)
    PROVE  StoreInv'
<1>. USE DEF StoreInv
<1>0. /\ phase = "running" /\ UNCHANGED <<phase, plan, rows, lastId, checkpoints, dbSchemas>>
      /\ dbMetas' = [dbMetas EXCEPT ![t] = meta]
      /\ \/ cache' = [cache EXCEPT !.metas[t] = meta] /\ doubt' = doubt \ MetaOf(t)
         \/ cache' = cache /\ doubt' = doubt \cup MetaOf(t)
  BY DEF StoreMetadata, Running, WithMetadata, Finish
<1>1. cache \in CacheRecord
  BY DEF StoreTypes
<1>2. /\ cache' \in CacheRecord /\ cache'.states = cache.states /\ cache'.counts = cache.counts
      /\ cache'.schemas = cache.schemas
      /\ \A v \in Tables \ {t} : cache'.metas[v] = cache.metas[v]
      /\ <<"meta", t>> \notin doubt' => cache'.metas[t] = meta
  BY <1>0, <1>1 DEF CacheRecord, MetaOf
<1>3. \A v \in Tables : /\ <<"schema", v>> \in doubt => <<"schema", v>> \in doubt'
                        /\ <<"state", v>> \in doubt => <<"state", v>> \in doubt'
                        /\ v # t /\ <<"meta", v>> \in doubt => <<"meta", v>> \in doubt'
  BY <1>0 DEF MetaOf
<1>4. SchemaInv' /\ LatestSchemaCached'
  BY <1>0, <1>2, <1>3, SchemasKept
<1>5. StoreTypes'
  <2>1. doubt' \subseteq Entries
    BY <1>0 DEF StoreTypes, Entries, MetaOf
  <2>2. dbMetas' \in [Tables -> Metas \cup {Absent}]
    BY <1>0 DEF StoreTypes
  <2>. QED
    BY <1>0, <1>2, <2>1, <2>2 DEF StoreTypes
<1>6. \A v \in Tables : <<"meta", v>> \notin doubt' => cache'.metas[v] = dbMetas'[v]
  BY <1>0, <1>2, <1>3 DEF CoherentInv, StoreTypes
<1>. QED
  BY <1>0, <1>2, <1>3, <1>4, <1>5, <1>6, OtherKeeps

(* Storing a schema. *)
LEMMA SchemaKeeps ==
    ASSUME StoreInv, NEW t \in Tables, NEW s \in Snapshots, StoreSchema(t, s)
    PROVE  StoreInv'
<1>. USE DEF StoreInv
<1>0. /\ phase = "running" /\ UNCHANGED <<phase, plan, rows, lastId, checkpoints, dbMetas>>
      /\ dbSchemas' = [dbSchemas EXCEPT ![t] = dbSchemas[t] \cup {s}]
  BY DEF StoreSchema, Running, WithSchema
<1>1. cache \in CacheRecord /\ cache.schemas[t] \in SUBSET Snapshots
  BY DEF StoreTypes, CacheRecord
<1>2. PICK E : E = InsertWithEviction(cache.schemas[t], s, MaxCached)
  OBVIOUS
<1>3. /\ E \subseteq cache.schemas[t] \cup {s} /\ Bounded(E) /\ Cardinality(E) <= MaxCached
      /\ \A x \in cache.schemas[t] \cup {s} : \E c \in E : c >= x
  BY <1>2, Evicted DEF SchemaInv
<1>4. \/ cache' = [cache EXCEPT !.schemas[t] = E] /\ doubt' = doubt
      \/ cache' = cache /\ doubt' = doubt \cup SchemaOf(t)
  BY <1>2 DEF StoreSchema
<1>5. /\ cache' \in CacheRecord /\ cache'.states = cache.states /\ cache'.counts = cache.counts
      /\ cache'.metas = cache.metas
      /\ \A v \in Tables \ {t} : cache'.schemas[v] = cache.schemas[v]
      /\ \/ cache'.schemas[t] = E /\ doubt' = doubt
         \/ cache'.schemas[t] = cache.schemas[t] /\ doubt' = doubt \cup SchemaOf(t)
  <2>1. E \in SUBSET Snapshots
    BY <1>1, <1>3
  <2>2. CASE cache' = [cache EXCEPT !.schemas[t] = E] /\ doubt' = doubt
    BY <1>1, <2>1, <2>2 DEF CacheRecord
  <2>3. CASE cache' = cache /\ doubt' = doubt \cup SchemaOf(t)
    BY <1>1, <2>3
  <2>. QED
    BY <1>4, <2>2, <2>3
<1>6. /\ \A v \in Tables : /\ <<"state", v>> \in doubt => <<"state", v>> \in doubt'
                           /\ <<"schema", v>> \in doubt => <<"schema", v>> \in doubt'
                           /\ <<"meta", v>> \in doubt => <<"meta", v>> \in doubt'
      /\ <<"schema", t>> \notin doubt' => cache'.schemas[t] = E
  BY <1>5 DEF SchemaOf
<1>7. /\ dbSchemas'[t] = dbSchemas[t] \cup {s}
      /\ \A v \in Tables \ {t} : dbSchemas'[v] = dbSchemas[v]
      /\ dbSchemas' \in [Tables -> SUBSET Snapshots]
  BY <1>0 DEF StoreTypes
<1>8. SchemaInv'
  <2>1. PICK b \in Nat : \A x \in dbSchemas[t] : x <= b
    BY DEF SchemaInv, Bounded
  <2>2. PICK d \in Nat : d >= b /\ d >= s
    BY <2>1
  <2>3. dbSchemas'[t] \subseteq Nat /\ \A x \in dbSchemas'[t] : x <= d
    BY <1>7, <2>1, <2>2 DEF SchemaInv, Bounded
  <2>4. Bounded(dbSchemas'[t])
    BY <2>2, <2>3 DEF Bounded
  <2>. QED
    BY <1>3, <1>5, <1>7, <2>4 DEF SchemaInv
<1>9. LatestSchemaCached'
  <2>1. SUFFICES ASSUME NEW v \in Tables, <<"schema", v>> \notin doubt', NEW x \in dbSchemas'[v]
                 PROVE  \E c \in cache'.schemas[v] : c >= x
    BY DEF LatestSchemaCached
  <2>2. CASE v # t
    BY <1>0, <1>5, <1>6, <1>7, <2>1, <2>2 DEF LatestSchemaCached
  <2>3. CASE v = t
    <3>1. cache'.schemas[t] = E /\ <<"schema", t>> \notin doubt
      BY <1>6, <2>1, <2>3
    <3>2. CASE x = s
      BY <1>3, <2>3, <3>1, <3>2
    <3>3. CASE x \in dbSchemas[t]
      <4>1. PICK y \in cache.schemas[t] : y >= x
        BY <1>0, <3>1, <3>3 DEF LatestSchemaCached
      <4>2. PICK c \in E : c >= y
        BY <1>3, <4>1
      <4>3. c \in Nat /\ y \in Nat /\ x \in Nat
        BY <1>3, <3>3, <4>1, <4>2 DEF SchemaInv, Bounded
      <4>. QED
        BY <2>3, <3>1, <4>1, <4>2, <4>3
    <3>. QED
      BY <1>7, <2>1, <2>3, <3>2, <3>3
  <2>. QED
    BY <2>2, <2>3
<1>10. StoreTypes'
  <2>1. doubt' \subseteq Entries
    BY <1>5 DEF StoreTypes, Entries, SchemaOf
  <2>. QED
    BY <1>0, <1>5, <1>7, <2>1 DEF StoreTypes
<1>11. \A v \in Tables : <<"meta", v>> \notin doubt' => cache'.metas[v] = dbMetas'[v]
  BY <1>0, <1>5, <1>6 DEF CoherentInv
<1>. QED
  BY <1>0, <1>5, <1>6, <1>8, <1>9, <1>10, <1>11, OtherKeeps

(* A lookup that caches what it loads. *)
LEMMA LookupKeeps ==
    ASSUME StoreInv, NEW t \in Tables, NEW id \in Snapshots, GetTableSchema(t, id)
    PROVE  StoreInv'
<1>. USE DEF StoreInv
<1>0. /\ phase = "running" /\ AtOrBefore(cache.schemas[t], id) = {}
      /\ LookupSchema(t, id) # NoSnapshot
      /\ UNCHANGED <<phase, plan, rows, lastId, checkpoints, dbMetas, dbSchemas, doubt>>
  BY DEF GetTableSchema, Running, dbVars
<1>1. PICK s : s = LookupSchema(t, id)
  OBVIOUS
<1>2. s \in Snapshots
  <2>. DEFINE A == AtOrBefore(dbSchemas[t], id)
  <2>1. A # {} /\ s = CHOOSE x \in A : \A y \in A : y <= x
    BY <1>0, <1>1 DEF LookupSchema, SchemaAtSnapshot, GetAtOrBefore
  <2>2. A \subseteq dbSchemas[t] /\ Bounded(A)
    BY DEF AtOrBefore, SchemaInv, Bounded
  <2>. HIDE DEF A
  <2>3. \E x \in A : \A y \in A : y <= x
    BY <2>1, <2>2, Newest
  <2>4. s \in A
    BY <2>1, <2>3
  <2>. QED
    BY <2>2, <2>4 DEF StoreTypes
<1>3. cache \in CacheRecord /\ cache.schemas[t] \in SUBSET Snapshots
  BY DEF StoreTypes, CacheRecord
<1>4. PICK E : E = InsertWithEviction(cache.schemas[t], s, MaxCached)
  OBVIOUS
<1>5. /\ E \subseteq cache.schemas[t] \cup {s} /\ Bounded(E) /\ Cardinality(E) <= MaxCached
      /\ \A x \in cache.schemas[t] \cup {s} : \E c \in E : c >= x
  BY <1>2, <1>4, Evicted DEF SchemaInv
<1>6. cache' = [cache EXCEPT !.schemas[t] = E]
  BY <1>1, <1>4 DEF GetTableSchema
<1>7. /\ cache' \in CacheRecord /\ cache'.states = cache.states /\ cache'.counts = cache.counts
      /\ cache'.metas = cache.metas /\ cache'.schemas[t] = E
      /\ \A v \in Tables \ {t} : cache'.schemas[v] = cache.schemas[v]
  <2>1. E \in SUBSET Snapshots
    BY <1>2, <1>3, <1>5
  <2>. QED
    BY <1>3, <1>6, <2>1 DEF CacheRecord
<1>8. SchemaInv'
  BY <1>0, <1>5, <1>7 DEF SchemaInv
<1>9. LatestSchemaCached'
  <2>1. SUFFICES ASSUME NEW v \in Tables, <<"schema", v>> \notin doubt', NEW x \in dbSchemas'[v]
                 PROVE  \E c \in cache'.schemas[v] : c >= x
    BY DEF LatestSchemaCached
  <2>2. PICK y \in cache.schemas[v] : y >= x
    BY <1>0, <2>1 DEF LatestSchemaCached
  <2>3. CASE v # t
    BY <1>7, <2>2, <2>3
  <2>4. CASE v = t
    <3>1. PICK c \in E : c >= y
      BY <1>5, <2>2, <2>4
    <3>2. c \in Nat /\ y \in Nat /\ x \in Nat
      BY <1>0, <1>5, <2>1, <2>2, <3>1 DEF SchemaInv, Bounded
    <3>. QED
      BY <1>7, <2>2, <2>4, <3>1, <3>2
  <2>. QED
    BY <2>3, <2>4
<1>10. StoreTypes'
  BY <1>0, <1>7 DEF StoreTypes
<1>11. \A v \in Tables : <<"meta", v>> \notin doubt' => cache'.metas[v] = dbMetas'[v]
  BY <1>0, <1>7 DEF CoherentInv
<1>. QED
  BY <1>0, <1>7, <1>8, <1>9, <1>10, <1>11, OtherKeeps

(* Pruning, in the database and in the cache. *)
LEMMA PruneKeeps ==
    ASSUME StoreInv, NEW T \in SUBSET Tables, NEW r \in [T -> Snapshots], PruneSchemas(r)
    PROVE  StoreInv'
<1>. USE DEF StoreInv
<1>. DEFINE pruned == [t \in Tables |-> IF t \in T THEN Prune(cache.schemas[t], r[t])
                                        ELSE cache.schemas[t]]
<1>0. /\ phase = "running" /\ UNCHANGED <<phase, plan, rows, lastId, checkpoints, dbMetas>>
      /\ dbSchemas' = WithoutObsolete(r) /\ DOMAIN r = T
      /\ \/ cache' = [cache EXCEPT !.schemas = pruned] /\ doubt' = doubt
         \/ cache' = cache /\ doubt' = doubt \cup UNION {SchemaOf(t) : t \in T}
  BY DEF PruneSchemas, Running
<1>1. \A t \in Tables : /\ pruned[t] \subseteq cache.schemas[t]
                        /\ \A x \in cache.schemas[t] : \E c \in pruned[t] : c >= x
  <2>1. ASSUME NEW t \in T
        PROVE  /\ Prune(cache.schemas[t], r[t]) \subseteq cache.schemas[t]
               /\ \A x \in cache.schemas[t] : \E c \in Prune(cache.schemas[t], r[t]) : c >= x
    <3>1. Bounded(cache.schemas[t]) /\ r[t] \in Nat
      BY DEF SchemaInv
    <3>. QED
      BY <3>1, Pruned
  <2>2. \A t \in Tables : \A x \in cache.schemas[t] : x >= x
    BY DEF SchemaInv, Bounded
  <2>. QED
    BY <2>1, <2>2
<1>2. \A t \in Tables : dbSchemas'[t] \subseteq dbSchemas[t]
  BY <1>0 DEF WithoutObsolete
<1>3. dbSchemas' \in [Tables -> SUBSET Snapshots]
  <2>1. \A t \in Tables : dbSchemas'[t] \in SUBSET Snapshots
    BY <1>2 DEF StoreTypes
  <2>. QED
    BY <1>0, <2>1 DEF WithoutObsolete
<1>4. cache \in CacheRecord
  BY DEF StoreTypes
<1>5. pruned \in [Tables -> SUBSET Snapshots]
  <2>1. \A t \in Tables : pruned[t] \in SUBSET Snapshots
    BY <1>1, <1>4 DEF CacheRecord
  <2>. QED
    BY <2>1
<1>. HIDE DEF pruned
<1>6. /\ cache' \in CacheRecord /\ cache'.states = cache.states /\ cache'.counts = cache.counts
      /\ cache'.metas = cache.metas
      /\ cache'.schemas = pruned \/ cache'.schemas = cache.schemas
      /\ \A t \in Tables : /\ <<"state", t>> \in doubt => <<"state", t>> \in doubt'
                           /\ <<"schema", t>> \in doubt => <<"schema", t>> \in doubt'
                           /\ <<"meta", t>> \in doubt => <<"meta", t>> \in doubt'
  <2>1. CASE cache' = [cache EXCEPT !.schemas = pruned] /\ doubt' = doubt
    BY <1>4, <1>5, <2>1 DEF CacheRecord
  <2>2. CASE cache' = cache /\ doubt' = doubt \cup UNION {SchemaOf(t) : t \in T}
    BY <1>4, <2>2
  <2>. QED
    BY <1>0, <2>1, <2>2
<1>7. \A t \in Tables : /\ cache'.schemas[t] \subseteq cache.schemas[t]
                        /\ \A x \in cache.schemas[t] : \E c \in cache'.schemas[t] : c >= x
  <2>1. \A t \in Tables : \A x \in cache.schemas[t] : x >= x
    BY DEF SchemaInv, Bounded
  <2>. QED
    BY <1>1, <1>6, <2>1
<1>8. SchemaInv'
  <2>. SUFFICES ASSUME NEW t \in Tables
                PROVE  /\ Bounded(dbSchemas'[t]) /\ Bounded(cache'.schemas[t])
                       /\ Cardinality(cache'.schemas[t]) <= MaxCached
    BY DEF SchemaInv
  <2>1. Bounded(dbSchemas'[t]) /\ Bounded(cache'.schemas[t])
    BY <1>2, <1>7 DEF SchemaInv, Bounded
  <2>2. IsFiniteSet(cache.schemas[t])
    BY BoundedFinite DEF SchemaInv
  <2>3. Cardinality(cache'.schemas[t]) <= Cardinality(cache.schemas[t])
    BY <1>7, <2>2, FS_Subset
  <2>4. Cardinality(cache.schemas[t]) \in Nat /\ Cardinality(cache'.schemas[t]) \in Nat
    BY <2>1, BoundedFinite DEF SchemaInv
  <2>5. Cardinality(cache.schemas[t]) <= MaxCached
    BY DEF SchemaInv
  <2>. QED
    BY <2>1, <2>3, <2>4, <2>5
<1>9. LatestSchemaCached'
  <2>1. SUFFICES ASSUME NEW v \in Tables, <<"schema", v>> \notin doubt', NEW x \in dbSchemas'[v]
                 PROVE  \E c \in cache'.schemas[v] : c >= x
    BY DEF LatestSchemaCached
  <2>2. PICK y \in cache.schemas[v] : y >= x
    BY <1>0, <1>2, <1>6, <2>1 DEF LatestSchemaCached
  <2>3. PICK c \in cache'.schemas[v] : c >= y
    BY <1>7, <2>2
  <2>4. c \in Nat /\ y \in Nat /\ x \in Nat
    BY <1>2, <1>7, <2>1, <2>2, <2>3 DEF SchemaInv, Bounded
  <2>. QED
    BY <2>2, <2>3, <2>4
<1>10. StoreTypes'
  <2>1. doubt' \subseteq Entries
    <3>1. UNION {SchemaOf(t) : t \in T} \subseteq Entries
      BY DEF SchemaOf, Entries
    <3>. QED
      BY <1>0, <3>1 DEF StoreTypes
  <2>. QED
    BY <1>0, <1>3, <1>6, <2>1 DEF StoreTypes
<1>11. \A v \in Tables : <<"meta", v>> \notin doubt' => cache'.metas[v] = dbMetas'[v]
  BY <1>0, <1>6 DEF CoherentInv
<1>. QED
  BY <1>0, <1>6, <1>8, <1>9, <1>10, <1>11, OtherKeeps

(* Preparing a table for a fresh copy. *)
LEMMA PrepareKeeps ==
    ASSUME StoreInv, NEW t \in Tables, PrepareForCopy(t)
    PROVE  StoreInv'
<1>. USE DEF StoreInv
<1>0. /\ phase = "running" /\ UNCHANGED <<phase, plan, rows, lastId>>
      /\ dbMetas' = [dbMetas EXCEPT ![t] = Absent]
      /\ dbSchemas' = [dbSchemas EXCEPT ![t] = {}]
      /\ checkpoints' = [checkpoints EXCEPT ![t] = Absent]
      /\ \/ /\ cache' = [cache EXCEPT !.schemas[t] = {}, !.metas[t] = Absent]
            /\ doubt' = doubt \ (MetaOf(t) \cup SchemaOf(t))
         \/ cache' = cache /\ doubt' = doubt \cup (MetaOf(t) \cup SchemaOf(t))
  BY DEF PrepareForCopy, Running, WithoutMetadata, WithoutSchemas, WithoutCheckpoint, Finish, Forget
<1>1. cache \in CacheRecord
  BY DEF StoreTypes
<1>2. /\ cache' \in CacheRecord /\ cache'.states = cache.states /\ cache'.counts = cache.counts
      /\ \A v \in Tables \ {t} : /\ cache'.schemas[v] = cache.schemas[v]
                                 /\ cache'.metas[v] = cache.metas[v]
      /\ cache'.schemas[t] = {} \/ cache'.schemas[t] = cache.schemas[t]
      /\ <<"meta", t>> \notin doubt' => cache'.metas[t] = Absent
  <2>1. CASE /\ cache' = [cache EXCEPT !.schemas[t] = {}, !.metas[t] = Absent]
             /\ doubt' = doubt \ (MetaOf(t) \cup SchemaOf(t))
    BY <1>1, <2>1 DEF CacheRecord
  <2>2. CASE cache' = cache /\ doubt' = doubt \cup (MetaOf(t) \cup SchemaOf(t))
    BY <1>1, <2>2 DEF MetaOf
  <2>. QED
    BY <1>0, <2>1, <2>2
<1>3. \A v \in Tables : /\ <<"state", v>> \in doubt => <<"state", v>> \in doubt'
                        /\ v # t /\ <<"schema", v>> \in doubt => <<"schema", v>> \in doubt'
                        /\ v # t /\ <<"meta", v>> \in doubt => <<"meta", v>> \in doubt'
  BY <1>0 DEF MetaOf, SchemaOf
<1>4. /\ dbSchemas'[t] = {} /\ dbMetas'[t] = Absent
      /\ \A v \in Tables \ {t} : dbSchemas'[v] = dbSchemas[v] /\ dbMetas'[v] = dbMetas[v]
  BY <1>0 DEF StoreTypes
<1>5. SchemaInv' /\ LatestSchemaCached'
  <2>1. Bounded({}) /\ Cardinality({}) <= MaxCached
    BY FS_EmptySet DEF Bounded
  <2>2. SchemaInv'
    BY <1>2, <1>4, <2>1 DEF SchemaInv
  <2>3. LatestSchemaCached'
    BY <1>0, <1>2, <1>3, <1>4 DEF LatestSchemaCached
  <2>. QED
    BY <2>2, <2>3
<1>6. StoreTypes'
  <2>1. doubt' \subseteq Entries
    BY <1>0 DEF StoreTypes, Entries, MetaOf, SchemaOf
  <2>2. /\ dbMetas' \in [Tables -> Metas \cup {Absent}]
        /\ dbSchemas' \in [Tables -> SUBSET Snapshots]
        /\ checkpoints' \in [Workers -> Lsns \cup {Absent}]
    BY <1>0 DEF StoreTypes
  <2>. QED
    BY <1>0, <1>2, <2>1, <2>2 DEF StoreTypes
<1>7. \A v \in Tables : <<"meta", v>> \notin doubt' => cache'.metas[v] = dbMetas'[v]
  BY <1>0, <1>2, <1>3, <1>4 DEF CoherentInv
<1>. QED
  BY <1>0, <1>2, <1>3, <1>5, <1>6, <1>7, OtherKeeps

(* The management API, which works while no pipeline runs. *)
LEMMA ReplaceKeeps ==
    ASSUME StoreInv, NEW T \in SUBSET Tables, ReplaceTableStates(T)
    PROVE  StoreInv'
<1>0. /\ phase = "down" /\ T \subseteq Stored /\ lastId + Cardinality(T) <= MaxRows
      /\ lastId' = lastId + Cardinality(T)
      /\ UNCHANGED <<checkpoints, dbMetas, dbSchemas, cache, phase, plan, doubt>>
  BY DEF ReplaceTableStates
<1>1. PICK order \in Orders(T) : rows' = ReplaceRows(T, order)
  BY DEF ReplaceTableStates
<1>2. PICK n : n = Cardinality(T)
  OBVIOUS
<1>3. n \in Nat /\ order \in [T -> 1..n] /\ \A t, v \in T : t # v => order[t] # order[v]
  BY <1>2, OrderFacts
<1>4. RowInv'
  BY <1>0, <1>1, <1>2, <1>3, ReplaceEffect DEF StoreInv
<1>5. StoreTypes' /\ SchemaInv' /\ LatestSchemaCached'
  BY <1>0 DEF StoreInv, StoreTypes, SchemaInv, LatestSchemaCached
<1>6. CoherentInv'
  BY <1>0 DEF StoreInv, CoherentInv, InitStateCounts
<1>. QED
  BY <1>4, <1>5, <1>6 DEF StoreInv

(* Every step preserves the invariant. *)
LEMMA NextStore ==
    ASSUME StoreInv, [Next]_vars
    PROVE  StoreInv'
<1>0. CASE UNCHANGED vars
  BY <1>0 DEF vars, dbVars, StoreInv, RowInv, RowTypes, ChainInv, StoreTypes, SchemaInv,
     CoherentInv, LatestSchemaCached, Listed, Stored, StoredState, CurrentIds, InitStateCounts
<1>1. ASSUME NEW P \in SUBSET Tables, Load(P) PROVE StoreInv'
  BY <1>1, LoadKeeps
<1>2. ASSUME NEW t \in Tables, InitializeTable(t) PROVE StoreInv'
  BY <1>2, InitializeKeeps
<1>3. ASSUME NEW t \in Tables, DeleteTableState(t) PROVE StoreInv'
  BY <1>3, DeleteKeeps
<1>4. CASE Started
  BY <1>4 DEF Started, dbVars, StoreInv, RowInv, RowTypes, ChainInv, StoreTypes, SchemaInv,
     CoherentInv, LatestSchemaCached, Listed, Stored, StoredState, CurrentIds, InitStateCounts
<1>5. CASE Crash
  <2>1. RowInv'
    BY <1>5 DEF Crash, dbVars, StoreInv, RowInv, RowTypes, ChainInv
  <2>2. /\ StoreTypes /\ cache' = EmptyCache /\ phase' = "down" /\ plan' = NoPlan /\ doubt' = {}
        /\ UNCHANGED <<checkpoints, dbMetas, dbSchemas>>
    BY <1>5 DEF Crash, dbVars, StoreInv
  <2>3. \A t \in Tables : Bounded(dbSchemas'[t])
    BY <2>2 DEF StoreInv, SchemaInv
  <2>. QED
    BY <2>1, <2>2, <2>3, DownKeeps DEF StoreTypes
<1>6. ASSUME NEW T \in SUBSET Tables, NEW u \in [T -> States], UpdateTableStates(u)
      PROVE  StoreInv'
  <2>1. DOMAIN u = T
    OBVIOUS
  <2>2. /\ phase = "running" /\ UNCHANGED <<phase, plan, checkpoints, dbMetas, dbSchemas>>
        /\ T \subseteq Listed /\ lastId + Cardinality(T) <= MaxRows
        /\ lastId' = lastId + Cardinality(T)
        /\ Finish(SetTableStates(cache, u), StateOf(T))
    BY <1>6, <2>1 DEF UpdateTableStates, Running
  <2>3. PICK order \in Orders(T) : rows' = InsertRows(u, order)
    BY <1>6, <2>1 DEF UpdateTableStates
  <2>4. checkpoints' \in [Workers -> Lsns \cup {Absent}]
    BY <2>2 DEF StoreInv, StoreTypes
  <2>. QED
    BY <2>2, <2>3, <2>4, UpdateTypes
<1>7. ASSUME NEW t \in Tables, RollbackTableState(t) PROVE StoreInv'
  BY <1>7, RollbackKeeps
<1>8. ASSUME NEW w \in Workers, NEW l \in Lsns, UpsertCheckpoint(w, l) \/ DeleteCheckpoint(w)
      PROVE  StoreInv'
  <2>1. /\ phase = "running"
        /\ UNCHANGED <<phase, plan, rows, lastId, dbMetas, dbSchemas, cache, doubt>>
    BY <1>8 DEF UpsertCheckpoint, DeleteCheckpoint, Running
  <2>2. checkpoints' \in [Workers -> Lsns \cup {Absent}]
    BY <1>8 DEF UpsertCheckpoint, DeleteCheckpoint, UpsertedCheckpoint, WithoutCheckpoint,
       StoreInv, StoreTypes
  <2>3. StoreTypes'
    BY <2>1, <2>2 DEF StoreInv, StoreTypes
  <2>. QED
    BY <2>1, <2>3 DEF StoreInv, RowInv, RowTypes, ChainInv, SchemaInv,
       CoherentInv, LatestSchemaCached, Listed, Stored, StoredState, CurrentIds, InitStateCounts
<1>9. ASSUME NEW w \in Workers, DeleteCheckpoint(w) PROVE StoreInv'
  <2>1. /\ phase = "running"
        /\ UNCHANGED <<phase, plan, rows, lastId, dbMetas, dbSchemas, cache, doubt>>
    BY <1>9 DEF DeleteCheckpoint, Running
  <2>2. checkpoints' \in [Workers -> Lsns \cup {Absent}]
    BY <1>9 DEF DeleteCheckpoint, WithoutCheckpoint, StoreInv, StoreTypes
  <2>3. StoreTypes'
    BY <2>1, <2>2 DEF StoreInv, StoreTypes
  <2>. QED
    BY <2>1, <2>3 DEF StoreInv, RowInv, RowTypes, ChainInv, SchemaInv,
       CoherentInv, LatestSchemaCached, Listed, Stored, StoredState, CurrentIds, InitStateCounts
<1>10. ASSUME NEW t \in Tables, NEW meta \in Metas, StoreMetadata(t, meta) PROVE StoreInv'
  BY <1>10, MetadataKeeps
<1>11. ASSUME NEW t \in Tables, NEW s \in Snapshots, StoreSchema(t, s) PROVE StoreInv'
  BY <1>11, SchemaKeeps
<1>12. ASSUME NEW t \in Tables, NEW s \in Snapshots, GetTableSchema(t, s) PROVE StoreInv'
  BY <1>12, LookupKeeps
<1>13. ASSUME NEW T \in (SUBSET Tables) \ {{}}, NEW r \in [T -> Snapshots], PruneSchemas(r)
       PROVE  StoreInv'
  <2>1. T \in SUBSET Tables
    OBVIOUS
  <2>. QED
    BY <1>13, <2>1, PruneKeeps
<1>14. ASSUME NEW t \in Tables, PrepareForCopy(t) PROVE StoreInv'
  BY <1>14, PrepareKeeps
<1>15. CASE ResetForResync
  <2>1. PICK T \in SUBSET Tables : T = Listed
    BY DEF Listed
  <2>2. PICK u \in [T -> States] : u = [t \in Listed |-> InitState]
    BY <2>1
  <2>3. /\ phase = "running" /\ UNCHANGED <<phase, plan, dbMetas, dbSchemas>>
        /\ T \subseteq Listed /\ lastId + Cardinality(T) <= MaxRows
        /\ lastId' = lastId + Cardinality(T)
        /\ Finish(SetTableStates(cache, u), StateOf(T))
        /\ checkpoints' = [checkpoints EXCEPT ![ApplyWorker] = Absent]
    BY <1>15, <2>1, <2>2 DEF ResetForResync, Running, WithoutCheckpoint
  <2>4. PICK order \in Orders(T) : rows' = InsertRows(u, order)
    BY <1>15, <2>1, <2>2 DEF ResetForResync
  <2>5. checkpoints' \in [Workers -> Lsns \cup {Absent}]
    BY <2>3 DEF StoreInv, StoreTypes
  <2>. QED
    BY <2>3, <2>4, <2>5, UpdateTypes
<1>16. ASSUME NEW T \in SUBSET Tables, ReplaceTableStates(T) PROVE StoreInv'
  BY <1>16, ReplaceKeeps
<1>. QED
  BY <1>0, <1>1, <1>2, <1>3, <1>4, <1>5, <1>6, <1>7, <1>8, <1>9, <1>10, <1>11, <1>12, <1>13,
     <1>14, <1>15, <1>16 DEF Next

-----------------------------------------------------------------------------
(* The theorems.                                                           *)

(* The chains, the types and the coherence of the cache hold together in   *)
(* every reachable state (crates/etl/src/store/both/postgres.rs).          *)
THEOREM StoreInvariance == Spec => []StoreInv
<1>1. StoreInv /\ [Next]_vars => StoreInv'
  BY NextStore
<1>. QED
  BY <1>1, InitStore, PTL DEF Spec

(* The history rows of every table form one chain that ends in its only    *)
(* current row, whatever updates, rollbacks, resets and replacements by    *)
(* the management API come in which order: the fetch_one of                *)
(* rollback_table_state (crates/etl-postgres/src/store/) finds one row.    *)
THEOREM HistoryRowsFormChains == Spec => []RowChains
<1>1. StoreInv => RowChains
  <2>. DEFINE ownOf(x) == {i \in DOMAIN rows : rows[i].table = x}
              followedOf(x) == {rows[i].prev : i \in ownOf(x)} \ {0}
  <2>. SUFFICES ASSUME StoreInv PROVE RowChains
    OBVIOUS
  <2>. SUFFICES ASSUME NEW t \in Tables, ownOf(t) # {}
                PROVE  /\ followedOf(t) \subseteq ownOf(t)
                       /\ \A i \in ownOf(t) : rows[i].prev < i
                       /\ \A i, j \in ownOf(t) : i # j => rows[i].prev # rows[j].prev
                       /\ \A i \in ownOf(t) : rows[i].current <=> i \notin followedOf(t)
                       /\ Cardinality(CurrentIds(t)) = 1
    BY DEF RowChains
  <2>a. PICK own : own = ownOf(t)
    OBVIOUS
  <2>b. PICK followed : followed = followedOf(t)
    OBVIOUS
  <2>c. own # {} /\ own = {i \in DOMAIN rows : rows[i].table = t}
        /\ followed = {rows[i].prev : i \in own} \ {0}
    BY <2>a, <2>b
  <2>1. RowInv /\ RowFacts /\ \A i \in DOMAIN rows : i \in 1..lastId
    BY CurrentRow DEF StoreInv, RowInv, RowTypes
  <2>2. followed \subseteq own
    BY <2>1, <2>c DEF RowInv, ChainInv
  <2>3. \A i \in own : rows[i].prev < i
    BY <2>1, <2>c DEF RowInv, ChainInv, RowTypes
  <2>4. \A i, j \in own : i # j => rows[i].prev # rows[j].prev
    BY <2>1, <2>c DEF RowInv, ChainInv
  <2>5. \A i \in own : rows[i].current <=> i \notin followed
    <3>1. \A i \in own : i \in DOMAIN rows /\ i # 0
      BY <2>1, <2>c DEF RowInv, RowTypes
    <3>2. \A i \in own : \A j \in DOMAIN rows : rows[j].prev = i => j \in own
      BY <2>1, <2>c, <3>1 DEF RowInv, ChainInv
    <3>. QED
      BY <2>1, <2>c, <3>1, <3>2 DEF RowInv, ChainInv
  <2>6. CurrentIds(t) = {OldId(t)}
    <3>1. t \in Stored
      BY <2>1, <2>c DEF RowFacts
    <3>. QED
      BY <2>1, <3>1 DEF RowFacts, CurrentIds
  <2>7. Cardinality(CurrentIds(t)) = 1
    BY <2>6, FS_Singleton
  <2>. QED
    BY <2>a, <2>b, <2>2, <2>3, <2>4, <2>5, <2>7
<1>. QED
  BY <1>1, StoreInvariance, PTL

(* The cache agrees with the database in every reachable state except      *)
(* where a COMMIT was reported lost, and lists exactly the stored tables:  *)
(* ResetForResync and the workers act on what is stored                    *)
(* (crates/etl/src/store/both/postgres.rs).                                *)
THEOREM CacheIsCoherent == Spec => []CacheCoherent
<1>1. StoreInv => CacheCoherent
  BY DEF StoreInv, CoherentInv, CacheCoherent
<1>. QED
  BY <1>1, StoreInvariance, PTL

(* The newest stored schema of a table is in the cache whatever lookups,   *)
(* evictions and prunings came before                                      *)
(* (crates/etl/src/store/schema/table.rs, insert_with_eviction and prune). *)
THEOREM LatestSchemaIsCached == Spec => []LatestSchemaCached
<1>1. StoreInv => LatestSchemaCached
  BY DEF StoreInv
<1>. QED
  BY <1>1, StoreInvariance, PTL

(* Every variable keeps its type, and the cache never holds more than      *)
(* MAX_CACHED_SCHEMAS_PER_TABLE snapshots of a table.                      *)
THEOREM StoreTypeCorrect == Spec => []TypeOK
<1>1. StoreInv => TypeOK
  <2>. SUFFICES ASSUME StoreInv PROVE TypeOK
    OBVIOUS
  <2>1. /\ lastId \in 0..MaxRows /\ DOMAIN rows \subseteq 1..lastId
        /\ \A i \in DOMAIN rows : rows[i] \in Row
    BY DEF StoreInv, RowInv, RowTypes
  <2>2. cache.counts \in [States -> 0..Cardinality(Tables)]
    <3>1. ASSUME NEW s \in States PROVE cache.counts[s] \in 0..Cardinality(Tables)
      <4>. DEFINE with == {t \in Tables : cache.states[t] = s}
      <4>1. cache.counts[s] = Cardinality(with)
        BY DEF StoreInv, CoherentInv, InitStateCounts
      <4>2. with \in SUBSET Tables
        OBVIOUS
      <4>. HIDE DEF with
      <4>3. IsFiniteSet(with) /\ Cardinality(with) <= Cardinality(Tables)
        BY <4>2, FS_Subset
      <4>4. Cardinality(with) \in Nat /\ Cardinality(Tables) \in Nat
        BY <4>3, FS_CardinalityType
      <4>. QED
        BY <4>1, <4>3, <4>4
    <3>. QED
      BY <3>1 DEF StoreInv, StoreTypes, CacheRecord
  <2>3. cache \in Cache
    BY <2>2 DEF StoreInv, StoreTypes, CacheRecord, Cache
  <2>. QED
    BY <2>1, <2>3 DEF StoreInv, StoreTypes, SchemaInv, Entries, TypeOK
<1>. QED
  BY <1>1, StoreInvariance, PTL

-----------------------------------------------------------------------------
(* The refinement of PipelineStore: the abstract history of a table is its *)
(* chain of rows, from the first to the current one.                       *)

ChainAt(f, i) ==
    IF i \notin DOMAIN rows THEN <<>> ELSE Append(f[rows[i].prev], rows[i].state)

(* Row numbers fall along a chain, so the definition has a solution: the   *)
(* least row without one would have one.                                   *)
LEMMA ChainExists ==
    ASSUME RowInv
    PROVE  \E f : f = [i \in 0..MaxRows |-> ChainAt(f, i)]
<1>. DEFINE Solves(f, n) == /\ f = [i \in 0..n |-> f[i]]
                            /\ \A i \in 0..n : f[i] = ChainAt(f, i)
            Without == {n \in 0..MaxRows : ~ \E f : Solves(f, n)}
<1>1. ASSUME Without # {} PROVE FALSE
  <2>1. PICK n \in Without : \A k \in Without : n <= k
    <3>1. Without \subseteq Nat
      OBVIOUS
    <3>. HIDE DEF Without
    <3>. QED
      BY <1>1, <3>1, LeastNat
  <2>2. n \in 0..MaxRows /\ ~ \E f : Solves(f, n)
    OBVIOUS
  <2>3. CASE n = 0
    <3>1. PICK f : f = [i \in 0..0 |-> <<>>]
      BY Zenon
    <3>2. 0 \notin DOMAIN rows
      BY DEF RowInv, RowTypes
    <3>3. \A i \in 0..0 : i = 0
      OBVIOUS
    <3>4. Solves(f, 0)
      <4>1. ChainAt(f, 0) = <<>>
        BY <3>2, Zenon DEF ChainAt
      <4>2. PICK e : e = <<>>
        BY Zenon
      <4>3. f = [i \in 0..0 |-> e] /\ ChainAt(f, 0) = e
        BY <3>1, <4>1, <4>2, Zenon
      <4>. QED
        BY <3>3, <4>3
    <3>. QED
      BY <2>2, <2>3, <3>4
  <2>4. CASE n # 0
    <3>1. n - 1 \in 0..MaxRows /\ n \in Nat
      BY <2>2, <2>4
    <3>2. n - 1 \notin Without
      <4>. HIDE DEF Without
      <4>. QED
        BY <2>1, <3>1
    <3>3. PICK f : Solves(f, n - 1)
      BY <3>1, <3>2
    <3>4. PICK g : g = [i \in 0..n |-> IF i = n THEN ChainAt(f, n) ELSE f[i]]
      OBVIOUS
    <3>5. \A i \in DOMAIN rows : rows[i].prev \in Nat /\ rows[i].prev < i /\ i \in Nat
      BY DEF RowInv, RowTypes, ChainInv, Row
    <3>6. \A i \in 0..n-1 : i \in 0..n /\ i # n /\ g[i] = f[i]
      BY <3>1, <3>4
    <3>7. ASSUME NEW i \in 0..n PROVE ChainAt(g, i) = ChainAt(f, i)
      <4>1. CASE i \notin DOMAIN rows
        BY <4>1 DEF ChainAt
      <4>2. CASE i \in DOMAIN rows
        <5>1. rows[i].prev \in 0..n-1
          BY <3>1, <3>5, <4>2
        <5>. QED
          BY <3>6, <4>2, <5>1 DEF ChainAt
      <4>. QED
        BY <4>1, <4>2
    <3>8. g = [i \in 0..n |-> g[i]] /\ \A i \in 0..n : g[i] = ChainAt(g, i)
      <4>1. g = [i \in 0..n |-> g[i]]
        BY <3>4
      <4>2. ASSUME NEW i \in 0..n PROVE g[i] = ChainAt(f, i)
        <5>1. CASE i = n
          BY <3>4, <5>1
        <5>2. CASE i # n
          <6>1. i \in 0..n-1
            BY <3>1, <5>2
          <6>. QED
            BY <3>3, <3>6, <6>1
        <5>. QED
          BY <5>1, <5>2
      <4>. QED
        BY <3>7, <4>1, <4>2
    <3>. QED
      BY <2>2, <3>8
  <2>. QED
    BY <2>3, <2>4
<1>2. PICK f : Solves(f, MaxRows)
  BY <1>1
<1>. QED
  BY <1>2

(* The function the rows define satisfies its recursive definition. *)
ChainFacts ==
    /\ Chain[0] = <<>>
    /\ \A i \in DOMAIN rows :
          /\ Chain[i] = Append(Chain[rows[i].prev], rows[i].state)
          /\ Chain[i] \in Seq(States) /\ Chain[i] # <<>>

(* Pushing a state on a sequence of states and popping it again. *)
LEMMA PushPop ==
    ASSUME NEW S, NEW s \in Seq(S), NEW x \in S
    PROVE  /\ Append(s, x) \in Seq(S) /\ Append(s, x) # <<>>
           /\ Len(Append(s, x)) = Len(s) + 1
           /\ SubSeq(Append(s, x), 1, Len(Append(s, x)) - 1) = s
<1>1. Append(s, x) \in Seq(S) /\ Append(s, x) # <<>> /\ Len(Append(s, x)) = Len(s) + 1
  OBVIOUS
<1>2. SubSeq(Append(s, x), 1, Len(Append(s, x)) - 1) = s
  OBVIOUS
<1>. QED
  BY <1>1, <1>2, Zenon

(* The empty sequence, and the others. *)
LEMMA EmptySeq ==
    ASSUME NEW S
    PROVE  <<>> \in Seq(S) /\ \A s \in Seq(S) : s # <<>> => Len(s) \in Nat /\ Len(s) > 0
OBVIOUS

(* The chains are sequences of states: the least row whose chain is not    *)
(* one would follow a row whose chain is.                                  *)
LEMMA ChainUnfolds == RowInv => ChainFacts
<1>. SUFFICES ASSUME RowInv PROVE ChainFacts
  OBVIOUS
<1>1. Chain = CHOOSE f : f = [i \in 0..MaxRows |-> ChainAt(f, i)]
  BY DEF Chain, ChainAt
<1>2. Chain = [i \in 0..MaxRows |-> ChainAt(Chain, i)]
  BY <1>1, ChainExists
<1>3. \A i \in 0..MaxRows : Chain[i] = ChainAt(Chain, i)
  BY <1>2, Zenon
<1>4. /\ 0 \in 0..MaxRows /\ 0 \notin DOMAIN rows
      /\ \A i \in DOMAIN rows : /\ i \in 0..MaxRows /\ i \in Nat /\ rows[i].state \in States
                                /\ rows[i].prev # 0 => /\ rows[i].prev \in DOMAIN rows
                                                       /\ rows[i].prev \in Nat
                                                       /\ rows[i].prev < i
  BY DEF RowInv, RowTypes, ChainInv, Row
<1>5. Chain[0] = <<>>
  BY <1>3, <1>4, Zenon DEF ChainAt
<1>6. \A i \in DOMAIN rows : Chain[i] = Append(Chain[rows[i].prev], rows[i].state)
  BY <1>3, <1>4, Zenon DEF ChainAt
<1>7. \A i \in DOMAIN rows : Chain[i] \in Seq(States) /\ Chain[i] # <<>>
  <2>. DEFINE Bad == {i \in DOMAIN rows : ~ (Chain[i] \in Seq(States) /\ Chain[i] # <<>>)}
  <2>1. ASSUME Bad # {} PROVE FALSE
    <3>1. Bad \subseteq Nat
      BY <1>4, Zenon
    <3>2. PICK n \in Bad : \A k \in Bad : n <= k
      <4>. HIDE DEF Bad
      <4>. QED
        BY <2>1, <3>1, LeastNat
    <3>3. n \in DOMAIN rows /\ ~ (Chain[n] \in Seq(States) /\ Chain[n] # <<>>)
      BY <3>2, Zenon
    <3>4. PICK p : p = rows[n].prev
      BY Zenon
    <3>5. Chain[p] \in Seq(States)
      <4>1. CASE p = 0
        BY <1>5, <4>1, EmptySeq, Zenon
      <4>2. CASE p # 0
        <5>1. p \in DOMAIN rows /\ ~ (n <= p)
          BY <1>4, <3>3, <3>4, <4>2
        <5>. QED
          BY <3>2, <5>1, Zenon
      <4>. QED
        BY <4>1, <4>2, Zenon
    <3>6. PICK h : h = Chain[p]
      BY Zenon
    <3>7. PICK x \in States : x = rows[n].state
      BY <1>4, <3>3, Zenon
    <3>8. h \in Seq(States) /\ Chain[n] = Append(h, x)
      BY <1>6, <3>3, <3>4, <3>5, <3>6, <3>7, Zenon
    <3>9. Append(h, x) \in Seq(States) /\ Append(h, x) # <<>>
      BY <3>8, PushPop
    <3>. QED
      BY <3>3, <3>8, <3>9, Zenon
  <2>. QED
    BY <2>1, Zenon
<1>. QED
  BY <1>5, <1>6, <1>7, Zenon DEF ChainFacts

(* A set of rows closed under prev, left alone by a step, keeps its chains. *)
LEMMA ChainKept ==
    ASSUME RowInv, RowInv', NEW K,
           \A j \in K : /\ j \in DOMAIN rows /\ j \in DOMAIN rows'
                        /\ rows'[j].state = rows[j].state /\ rows'[j].prev = rows[j].prev
                        /\ rows[j].prev # 0 => rows[j].prev \in K
    PROVE  \A j \in K : Chain'[j] = Chain[j]
<1>0. ChainFacts /\ ChainFacts'
  BY ChainUnfolds, PTL
<1>1. \A i \in K : i \in Nat /\ (rows[i].prev # 0 => rows[i].prev \in Nat /\ rows[i].prev < i)
  BY DEF RowInv, RowTypes, ChainInv
<1>. DEFINE Bad == {i \in K : Chain'[i] # Chain[i]}
<1>2. ASSUME Bad # {} PROVE FALSE
  <2>1. Bad \subseteq Nat
    BY <1>1, Zenon
  <2>2. PICK n \in Bad : \A k \in Bad : n <= k
    <3>. HIDE DEF Bad
    <3>. QED
      BY <1>2, <2>1, LeastNat
  <2>3. n \in K /\ Chain'[n] # Chain[n]
    BY <2>2, Zenon
  <2>4. PICK p : p = rows[n].prev
    BY Zenon
  <2>5. Chain'[p] = Chain[p]
    <3>1. CASE p = 0
      BY <1>0, <3>1, Zenon DEF ChainFacts
    <3>2. CASE p # 0
      <4>1. p \in K /\ ~ (n <= p)
        BY <1>1, <2>3, <2>4, <3>2
      <4>. QED
        BY <2>2, <4>1, Zenon
    <3>. QED
      BY <3>1, <3>2, Zenon
  <2>6. /\ Chain[n] = Append(Chain[p], rows[n].state)
        /\ Chain'[n] = Append(Chain'[p], rows[n].state)
    BY <1>0, <2>3, <2>4, Zenon DEF ChainFacts
  <2>. QED
    BY <2>3, <2>5, <2>6, Zenon
<1>. QED
  BY <1>2, Zenon

(* The abstract history of a table is the chain of its current row; it is  *)
(* empty exactly when no row is stored.                                    *)
HistoryFacts ==
    \A t \in Tables : /\ HistoryOf(t) = Chain[OldId(t)] /\ HistoryOf(t) \in Seq(States)
                      /\ HistoryOf(t) # <<>> <=> t \in Stored

(* The invariant implies these facts. *)
LEMMA HistoryIsChain == RowInv => HistoryFacts
<1>. SUFFICES ASSUME RowInv, NEW t \in Tables
              PROVE  /\ HistoryOf(t) = Chain[OldId(t)] /\ HistoryOf(t) \in Seq(States)
                     /\ HistoryOf(t) # <<>> <=> t \in Stored
  BY DEF HistoryFacts
<1>1. ChainFacts /\ RowFacts
  BY ChainUnfolds, CurrentRow
<1>2. CASE t \in Stored
  <2>1. CurrentIds(t) # {} /\ OldId(t) \in DOMAIN rows
    BY <1>1, <1>2, Zenon DEF RowFacts, Stored
  <2>2. HistoryOf(t) = Chain[OldId(t)]
    BY <1>2, <2>1, Zenon DEF HistoryOf, OldId
  <2>. QED
    BY <1>1, <1>2, <2>1, <2>2, Zenon DEF ChainFacts
<1>3. CASE t \notin Stored
  <2>1. HistoryOf(t) = <<>> /\ OldId(t) = 0
    BY <1>1, <1>3, Zenon DEF RowFacts, HistoryOf
  <2>. QED
    BY <1>1, <1>3, <2>1, EmptySeq, Zenon DEF ChainFacts
<1>. QED
  BY <1>2, <1>3, Zenon

(* Chains that a step leaves alone are histories it leaves alone. *)
LEMMA HistoryKept ==
    ASSUME RowInv, RowInv', NEW K,
           \A j \in K : /\ j \in DOMAIN rows /\ j \in DOMAIN rows'
                        /\ rows'[j].state = rows[j].state /\ rows'[j].prev = rows[j].prev
                        /\ rows[j].prev # 0 => rows[j].prev \in K
    PROVE  /\ \A i \in K \cup {0} : Chain'[i] = Chain[i]
           /\ \A t \in Tables : OldId(t)' = OldId(t) /\ OldId(t) \in K \cup {0}
                                 => HistoryOf(t)' = HistoryOf(t)
<1>1. ChainFacts /\ ChainFacts' /\ HistoryFacts /\ HistoryFacts'
  BY ChainUnfolds, HistoryIsChain, PTL
<1>2. \A j \in K : Chain'[j] = Chain[j]
  BY ChainKept
<1>3. \A i \in K \cup {0} : Chain'[i] = Chain[i]
  BY <1>1, <1>2, Zenon DEF ChainFacts
<1>. QED
  BY <1>1, <1>3, Zenon DEF HistoryFacts

(* An update appends to the histories of its tables. *)
LEMMA InsertHistory ==
    ASSUME RowInv, NEW T \in SUBSET Tables, NEW u \in [T -> States], NEW n \in Nat,
           NEW order \in [T -> 1..n], \A t, v \in T : t # v => order[t] # order[v],
           lastId + n <= MaxRows, lastId' = lastId + n, rows' = InsertRows(u, order)
    PROVE  /\ \A t \in T : HistoryOf(t)' = Append(HistoryOf(t), u[t])
           /\ \A t \in Tables \ T : HistoryOf(t)' = HistoryOf(t)
<1>1. /\ RowInv' /\ Stored' = Stored \cup T
      /\ \A t \in T : StoredState(t)' = u[t]
      /\ \A t \in Stored \ T : StoredState(t)' = StoredState(t) /\ OldId(t)' = OldId(t)
      /\ \A t \in T : rows'[OldId(t)'].prev = OldId(t)
      /\ \A i \in DOMAIN rows : /\ i \in DOMAIN rows' /\ rows'[i].state = rows[i].state
                                /\ rows'[i].prev = rows[i].prev
  BY InsertLinks, Zenon
<1>2. RowFacts /\ RowFacts' /\ HistoryFacts /\ HistoryFacts' /\ ChainFacts'
  BY <1>1, CurrentRow, HistoryIsChain, ChainUnfolds, PTL
<1>3. /\ \A i \in DOMAIN rows \cup {0} : Chain'[i] = Chain[i]
      /\ \A t \in Tables : OldId(t)' = OldId(t) /\ OldId(t) \in DOMAIN rows \cup {0}
                            => HistoryOf(t)' = HistoryOf(t)
  <2>1. \A j \in DOMAIN rows : rows[j].prev # 0 => rows[j].prev \in DOMAIN rows
    BY DEF RowInv, ChainInv
  <2>. QED
    BY <1>1, <2>1, HistoryKept
<1>4. \A t \in Tables : OldId(t) \in DOMAIN rows \cup {0}
  BY <1>2 DEF RowFacts
<1>5. ASSUME NEW t \in Tables \ T PROVE HistoryOf(t)' = HistoryOf(t)
  <2>1. OldId(t)' = OldId(t)
    BY <1>1, <1>2 DEF RowFacts
  <2>. QED
    BY <1>3, <1>4, <2>1, Zenon
<1>6. ASSUME NEW t \in T PROVE HistoryOf(t)' = Append(HistoryOf(t), u[t])
  <2>1. t \in Tables /\ t \in Stored'
    BY <1>1
  <2>2. PICK i : i = OldId(t)'
    BY Zenon
  <2>3. i \in DOMAIN rows' /\ rows'[i].prev = OldId(t) /\ rows'[i].state = u[t]
    BY <1>1, <1>2, <2>1, <2>2, Zenon DEF RowFacts
  <2>4. HistoryOf(t)' = Append(Chain'[OldId(t)], u[t])
    BY <1>2, <2>1, <2>2, <2>3, Zenon DEF HistoryFacts, ChainFacts
  <2>5. Chain'[OldId(t)] = HistoryOf(t)
    BY <1>2, <1>3, <1>4, <2>1, Zenon DEF HistoryFacts
  <2>. QED
    BY <2>4, <2>5, Zenon
<1>. QED
  BY <1>5, <1>6

(* A rollback takes off the last state. *)
LEMMA RollbackHistory ==
    ASSUME RowInv, NEW t \in Tables, NEW i \in CurrentIds(t), rows[i].prev # 0,
           lastId' = lastId, rows' = RollbackRows(t)
    PROVE  /\ Len(HistoryOf(t)) > 1
           /\ HistoryOf(t)' = SubSeq(HistoryOf(t), 1, Len(HistoryOf(t)) - 1)
           /\ \A v \in Tables \ {t} : HistoryOf(v)' = HistoryOf(v)
<1>1. /\ RowInv' /\ Stored' = Stored
      /\ i = OldId(t) /\ OldId(t)' = rows[i].prev
      /\ rows[i].prev \in DOMAIN rows /\ rows[i].prev # i
      /\ \A v \in Stored \ {t} : OldId(v)' = OldId(v)
      /\ DOMAIN rows' = DOMAIN rows \ {i}
      /\ \A j \in DOMAIN rows' : rows'[j].state = rows[j].state /\ rows'[j].prev = rows[j].prev
  BY RollbackEffect
<1>2. RowFacts /\ RowFacts' /\ HistoryFacts /\ HistoryFacts' /\ ChainFacts /\ ChainFacts'
  BY <1>1, CurrentRow, HistoryIsChain, ChainUnfolds, PTL
<1>3. /\ \A j \in DOMAIN rows' \cup {0} : Chain'[j] = Chain[j]
      /\ \A v \in Tables : OldId(v)' = OldId(v) /\ OldId(v) \in DOMAIN rows' \cup {0}
                            => HistoryOf(v)' = HistoryOf(v)
  <2>1. \A j \in DOMAIN rows' : rows'[j].prev # 0 => rows'[j].prev \in DOMAIN rows'
    BY <1>1 DEF RowInv, ChainInv
  <2>. QED
    BY <1>1, <2>1, HistoryKept
<1>4. ASSUME NEW v \in Tables \ {t} PROVE HistoryOf(v)' = HistoryOf(v)
  <2>1. OldId(v)' = OldId(v)
    BY <1>1, <1>2 DEF RowFacts
  <2>2. OldId(v) \in DOMAIN rows' \cup {0}
    BY <1>2, <2>1 DEF RowFacts
  <2>. QED
    BY <1>3, <2>1, <2>2, Zenon
<1>5. i \in DOMAIN rows /\ rows[i].state \in States
  BY DEF CurrentIds, RowInv, RowTypes, Row
<1>6. PICK p : p = rows[i].prev
  BY Zenon
<1>7. p \in DOMAIN rows /\ p \in DOMAIN rows'
  BY <1>1, <1>6
<1>8. PICK h : h = Chain[p]
  BY Zenon
<1>9. PICK x \in States : x = rows[i].state
  BY <1>5, Zenon
<1>10. /\ h \in Seq(States) /\ h # <<>> /\ HistoryOf(t) = Append(h, x)
  BY <1>1, <1>2, <1>5, <1>6, <1>7, <1>8, <1>9, Zenon DEF HistoryFacts, ChainFacts
<1>11. HistoryOf(t)' = h
  BY <1>1, <1>2, <1>3, <1>6, <1>7, <1>8, Zenon DEF HistoryFacts
<1>12. /\ Len(Append(h, x)) = Len(h) + 1
       /\ SubSeq(Append(h, x), 1, Len(Append(h, x)) - 1) = h
  BY <1>10, PushPop
<1>13. Len(h) \in Nat /\ Len(h) > 0
  BY <1>10, EmptySeq, Zenon
<1>14. Len(Append(h, x)) > 1
  <2>1. PICK k : k = Len(h)
    BY Zenon
  <2>2. PICK m : m = Len(Append(h, x))
    BY Zenon
  <2>3. m = k + 1 /\ k \in Nat /\ k > 0
    BY <1>12, <1>13, <2>1, <2>2, Zenon
  <2>4. m > 1
    BY <2>3
  <2>. QED
    BY <2>2, <2>4, Zenon
<1>. QED
  BY <1>4, <1>10, <1>11, <1>12, <1>14, Zenon

(* A table that is deleted has no history. *)
LEMMA DeleteHistory ==
    ASSUME RowInv, NEW T \in SUBSET Tables, lastId' = lastId, rows' = DeleteRows(T)
    PROVE  /\ \A t \in T : HistoryOf(t)' = <<>>
           /\ \A t \in Tables \ T : HistoryOf(t)' = HistoryOf(t)
<1>1. /\ RowInv' /\ Stored' = Stored \ T
      /\ DOMAIN rows' = {j \in DOMAIN rows : rows[j].table \notin T}
      /\ \A j \in DOMAIN rows' : rows'[j] = rows[j]
      /\ \A v \in Stored \ T : OldId(v)' = OldId(v)
  BY DeleteEffect
<1>2. RowFacts /\ RowFacts' /\ HistoryFacts'
  BY <1>1, CurrentRow, HistoryIsChain, PTL
<1>3. \A v \in Tables : OldId(v)' = OldId(v) /\ OldId(v) \in DOMAIN rows' \cup {0}
                         => HistoryOf(v)' = HistoryOf(v)
  <2>1. \A j \in DOMAIN rows' : rows'[j].prev # 0 => rows'[j].prev \in DOMAIN rows'
    BY <1>1 DEF RowInv, ChainInv
  <2>2. PICK K : K = DOMAIN rows'
    BY Zenon
  <2>3. \A j \in K : /\ j \in DOMAIN rows /\ j \in DOMAIN rows' /\ rows'[j] = rows[j]
                     /\ rows[j].prev # 0 => rows[j].prev \in K
    BY <1>1, <2>1, <2>2
  <2>. QED
    BY <1>1, <2>2, <2>3, HistoryKept
<1>4. ASSUME NEW t \in T PROVE HistoryOf(t)' = <<>>
  <2>1. t \in Tables /\ t \notin Stored'
    BY <1>1
  <2>. QED
    BY <1>2, <2>1, Zenon DEF HistoryFacts
<1>5. ASSUME NEW t \in Tables \ T PROVE HistoryOf(t)' = HistoryOf(t)
  <2>1. OldId(t)' = OldId(t)
    BY <1>1, <1>2 DEF RowFacts
  <2>2. OldId(t) \in DOMAIN rows' \cup {0}
    BY <1>2, <2>1 DEF RowFacts
  <2>. QED
    BY <1>3, <2>1, <2>2, Zenon
<1>. QED
  BY <1>4, <1>5, Zenon

(* A history that is replaced starts over. *)
LEMMA ReplaceHistory ==
    ASSUME RowInv, NEW T \in SUBSET Tables, T \subseteq Stored, NEW n \in Nat,
           NEW order \in [T -> 1..n], \A t, v \in T : t # v => order[t] # order[v],
           lastId + n <= MaxRows, lastId' = lastId + n, rows' = ReplaceRows(T, order)
    PROVE  /\ \A t \in T : HistoryOf(t)' = <<InitState>>
           /\ \A t \in Tables \ T : HistoryOf(t)' = HistoryOf(t)
<1>1. /\ RowInv' /\ Stored' = Stored
      /\ \A t \in T : /\ OldId(t)' \in DOMAIN rows' /\ OldId(t)' \in Nat
                      /\ rows'[OldId(t)'].prev = 0 /\ rows'[OldId(t)'].state = InitState
      /\ \A j \in DOMAIN rows : rows[j].table \notin T =>
            j \in DOMAIN rows' /\ rows'[j] = rows[j]
      /\ \A v \in Stored \ T : OldId(v)' = OldId(v)
  BY ReplaceEffect, Zenon
<1>2. RowFacts /\ RowFacts' /\ HistoryFacts' /\ ChainFacts'
  BY <1>1, CurrentRow, HistoryIsChain, ChainUnfolds, PTL
<1>3. PICK K : K = {j \in DOMAIN rows : rows[j].table \notin T}
  BY Zenon
<1>4. \A v \in Tables : OldId(v)' = OldId(v) /\ OldId(v) \in K \cup {0}
                         => HistoryOf(v)' = HistoryOf(v)
  <2>1. \A j \in K : rows[j].prev # 0 => rows[j].prev \in K
    BY <1>3 DEF RowInv, ChainInv
  <2>2. \A j \in K : j \in DOMAIN rows /\ j \in DOMAIN rows' /\ rows'[j] = rows[j]
    BY <1>1, <1>3
  <2>. QED
    BY <1>1, <2>1, <2>2, HistoryKept
<1>5. ASSUME NEW t \in T PROVE HistoryOf(t)' = <<InitState>>
  <2>1. Append(<<>>, InitState) = <<InitState>>
    OBVIOUS
  <2>2. PICK i : i = OldId(t)'
    BY Zenon
  <2>3. i \in DOMAIN rows' /\ rows'[i].prev = 0 /\ rows'[i].state = InitState
    BY <1>1, <2>2, Zenon
  <2>4. Chain'[i] = Append(Chain'[0], InitState) /\ Chain'[0] = <<>>
    BY <1>2, <2>3, Zenon DEF ChainFacts
  <2>5. HistoryOf(t)' = Chain'[i]
    BY <1>2, <2>2, Zenon DEF HistoryFacts
  <2>. QED
    BY <2>1, <2>4, <2>5, Zenon
<1>6. ASSUME NEW t \in Tables \ T PROVE HistoryOf(t)' = HistoryOf(t)
  <2>1. OldId(t)' = OldId(t) /\ OldId(t) \in K \cup {0}
    BY <1>1, <1>2, <1>3 DEF RowFacts
  <2>. QED
    BY <1>4, <2>1, Zenon
<1>. QED
  BY <1>5, <1>6, Zenon

(* Rows that are not written keep every history. *)
LEMMA RowsKept ==
    ASSUME RowInv, UNCHANGED rows, RowInv'
    PROVE  \A t \in Tables : HistoryOf(t)' = HistoryOf(t)
<1>1. \A t \in Tables : OldId(t)' = OldId(t) /\ OldId(t) \in DOMAIN rows \cup {0}
  <2>1. RowFacts
    BY CurrentRow
  <2>2. \A t \in Tables : OldId(t)' = OldId(t)
    BY DEF OldId, CurrentIds
  <2>. QED
    BY <2>1, <2>2 DEF RowFacts
<1>2. \A j \in DOMAIN rows : rows[j].prev # 0 => rows[j].prev \in DOMAIN rows
  BY DEF RowInv, ChainInv
<1>. QED
  BY <1>1, <1>2, HistoryKept

-----------------------------------------------------------------------------
(* Every step is a step of the contract.                                   *)

(* Pruning by statement is the contract's pruning. *)
LEMMA ObsoleteIsPruned ==
    ASSUME StoreInv, NEW T \in SUBSET Tables, NEW r \in [T -> Snapshots]
    PROVE  WithoutObsolete(r) =
             [t \in Tables |-> IF t \in DOMAIN r THEN Contract!Prune(dbSchemas[t], r[t])
                              ELSE dbSchemas[t]]
<1>1. ASSUME NEW S, NEW b PROVE Contract!Prune(S, b) = Prune(S, b)
  BY DEF Contract!Prune, Prune, Contract!GetAtOrBefore, GetAtOrBefore, Contract!AtOrBefore,
     AtOrBefore, Contract!NoSnapshot, NoSnapshot
<1>2. ASSUME NEW t \in T
      PROVE  {s \in dbSchemas[t] :
                 ~ (t \in DOMAIN r /\ \E u \in dbSchemas[t] : s < u /\ u <= r[t])}
               = Contract!Prune(dbSchemas[t], r[t])
  <2>1. Bounded(dbSchemas[t]) /\ r[t] \in Nat /\ t \in DOMAIN r
    BY DEF StoreInv, SchemaInv
  <2>2. PICK S : S = dbSchemas[t]
    OBVIOUS
  <2>3. PICK b \in Nat : b = r[t]
    BY <2>1
  <2>4. Prune(S, b) = {s \in S : ~ \E u \in S : s < u /\ u <= b}
    <3>1. Bounded(S)
      BY <2>1, <2>2, Zenon
    <3>. QED
      BY <3>1, Pruned
  <2>5. Contract!Prune(dbSchemas[t], r[t]) = Prune(S, b)
    BY <1>1, <2>2, <2>3
  <2>. QED
    BY <2>1, <2>2, <2>3, <2>4, <2>5
<1>3. ASSUME NEW t \in Tables, t \notin T
      PROVE  {s \in dbSchemas[t] :
                 ~ (t \in DOMAIN r /\ \E u \in dbSchemas[t] : s < u /\ u <= r[t])}
               = dbSchemas[t]
  BY <1>3
<1>4. DOMAIN r = T
  OBVIOUS
<1>. QED
  BY <1>2, <1>3, <1>4 DEF WithoutObsolete

(* A step that writes no row, checkpoint, metadata or schema is a stutter. *)
LEMMA StutterRefines ==
    ASSUME StoreInv, StoreInv', UNCHANGED dbVars
    PROVE  UNCHANGED Contract!storeVars
<1>1. \A t \in Tables : HistoryOf(t)' = HistoryOf(t)
  BY RowsKept DEF dbVars, StoreInv
<1>. QED
  BY <1>1 DEF dbVars, Contract!storeVars

(* An update of several tables, or of all of them. *)
LEMMA UpdateRefines ==
    ASSUME StoreInv, NEW T \in SUBSET Tables, NEW u \in [T -> States], NEW order \in Orders(T),
           lastId + Cardinality(T) <= MaxRows, lastId' = lastId + Cardinality(T),
           rows' = InsertRows(u, order)
    PROVE  /\ \A t \in T : HistoryOf(t)' = Append(HistoryOf(t), u[t])
           /\ \A t \in Tables \ T : HistoryOf(t)' = HistoryOf(t)
<1>1. PICK n : n = Cardinality(T)
  OBVIOUS
<1>2. /\ n \in Nat /\ order \in [T -> 1..n] /\ \A t, v \in T : t # v => order[t] # order[v]
      /\ lastId + n <= MaxRows /\ lastId' = lastId + n
  BY <1>1, OrderFacts
<1>3. RowInv
  BY DEF StoreInv
<1>. QED
  BY <1>2, <1>3, InsertHistory, Zenon

(* Every operation is the contract's, or a stutter. *)
LEMMA StepRefines ==
    ASSUME StoreInv, [Next]_vars
    PROVE  [Contract!Next]_(Contract!storeVars)
<1>. USE DEF Contract!Next, Contract!Workers, Workers, Contract!ApplyWorker, ApplyWorker
<1>inv. StoreInv' /\ RowInv /\ RowInv'
  BY NextStore DEF StoreInv
<1>0. CASE UNCHANGED vars
  BY <1>0, <1>inv, StutterRefines DEF vars
<1>1. ASSUME NEW P \in SUBSET Tables, Load(P) PROVE UNCHANGED Contract!storeVars
  BY <1>1, <1>inv, StutterRefines DEF Load
<1>2. ASSUME NEW t \in Tables, InitializeTable(t) PROVE Contract!Next
  <2>. DEFINE w == [x \in {t} |-> InitState]
  <2>1. PICK T \in SUBSET Tables : T = {t}
    OBVIOUS
  <2>2. PICK u \in [T -> States] : u = w
    BY <2>1
  <2>3. PICK order : order = [x \in {t} |-> 1]
    OBVIOUS
  <2>4. order \in [T -> 1..1] /\ \A v, x \in T : v # x => order[v] # order[x]
    <3>1. 1 \in 1..1
      OBVIOUS
    <3>. QED
      BY <2>1, <2>3, <3>1
  <2>5. /\ lastId < MaxRows /\ rows' = InsertRows(u, order) /\ lastId' = lastId + 1
        /\ UNCHANGED <<checkpoints, dbMetas, dbSchemas>>
    BY <1>2, <2>2, <2>3, Zenon DEF InitializeTable
  <2>6. lastId + 1 <= MaxRows /\ 1 \in Nat
    BY <1>inv, <2>5 DEF RowInv, RowTypes
  <2>7. T \in (SUBSET Tables) \ {{}}
    BY <2>1
  <2>8. /\ \A v \in T : HistoryOf(v)' = Append(HistoryOf(v), u[v])
        /\ \A v \in Tables \ T : HistoryOf(v)' = HistoryOf(v)
    BY <1>inv, <2>4, <2>5, <2>6, InsertHistory, Zenon
  <2>9. Contract!UpdateTableStates(u)
    <3>1. DOMAIN u = T
      OBVIOUS
    <3>2. \A v \in Tables : HistoryOf(v)' = IF v \in DOMAIN u THEN Append(HistoryOf(v), u[v])
                                            ELSE HistoryOf(v)
      BY <2>8, <3>1, Zenon
    <3>. QED
      BY <2>5, <3>2, Zenon DEF Contract!UpdateTableStates
  <2>. QED
    BY <2>7, <2>9
<1>3. ASSUME NEW t \in Tables, DeleteTableState(t) PROVE Contract!Next
  <2>1. PICK T \in SUBSET Tables : T = {t}
    OBVIOUS
  <2>2. /\ rows' = DeleteRows(T) /\ lastId' = lastId
        /\ dbMetas' = [dbMetas EXCEPT ![t] = Absent] /\ dbSchemas' = [dbSchemas EXCEPT ![t] = {}]
        /\ checkpoints' = [checkpoints EXCEPT ![t] = Absent]
    BY <1>3, <2>1 DEF DeleteTableState, WithoutMetadata, WithoutSchemas, WithoutCheckpoint
  <2>3. /\ \A v \in T : HistoryOf(v)' = <<>>
        /\ \A v \in Tables \ T : HistoryOf(v)' = HistoryOf(v)
    BY <1>inv, <2>2, DeleteHistory, Zenon
  <2>4. PICK h : h = <<>>
    BY Zenon
  <2>5. HistoryOf(t)' = h /\ \A v \in Tables : v # t => HistoryOf(v)' = HistoryOf(v)
    BY <2>1, <2>3, <2>4, Zenon
  <2>6. [v \in Tables |-> HistoryOf(v)'] = [[v \in Tables |-> HistoryOf(v)] EXCEPT ![t] = h]
    BY <2>5
  <2>7. Contract!DeleteTableState(t)
    BY <2>2, <2>4, <2>6, Zenon DEF Contract!DeleteTableState
  <2>. QED
    BY <2>7
<1>4. CASE Started
  BY <1>4, <1>inv, StutterRefines DEF Started
<1>5. CASE Crash
  BY <1>5, <1>inv, StutterRefines DEF Crash
<1>6. ASSUME NEW T \in SUBSET Tables, NEW u \in [T -> States], UpdateTableStates(u)
      PROVE  Contract!Next
  <2>1. DOMAIN u = T
    OBVIOUS
  <2>2. /\ UNCHANGED <<checkpoints, dbMetas, dbSchemas>> /\ T # {}
        /\ lastId + Cardinality(T) <= MaxRows /\ lastId' = lastId + Cardinality(T)
    BY <1>6, <2>1 DEF UpdateTableStates
  <2>3. PICK order \in Orders(T) : rows' = InsertRows(u, order)
    BY <1>6, <2>1 DEF UpdateTableStates
  <2>4. /\ \A t \in T : HistoryOf(t)' = Append(HistoryOf(t), u[t])
        /\ \A t \in Tables \ T : HistoryOf(t)' = HistoryOf(t)
    BY <2>2, <2>3, UpdateRefines, Zenon
  <2>5. Contract!UpdateTableStates(u)
    <3>1. \A t \in Tables : HistoryOf(t)' = IF t \in DOMAIN u THEN Append(HistoryOf(t), u[t])
                                            ELSE HistoryOf(t)
      BY <2>1, <2>4, Zenon
    <3>. QED
      BY <2>2, <3>1, Zenon DEF Contract!UpdateTableStates
  <2>6. T \in (SUBSET Tables) \ {{}}
    BY <2>2
  <2>. QED
    BY <2>5, <2>6
<1>7. ASSUME NEW t \in Tables, RollbackTableState(t) PROVE Contract!Next
  <2>1. PICK i \in CurrentIds(t) : rows[i].prev # 0 /\ rows' = RollbackRows(t)
    BY <1>7 DEF RollbackTableState
  <2>2. UNCHANGED <<lastId, checkpoints, dbMetas, dbSchemas>>
    BY <1>7 DEF RollbackTableState
  <2>3. /\ Len(HistoryOf(t)) > 1
        /\ HistoryOf(t)' = SubSeq(HistoryOf(t), 1, Len(HistoryOf(t)) - 1)
        /\ \A v \in Tables \ {t} : HistoryOf(v)' = HistoryOf(v)
    BY <1>inv, <2>1, <2>2, RollbackHistory, Zenon
  <2>4. PICK h : h = SubSeq(HistoryOf(t), 1, Len(HistoryOf(t)) - 1)
    BY Zenon
  <2>5. HistoryOf(t)' = h /\ \A v \in Tables : v # t => HistoryOf(v)' = HistoryOf(v)
    BY <2>3, <2>4, Zenon
  <2>6. [v \in Tables |-> HistoryOf(v)'] = [[v \in Tables |-> HistoryOf(v)] EXCEPT ![t] = h]
    BY <2>5
  <2>7. Contract!RollbackTableState(t)
    BY <2>2, <2>3, <2>4, <2>6, Zenon DEF Contract!RollbackTableState
  <2>. QED
    BY <2>7
<1>8. ASSUME NEW w \in Workers, NEW l \in Lsns, UpsertCheckpoint(w, l) PROVE Contract!Next
  <2>1. \A v \in Tables : HistoryOf(v)' = HistoryOf(v)
    BY <1>8, <1>inv, RowsKept DEF UpsertCheckpoint
  <2>2. Contract!UpsertCheckpoint(w, l)
    BY <1>8, <2>1 DEF UpsertCheckpoint, UpsertedCheckpoint, Contract!UpsertCheckpoint
  <2>. QED
    BY <2>2
<1>9. ASSUME NEW w \in Workers, DeleteCheckpoint(w) PROVE Contract!Next
  <2>1. \A v \in Tables : HistoryOf(v)' = HistoryOf(v)
    BY <1>9, <1>inv, RowsKept DEF DeleteCheckpoint
  <2>2. Contract!DeleteCheckpoint(w)
    BY <1>9, <2>1 DEF DeleteCheckpoint, WithoutCheckpoint, Contract!DeleteCheckpoint
  <2>. QED
    BY <2>2
<1>10. ASSUME NEW t \in Tables, NEW meta \in Metas, StoreMetadata(t, meta) PROVE Contract!Next
  <2>1. \A v \in Tables : HistoryOf(v)' = HistoryOf(v)
    BY <1>10, <1>inv, RowsKept DEF StoreMetadata
  <2>2. Contract!StoreMetadata(t, meta)
    BY <1>10, <2>1 DEF StoreMetadata, WithMetadata, Contract!StoreMetadata
  <2>. QED
    BY <2>2
<1>11. ASSUME NEW t \in Tables, NEW s \in Snapshots, StoreSchema(t, s) PROVE Contract!Next
  <2>1. \A v \in Tables : HistoryOf(v)' = HistoryOf(v)
    BY <1>11, <1>inv, RowsKept DEF StoreSchema
  <2>2. Contract!StoreSchema(t, s)
    BY <1>11, <2>1 DEF StoreSchema, WithSchema, Contract!StoreSchema
  <2>. QED
    BY <2>2
<1>12. ASSUME NEW t \in Tables, NEW s \in Snapshots, GetTableSchema(t, s)
       PROVE  UNCHANGED Contract!storeVars
  BY <1>12, <1>inv, StutterRefines DEF GetTableSchema
<1>13. ASSUME NEW T \in (SUBSET Tables) \ {{}}, NEW r \in [T -> Snapshots], PruneSchemas(r)
       PROVE  Contract!Next
  <2>1. T \in SUBSET Tables
    OBVIOUS
  <2>2. \A v \in Tables : HistoryOf(v)' = HistoryOf(v)
    BY <1>13, <1>inv, RowsKept DEF PruneSchemas
  <2>3. Contract!PruneSchemas(r)
    <3>1. dbSchemas' = [t \in Tables |-> IF t \in DOMAIN r THEN Contract!Prune(dbSchemas[t], r[t])
                                       ELSE dbSchemas[t]]
      <4>1. dbSchemas' = WithoutObsolete(r)
        BY <1>13 DEF PruneSchemas
      <4>. QED
        BY <2>1, <4>1, ObsoleteIsPruned, Zenon
    <3>2. UNCHANGED <<checkpoints, dbMetas>>
      BY <1>13 DEF PruneSchemas
    <3>. QED
      BY <2>2, <3>1, <3>2 DEF Contract!PruneSchemas
  <2>. QED
    BY <2>1, <2>3
<1>14. ASSUME NEW t \in Tables, PrepareForCopy(t) PROVE Contract!Next
  <2>1. \A v \in Tables : HistoryOf(v)' = HistoryOf(v)
    BY <1>14, <1>inv, RowsKept DEF PrepareForCopy
  <2>2. Contract!PrepareForCopy(t)
    BY <1>14, <2>1 DEF PrepareForCopy, WithoutMetadata, WithoutSchemas, WithoutCheckpoint,
       Contract!PrepareForCopy
  <2>. QED
    BY <2>2
<1>15. CASE ResetForResync
  <2>1. PICK T \in SUBSET Tables : T = Listed
    BY DEF Listed
  <2>2. PICK u \in [T -> States] : u = [t \in Listed |-> InitState]
    BY <2>1
  <2>3. /\ phase = "running" /\ UNCHANGED <<dbMetas, dbSchemas>>
        /\ lastId + Cardinality(T) <= MaxRows /\ lastId' = lastId + Cardinality(T)
        /\ checkpoints' = [checkpoints EXCEPT ![ApplyWorker] = Absent]
    BY <1>15, <2>1 DEF ResetForResync, Running, WithoutCheckpoint
  <2>4. PICK order \in Orders(T) : rows' = InsertRows(u, order)
    BY <1>15, <2>1, <2>2 DEF ResetForResync
  <2>5. /\ \A t \in T : HistoryOf(t)' = Append(HistoryOf(t), u[t])
        /\ \A t \in Tables \ T : HistoryOf(t)' = HistoryOf(t)
    BY <2>3, <2>4, UpdateRefines, Zenon
  <2>6. T = Stored /\ \A t \in T : u[t] = InitState
    BY <2>1, <2>2, <2>3 DEF StoreInv, CoherentInv
  <2>7. HistoryFacts
    BY <1>inv, HistoryIsChain
  <2>8. \A t \in Tables : HistoryOf(t) # <<>> <=> t \in T
    BY <2>6, <2>7, Zenon DEF HistoryFacts
  <2>9. \A t \in Tables : t \in Contract!Known <=> t \in T
    BY <2>8, Zenon DEF Contract!Known
  <2>10. \A t \in Tables : HistoryOf(t)' =
            IF t \in Contract!Known THEN Append(HistoryOf(t), InitState) ELSE HistoryOf(t)
    BY <2>5, <2>6, <2>9, Zenon
  <2>11. Contract!ResetForResync
    BY <2>3, <2>10, Zenon DEF Contract!ResetForResync
  <2>. QED
    BY <2>11
<1>16. ASSUME NEW T \in SUBSET Tables, ReplaceTableStates(T) PROVE Contract!Next
  <2>1. /\ T \subseteq Stored /\ lastId + Cardinality(T) <= MaxRows
        /\ lastId' = lastId + Cardinality(T) /\ UNCHANGED <<checkpoints, dbMetas, dbSchemas>>
    BY <1>16 DEF ReplaceTableStates
  <2>2. PICK order \in Orders(T) : rows' = ReplaceRows(T, order)
    BY <1>16 DEF ReplaceTableStates
  <2>3. PICK n : n = Cardinality(T)
    OBVIOUS
  <2>4. /\ n \in Nat /\ order \in [T -> 1..n] /\ \A t, v \in T : t # v => order[t] # order[v]
        /\ lastId + n <= MaxRows /\ lastId' = lastId + n
    BY <2>1, <2>3, OrderFacts
  <2>5. /\ \A t \in T : HistoryOf(t)' = <<InitState>>
        /\ \A t \in Tables \ T : HistoryOf(t)' = HistoryOf(t)
    BY <1>inv, <2>1, <2>2, <2>4, ReplaceHistory, Zenon
  <2>6. HistoryFacts
    BY <1>inv, HistoryIsChain
  <2>7. T \subseteq Contract!Known
    BY <2>1, <2>6, Zenon DEF HistoryFacts, Contract!Known
  <2>8. Contract!ReplaceTableStates(T)
    BY <2>1, <2>5, Zenon DEF Contract!ReplaceTableStates
  <2>. QED
    BY <2>7, <2>8
<1>. QED
  BY <1>0, <1>1, <1>2, <1>3, <1>4, <1>5, <1>6, <1>7, <1>8, <1>9, <1>10, <1>11, <1>12, <1>13,
     <1>14, <1>15, <1>16 DEF Next

(* The Postgres store implements the contract of the store traits on what  *)
(* it persists: each call of crates/etl/src/store/both/postgres.rs has     *)
(* the effect the contract gives it whether or not its cache update is     *)
(* lost; a rollback restores exactly the state the last update replaced,   *)
(* a reset, which ranges over the cache, reaches every stored table, the   *)
(* pruning statement removes what the cache prunes, and starts, lookups    *)
(* and crashes change nothing that is stored.                              *)
THEOREM PostgresStoreImplements == Spec => ImplementsContract
<1>1. Init => Contract!Init
  <2>. SUFFICES ASSUME Init PROVE Contract!Init
    OBVIOUS
  <2>1. RowInv
    BY InitStore DEF StoreInv
  <2>2. HistoryFacts
    BY <2>1, HistoryIsChain
  <2>3. Stored = {}
    <3>1. DOMAIN rows = {}
      BY DEF Init
    <3>. QED
      BY <3>1, Zenon DEF Stored, CurrentIds
  <2>4. \A t \in Tables : HistoryOf(t) = <<>>
    BY <2>2, <2>3, Zenon DEF HistoryFacts
  <2>. QED
    BY <2>4 DEF Init, Contract!Init, Contract!Workers, Workers, Contract!ApplyWorker, ApplyWorker
<1>2. StoreInv /\ [Next]_vars => [Contract!Next]_(Contract!storeVars)
  BY StepRefines
<1>. QED
  BY <1>1, <1>2, StoreInvariance, PTL DEF Spec, ImplementsContract, Contract!Spec

================================================================================
