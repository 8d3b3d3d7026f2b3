--------------------------- MODULE MemoryStoreProofs ---------------------------
(***************************************************************************)
(* TLAPS proof that MemoryStore implements PipelineStore, for any tables,  *)
(* states, positions, snapshots and length of the histories.               *)
(***************************************************************************)
EXTENDS MemoryStore, TLAPS

(* A state is not the mark for no state, and Init is a state. *)
StatesAreStates == InitState \in States /\ Absent \notin States

(* A table without a current state has no history either. *)
MemoryInv ==
    /\ tableStates \in [Tables -> States \cup {Absent}]
    /\ stateHistory \in [Tables -> Seq(States)]
    /\ \A t \in Tables : tableStates[t] = Absent => stateHistory[t] = <<>>

(* The abstract history: what was pushed, then the current state. *)
HistoryOf(t) ==
    IF tableStates[t] = Absent THEN stateHistory[t]
    ELSE Append(stateHistory[t], tableStates[t])

-----------------------------------------------------------------------------
(* Facts about sequences.                                                  *)

(* Pushing a state and popping it again. *)
LEMMA PushPop ==
    ASSUME NEW S, NEW s \in Seq(S), NEW x \in S
    PROVE  /\ Append(s, x) \in Seq(S) /\ Append(s, x) # <<>>
           /\ Len(Append(s, x)) = Len(s) + 1
           /\ SubSeq(Append(s, x), 1, Len(Append(s, x)) - 1) = s
OBVIOUS

(* A nonempty sequence is its front and its last element. *)
LEMMA FrontLast ==
    ASSUME NEW S, NEW s \in Seq(S), s # <<>>
    PROVE  /\ s[Len(s)] \in S /\ SubSeq(s, 1, Len(s) - 1) \in Seq(S)
           /\ Len(s) > 0
           /\ Append(SubSeq(s, 1, Len(s) - 1), s[Len(s)]) = s
OBVIOUS

-----------------------------------------------------------------------------
(* The invariant.                                                          *)

(* An empty store has no histories. *)
LEMMA InitMemory == Init => MemoryInv
BY DEF Init, MemoryInv

(* Setting the states of some tables appends to their histories. *)
LEMMA SetStatesFacts ==
    ASSUME StatesAreStates, MemoryInv, NEW T \in SUBSET Tables, NEW u \in [T -> States],
           SetStates(u)
    PROVE  /\ MemoryInv'
           /\ \A t \in T : HistoryOf(t)' = Append(HistoryOf(t), u[t])
           /\ \A t \in Tables \ T : HistoryOf(t)' = HistoryOf(t)
<1>1. DOMAIN u = T
  OBVIOUS
<1>2. ASSUME NEW t \in T
      PROVE  /\ tableStates'[t] = u[t] /\ u[t] \in States /\ u[t] # Absent
             /\ stateHistory'[t] = HistoryOf(t) /\ HistoryOf(t) \in Seq(States)
  BY <1>1, <1>2 DEF SetStates, Listed, HistoryOf, StatesAreStates, MemoryInv
<1>3. ASSUME NEW t \in Tables \ T
      PROVE  tableStates'[t] = tableStates[t] /\ stateHistory'[t] = stateHistory[t]
  BY <1>1, <1>3 DEF SetStates
<1>4. MemoryInv'
  <2>1. tableStates' \in [Tables -> States \cup {Absent}]
    BY <1>1 DEF SetStates, MemoryInv
  <2>2. stateHistory' \in [Tables -> Seq(States)]
    <3>1. \A t \in Tables : stateHistory'[t] \in Seq(States)
      BY <1>2, <1>3 DEF MemoryInv
    <3>. QED
      BY <3>1 DEF SetStates
  <2>3. \A t \in Tables : tableStates'[t] = Absent => stateHistory'[t] = <<>>
    BY <1>2, <1>3 DEF MemoryInv
  <2>. QED
    BY <2>1, <2>2, <2>3 DEF MemoryInv
<1>5. ASSUME NEW t \in T PROVE HistoryOf(t)' = Append(HistoryOf(t), u[t])
  <2>1. HistoryOf(t)' = Append(stateHistory'[t], tableStates'[t])
    BY <1>2, Zenon DEF HistoryOf
  <2>. QED
    BY <1>2, <2>1, Zenon
<1>. QED
  BY <1>3, <1>4, <1>5 DEF HistoryOf

(* A rollback pops the history to the state before. *)
LEMMA RollbackFacts ==
    ASSUME StatesAreStates, MemoryInv, NEW t \in Tables, RollbackTableState(t)
    PROVE  /\ MemoryInv'
           /\ Len(HistoryOf(t)) > 1
           /\ HistoryOf(t)' = SubSeq(HistoryOf(t), 1, Len(HistoryOf(t)) - 1)
           /\ \A u \in Tables : u # t => HistoryOf(u)' = HistoryOf(u)
<1>. DEFINE s == stateHistory[t]
<1>1. /\ s \in Seq(States) /\ s # <<>> /\ tableStates[t] \in States
      /\ tableStates[t] # Absent
  BY DEF RollbackTableState, MemoryInv
<1>2. /\ s[Len(s)] \in States /\ SubSeq(s, 1, Len(s) - 1) \in Seq(States) /\ Len(s) > 0
      /\ Append(SubSeq(s, 1, Len(s) - 1), s[Len(s)]) = s
  BY <1>1, FrontLast
<1>3. /\ tableStates' = [tableStates EXCEPT ![t] = s[Len(s)]]
      /\ stateHistory' = [stateHistory EXCEPT ![t] = SubSeq(s, 1, Len(s) - 1)]
  BY DEF RollbackTableState
<1>4. MemoryInv'
  <2>1. tableStates' \in [Tables -> States \cup {Absent}]
    BY <1>2, <1>3 DEF MemoryInv
  <2>2. stateHistory' \in [Tables -> Seq(States)]
    BY <1>2, <1>3 DEF MemoryInv
  <2>3. \A u \in Tables : tableStates'[u] = Absent => stateHistory'[u] = <<>>
    BY <1>2, <1>3 DEF MemoryInv, StatesAreStates
  <2>. QED
    BY <2>1, <2>2, <2>3 DEF MemoryInv
<1>5. HistoryOf(t) = Append(s, tableStates[t])
  BY <1>1 DEF HistoryOf
<1>6. HistoryOf(t)' = s
  <2>1. tableStates'[t] = s[Len(s)] /\ stateHistory'[t] = SubSeq(s, 1, Len(s) - 1)
    BY <1>3 DEF MemoryInv
  <2>2. s[Len(s)] # Absent
    BY <1>2 DEF StatesAreStates
  <2>. QED
    BY <1>2, <2>1, <2>2 DEF HistoryOf
<1>7. \A u \in Tables : u # t => HistoryOf(u)' = HistoryOf(u)
  BY <1>3 DEF HistoryOf, MemoryInv
<1>8. Len(HistoryOf(t)) > 1 /\ s = SubSeq(HistoryOf(t), 1, Len(HistoryOf(t)) - 1)
  <2>. HIDE DEF s
  <2>1. Len(s) \in Nat
    BY <1>1
  <2>. QED
    BY <1>1, <1>2, <1>5, <2>1, PushPop
<1>. QED
  BY <1>4, <1>6, <1>7, <1>8

-----------------------------------------------------------------------------
(* Every step is a step of the contract.                                   *)

(* A table is known to the contract when the store lists it. *)
LEMMA KnownIsListed ==
    ASSUME StatesAreStates, MemoryInv
    PROVE  \A t \in Tables : HistoryOf(t) # <<>> <=> t \in Listed
<1>. SUFFICES ASSUME NEW t \in Tables PROVE HistoryOf(t) # <<>> <=> t \in Listed
  OBVIOUS
<1>1. CASE tableStates[t] = Absent
  BY <1>1 DEF HistoryOf, Listed, MemoryInv
<1>2. CASE tableStates[t] # Absent
  <2>1. stateHistory[t] \in Seq(States) /\ tableStates[t] \in States
    BY <1>2 DEF MemoryInv
  <2>. QED
    BY <1>2, <2>1, PushPop DEF HistoryOf, Listed
<1>. QED
  BY <1>1, <1>2

(* Pruning is the same in both modules. *)
LEMMA SamePrune ==
    \A snapshots, retention :
        Contract!Prune(snapshots, retention) = Prune(snapshots, retention)
BY DEF Contract!Prune, Prune, Contract!GetAtOrBefore, GetAtOrBefore, Contract!AtOrBefore,
   AtOrBefore, Contract!NoSnapshot, NoSnapshot

(* Operations that leave the states alone leave the abstract history alone. *)
LEMMA HistoryKept ==
    ASSUME MemoryInv, UNCHANGED <<tableStates, stateHistory>>
    PROVE  MemoryInv' /\ \A t \in Tables : HistoryOf(t)' = HistoryOf(t)
BY DEF MemoryInv, HistoryOf

(* Every operation preserves the invariant and is the contract's. *)
LEMMA StepRefines ==
    ASSUME StatesAreStates, MemoryInv, [Next]_vars
    PROVE  MemoryInv' /\ [Contract!Next]_(Contract!storeVars)
<1>. USE DEF HistoryOf, Contract!Next, Contract!Workers, Workers, Contract!ApplyWorker, ApplyWorker
<1>0. CASE UNCHANGED vars
  BY <1>0, HistoryKept DEF vars, Contract!storeVars
<1>1. ASSUME NEW T \in (SUBSET Tables) \ {{}}, NEW u \in [T -> States], UpdateTableStates(u)
      PROVE  MemoryInv' /\ Contract!Next
  <2>1. T \in SUBSET Tables /\ DOMAIN u = T /\ SetStates(u)
        /\ UNCHANGED <<checkpoints, metadata, schemas>>
    BY <1>1 DEF UpdateTableStates
  <2>2. MemoryInv'
    BY <2>1, SetStatesFacts
  <2>3. Contract!UpdateTableStates(u)
    <3>1. \A t \in Tables : HistoryOf(t)' = IF t \in DOMAIN u THEN Append(HistoryOf(t), u[t])
                                            ELSE HistoryOf(t)
      <4>. HIDE DEF HistoryOf
      <4>. QED
        BY <2>1, SetStatesFacts
    <3>. QED
      BY <2>1, <3>1 DEF Contract!UpdateTableStates
  <2>. QED
    BY <1>1, <2>2, <2>3
<1>2. ASSUME NEW t \in Tables, RollbackTableState(t)
      PROVE  MemoryInv' /\ Contract!Next
  <2>1. UNCHANGED <<checkpoints, metadata, schemas>>
    BY <1>2 DEF RollbackTableState
  <2>2. /\ MemoryInv' /\ Len(HistoryOf(t)) > 1
        /\ HistoryOf(t)' = SubSeq(HistoryOf(t), 1, Len(HistoryOf(t)) - 1)
        /\ \A u \in Tables : u # t => HistoryOf(u)' = HistoryOf(u)
    BY <1>2, RollbackFacts
  <2>3. Contract!RollbackTableState(t)
    <3>1. PICK h : h = SubSeq(HistoryOf(t), 1, Len(HistoryOf(t)) - 1)
      BY Zenon
    <3>2. [u \in Tables |-> HistoryOf(u)'] = [[u \in Tables |-> HistoryOf(u)] EXCEPT ![t] = h]
      <4>. HIDE DEF HistoryOf
      <4>1. HistoryOf(t)' = h /\ \A u \in Tables : u # t => HistoryOf(u)' = HistoryOf(u)
        BY <2>2, <3>1, Zenon
      <4>. QED
        BY <4>1
    <3>. QED
      BY <2>1, <2>2, <3>1, <3>2, Zenon DEF Contract!RollbackTableState
  <2>. QED
    BY <2>2, <2>3
<1>3. ASSUME NEW w \in Workers, NEW lsn \in Lsns, UpsertCheckpoint(w, lsn)
      PROVE  MemoryInv' /\ Contract!Next
  <2>1. MemoryInv' /\ \A t \in Tables : HistoryOf(t)' = HistoryOf(t)
    BY <1>3, HistoryKept DEF UpsertCheckpoint
  <2>2. Contract!UpsertCheckpoint(w, lsn)
    BY <1>3, <2>1 DEF UpsertCheckpoint, Contract!UpsertCheckpoint
  <2>. QED
    BY <1>3, <2>1, <2>2
<1>4. ASSUME NEW w \in Workers, DeleteCheckpoint(w)
      PROVE  MemoryInv' /\ Contract!Next
  <2>1. MemoryInv' /\ \A t \in Tables : HistoryOf(t)' = HistoryOf(t)
    BY <1>4, HistoryKept DEF DeleteCheckpoint
  <2>2. Contract!DeleteCheckpoint(w)
    BY <1>4, <2>1 DEF DeleteCheckpoint, Contract!DeleteCheckpoint
  <2>. QED
    BY <1>4, <2>1, <2>2
<1>5. ASSUME NEW t \in Tables, NEW meta \in Metas, StoreMetadata(t, meta)
      PROVE  MemoryInv' /\ Contract!Next
  <2>1. MemoryInv' /\ \A u \in Tables : HistoryOf(u)' = HistoryOf(u)
    BY <1>5, HistoryKept DEF StoreMetadata
  <2>2. Contract!StoreMetadata(t, meta)
    BY <1>5, <2>1 DEF StoreMetadata, Contract!StoreMetadata
  <2>. QED
    BY <1>5, <2>1, <2>2
<1>6. ASSUME NEW t \in Tables, NEW s \in Snapshots, StoreSchema(t, s)
      PROVE  MemoryInv' /\ Contract!Next
  <2>1. MemoryInv' /\ \A u \in Tables : HistoryOf(u)' = HistoryOf(u)
    BY <1>6, HistoryKept DEF StoreSchema
  <2>2. Contract!StoreSchema(t, s)
    BY <1>6, <2>1 DEF StoreSchema, Contract!StoreSchema
  <2>. QED
    BY <1>6, <2>1, <2>2
<1>7. ASSUME NEW T \in (SUBSET Tables) \ {{}}, NEW r \in [T -> Snapshots], PruneSchemas(r)
      PROVE  MemoryInv' /\ Contract!Next
  <2>1. MemoryInv' /\ \A t \in Tables : HistoryOf(t)' = HistoryOf(t)
    BY <1>7, HistoryKept DEF PruneSchemas
  <2>2. Contract!PruneSchemas(r)
    BY <1>7, <2>1, SamePrune DEF PruneSchemas, Contract!PruneSchemas
  <2>. QED
    BY <1>7, <2>1, <2>2
<1>8. ASSUME NEW t \in Tables, PrepareForCopy(t)
      PROVE  MemoryInv' /\ Contract!Next
  <2>1. MemoryInv' /\ \A u \in Tables : HistoryOf(u)' = HistoryOf(u)
    BY <1>8, HistoryKept DEF PrepareForCopy
  <2>2. Contract!PrepareForCopy(t)
    BY <1>8, <2>1 DEF PrepareForCopy, Contract!PrepareForCopy
  <2>. QED
    BY <1>8, <2>1, <2>2
<1>9. ASSUME ResetForResync
      PROVE  MemoryInv' /\ Contract!Next
  <2>. DEFINE u == [t \in Listed |-> InitState]
  <2>1. Listed \in SUBSET Tables /\ u \in [Listed -> States] /\ SetStates(u)
    BY <1>9 DEF ResetForResync, Listed, StatesAreStates
  <2>2. PICK v : v = u /\ v \in [Listed -> States] /\ \A t \in Listed : v[t] = InitState
    BY <2>1
  <2>3. /\ MemoryInv' /\ \A t \in Listed : HistoryOf(t)' = Append(HistoryOf(t), v[t])
        /\ \A t \in Tables \ Listed : HistoryOf(t)' = HistoryOf(t)
    <3>. HIDE DEF u, HistoryOf
    <3>. QED
      BY <2>1, <2>2, SetStatesFacts
  <2>4. \A t \in Tables : HistoryOf(t)' =
           IF HistoryOf(t) # <<>> THEN Append(HistoryOf(t), InitState) ELSE HistoryOf(t)
    <3>. HIDE DEF u, HistoryOf
    <3>. QED
      BY <2>2, <2>3, KnownIsListed
  <2>5. Contract!ResetForResync
    BY <1>9, <2>4 DEF ResetForResync, Contract!ResetForResync, Contract!Known
  <2>. QED
    BY <2>3, <2>5
<1>10. ASSUME NEW t \in Tables, DeleteTableState(t)
       PROVE  MemoryInv' /\ Contract!Next
  <2>1. MemoryInv'
    BY <1>10 DEF DeleteTableState, MemoryInv
  <2>2. HistoryOf(t)' = <<>> /\ \A u \in Tables : u # t => HistoryOf(u)' = HistoryOf(u)
    BY <1>10 DEF DeleteTableState, MemoryInv
  <2>3. Contract!DeleteTableState(t)
    <3>1. PICK h : h = <<>>
      OBVIOUS
    <3>2. [u \in Tables |-> HistoryOf(u)'] = [[u \in Tables |-> HistoryOf(u)] EXCEPT ![t] = h]
      <4>. HIDE DEF HistoryOf
      <4>1. HistoryOf(t)' = h /\ \A u \in Tables : u # t => HistoryOf(u)' = HistoryOf(u)
        BY <2>2, <3>1, Zenon
      <4>. QED
        BY <4>1
    <3>3. /\ metadata' = [metadata EXCEPT ![t] = Absent]
          /\ schemas' = [schemas EXCEPT ![t] = {}]
          /\ checkpoints' = [checkpoints EXCEPT ![t] = Absent]
      BY <1>10, Zenon DEF DeleteTableState
    <3>. QED
      BY <3>1, <3>2, <3>3, Zenon DEF Contract!DeleteTableState
  <2>. QED
    BY <1>10, <2>1, <2>3
<1>. QED
  BY <1>0, <1>1, <1>2, <1>3, <1>4, <1>5, <1>6, <1>7, <1>8, <1>9, <1>10 DEF Next

-----------------------------------------------------------------------------
(* The in-memory store implements the contract of the store traits: every  *)
(* operation, under its one mutex, has exactly the effect the contract     *)
(* gives it, histories, rollbacks and pruning included                     *)
(* (crates/etl/src/store/both/memory.rs).                                  *)
THEOREM MemoryStoreImplements == StatesAreStates => (Spec => ImplementsContract)
<1>. SUFFICES ASSUME StatesAreStates PROVE Spec => ImplementsContract
  OBVIOUS
<1>1. Init => Contract!Init
  BY DEF Init, Contract!Init, Contract!Workers, Workers, Contract!ApplyWorker, ApplyWorker
<1>2. MemoryInv /\ [Next]_vars => MemoryInv' /\ [Contract!Next]_(Contract!storeVars)
  BY StepRefines
<1>. QED
  BY <1>1, <1>2, InitMemory, PTL DEF Spec, ImplementsContract, Contract!Spec

================================================================================
