------------------------- MODULE TableHandoffProofs -------------------------
(***************************************************************************)
(* TLAPS proofs about TableHandoff, for every set of tables, every number  *)
(* and content of the transactions and every choice of the faults.         *)
(***************************************************************************)
EXTENDS TableHandoff, FiniteSetTheorems, TLAPS

USE DEF NoLsn

----------------------------------------------------------------------------
(* The inductive invariant.                                                *)

Copying == {"Init", "DataSync", "FinishedCopy"}
Handed == {"SyncDone", "Ready"}

HookKinds == {"none", "commit", "quiescent", "flush"}

WorkerType == [phase : Permitted \cup {"none", "permit", "retry"}, mem : States,
               snap : Lsn \cup {NoLsn}, pos : 0 .. NumTx + 1,
               attempts : 0 .. MaxAttempts]

HookType == [kind : HookKinds, lsn : Lsn \cup {NoLsn},
             todo : UNION {[S -> Durable] : S \in SUBSET Tables},
             ckpt : Lsn \cup {NoLsn}, waitOn : Tables \cup {NoTable}]

\* What TypeOK says of single fields, said of the whole records.
HandoffTypes ==
    /\ walEnd \in 0 .. NumTx
    /\ store \in [Tables -> Durable] /\ prev \in [Tables -> Durable]
    /\ checkpoint \in Lsn /\ confirmed \in Lsn
    /\ received \in Lsn /\ flushed \in Lsn
    /\ apc \in {"stream", "hook", "wait", "persist", "failed"}
    /\ cur \in [tx : 1 .. NumTx + 1, k : Nat]
    /\ cur.k \in 0 .. IF cur.tx \in Tx THEN CommitK(cur.tx) ELSE 0
    /\ batch \subseteq Messages /\ byApply \subseteq Messages
    /\ hook \in HookType
    /\ relSent \subseteq Tables /\ decoder \subseteq Tables
    /\ worker \in [Tables -> WorkerType]
    /\ byCopy \in [Tables -> SUBSET Tx] /\ bySync \in [Tables -> SUBSET Tx]

\* The apply stream stands between two commit records, and no position that a
\* restart could start from is ahead of what it has read.
StreamInv ==
    /\ 2 * cur.tx - 2 <= received /\ received <= CommitLsn(cur.tx)
    /\ checkpoint <= received /\ confirmed <= received /\ flushed <= received
    /\ hook.ckpt <= checkpoint
    /\ apc \in {"hook", "wait"} /\ hook.kind # "flush" =>
          cur.k = 0 /\ hook.lsn = received
    /\ hook.kind = "flush" => hook.lsn <= flushed
    /\ apc = "persist" => hook.kind = "flush"
    /\ apc = "wait" => hook.kind # "flush" /\ hook.waitOn \in Tables
    /\ apc # "wait" => hook.waitOn = NoTable
    /\ apc = "stream" => DOMAIN hook.todo = {}

\* What is still buffered is not behind any position a restart starts from;
\* the last commit record of the batch is that of the last transaction read.
BatchInv ==
    \A m \in batch :
        /\ CommitLsn(m[1]) >= checkpoint /\ CommitLsn(m[1]) >= confirmed
        /\ CommitLsn(m[1]) >= flushed
        /\ m[2] = CommitK(m[1]) =>
              /\ m[1] < cur.tx
              /\ <<cur.tx - 1, CommitK(cur.tx - 1)>> \in batch

\* How the phase of a worker ties its published state to the stored one.
PhaseInv(tb) ==
    LET w == worker[tb] IN
    /\ w.phase \in {"permit", "check"} =>
          w.mem = store[tb] /\ w.mem.type \in Copying \cup {"Errored"}
    /\ w.phase = "dropped" => w.mem = store[tb] /\ w.mem.type \in Copying
    /\ w.phase \in {"slot", "copying"} =>
          w.mem = store[tb] /\ w.mem.type = "DataSync"
    /\ w.phase \in {"copying", "syncwait", "stream"} => w.snap \in Lsn
    /\ w.phase = "syncwait" =>
          /\ store[tb].type = "FinishedCopy"
          /\ w.mem.type \in {"SyncWait", "Catchup"} /\ w.mem.lsn >= w.snap
    /\ w.phase = "stream" =>
          /\ store[tb].type = "FinishedCopy" /\ w.mem.type = "Catchup"
          /\ w.mem.lsn >= 2 * w.pos - 2 /\ w.pos >= StartTx(w.snap)
    /\ w.phase = "ending" => w.mem = store[tb] /\ w.mem.type \in Handed
    /\ w.phase = "retry" =>
          /\ w.mem.type = "Errored" /\ store[tb].type = "Errored"
          /\ prev[tb].type \in Copying \cup {"Errored"}
          /\ w.attempts < MaxAttempts

\* A table catches up only while the apply worker waits for it, to a position
\* that the apply worker has read.
CatchupInv(tb) ==
    worker[tb].mem.type = "Catchup" =>
        apc = "wait" /\ hook.waitOn = tb /\ worker[tb].mem.lsn >= hook.lsn

\* The copy and the catch-up stream brought what was committed before lsn.
Synced(tb, lsn) ==
    byCopy[tb] \cup bySync[tb] = {t \in TxOf(tb) : CommitLsn(t) < lsn}

\* What the apply stream has read of tb from lsn on is buffered or durable.
Applied(tb, lsn) ==
    \A t \in Tx : CommitLsn(t) >= lsn =>
        \A k \in RowsOf(t, tb) :
            t < cur.tx \/ (t = cur.tx /\ k < cur.k) =>
                <<t, k>> \in batch \cup byApply

\* A table list read when the hook started may be stale, but not by much.
TodoInv(tb) ==
    tb \in DOMAIN hook.todo =>
        /\ hook.todo[tb].type = "SyncDone" =>
              /\ Synced(tb, hook.todo[tb].lsn) /\ Applied(tb, hook.todo[tb].lsn)
              /\ worker[tb].phase \in {"none", "ending"}
        /\ hook.todo[tb].type # "SyncDone" /\ hook.waitOn # tb =>
              store[tb].type \in Copying \cup {"Errored"}

\* What the copy and the catch-up stream have brought so far.
DataInv(tb) ==
    LET w == worker[tb] IN
    /\ byCopy[tb] \cap bySync[tb] = {}
    /\ w.phase \in {"dropped", "slot", "copying"} =>
          byCopy[tb] = {} /\ bySync[tb] = {}
    /\ w.phase \in {"syncwait", "stream"} =>
          byCopy[tb] = {t \in TxOf(tb) : CommitLsn(t) < w.snap}
    /\ w.phase = "syncwait" => bySync[tb] = {}
    /\ w.phase = "stream" =>
          bySync[tb] = {t \in TxOf(tb) : CommitLsn(t) >= w.snap /\ t < w.pos}
    /\ store[tb].type \in Handed =>
          Synced(tb, store[tb].lsn) /\ Applied(tb, store[tb].lsn)

\* The table may still be copied (again).
Fresh(tb) == \/ store[tb].type \in Copying
             \/ worker[tb].phase = "retry" /\ prev[tb].type \in Copying

\* The apply worker has touched no table that may still be copied, and no
\* transaction that the copy or the catch-up stream brought.
RowInv(tb) ==
    \A t \in Tx : \A k \in RowsOf(t, tb) :
        <<t, k>> \in batch \cup byApply =>
            ~Fresh(tb) /\ t \notin byCopy[tb] \cup bySync[tb]

\* Ready was reached with a decoder, behind the persisted checkpoint.
ReadyInv(tb) ==
    store[tb].type = "Ready" =>
        /\ store[tb].lsn <= checkpoint
        /\ tb \in relSent => tb \in decoder

TableInv(tb) ==
    /\ PhaseInv(tb) /\ CatchupInv(tb) /\ TodoInv(tb) /\ DataInv(tb)
    /\ RowInv(tb) /\ ReadyInv(tb)

HandoffInv ==
    /\ HandoffTypes /\ StreamInv /\ BatchInv /\ apc # "failed"
    /\ \A tb \in Tables : TableInv(tb)

----------------------------------------------------------------------------
(* Facts about the constants and the operators.                            *)

\* Commit records lie within the modelled positions.
LEMMA PositionFacts ==
    /\ NumTx \in Nat /\ MaxLsn \in Nat /\ MaxLsn = 2 * NumTx + 1
    /\ \A t \in Int : CommitLsn(t) = 2 * t - 1 /\ EndLsn(t) = 2 * t
    /\ \A t \in 1 .. NumTx + 1 : CommitLsn(t) \in Lsn
    /\ \A t \in Tx : t \in Nat /\ EndLsn(t) \in Lsn
BY HandoffAssumption DEF MaxLsn, CommitLsn, EndLsn, Lsn, Tx

\* A row message concerns a table, and is no commit record.
LEMMA RowFacts ==
    ASSUME NEW t \in Tx
    PROVE  /\ Len(Changes[t]) \in Nat /\ CommitK(t) \in Nat \ {0}
           /\ Rows(t) \subseteq Nat /\ 0 \notin Rows(t) /\ CommitK(t) \notin Rows(t)
           /\ \A k \in Rows(t) : Changes[t][k] \in Tables /\ k < CommitK(t)
                                 /\ k + 1 \in 0 .. CommitK(t)
<1>1. Changes[t] \in Seq(Tables)
  BY HandoffAssumption
<1>2. Len(Changes[t]) \in Nat
  BY <1>1
<1>. QED
  BY <1>1, <1>2 DEF Rows, CommitK

\* Messages are pairs of a transaction and the place in it.
LEMMA MessageFacts ==
    /\ \A t \in Tx : \A k \in 0 .. CommitK(t) : <<t, k>> \in Messages
    /\ \A m \in Messages : /\ m[1] \in Tx /\ m[2] \in 0 .. CommitK(m[1])
                           /\ m = <<m[1], m[2]>>
BY DEF Messages

\* The first transaction that a stream started at lsn sends.
LEMMA StartTxFacts ==
    ASSUME NEW lsn \in Lsn
    PROVE  /\ StartTx(lsn) \in 1 .. NumTx + 1
           /\ \A t \in Tx : t < StartTx(lsn) <=> CommitLsn(t) < lsn
           /\ 2 * StartTx(lsn) - 2 <= lsn /\ lsn <= CommitLsn(StartTx(lsn))
<1>. DEFINE c == (lsn \div 2) + 1
<1>1. lsn \in Int /\ 0 <= lsn /\ lsn <= 2 * NumTx + 1
  BY PositionFacts DEF Lsn
<1>2. c \in 1 .. NumTx + 1 /\ 2 * c - 2 <= lsn /\ lsn <= 2 * c - 1
  BY <1>1, PositionFacts
<1>. HIDE DEF c
<1>3. \A t \in Tx : t < c <=> CommitLsn(t) < lsn
  BY <1>1, <1>2, PositionFacts DEF CommitLsn, Tx
<1>4. /\ StartTx(lsn) \in 1 .. NumTx + 1
      /\ \A t \in Tx : t < StartTx(lsn) <=> CommitLsn(t) < lsn
  BY <1>2, <1>3 DEF StartTx
<1>5. ~(StartTx(lsn) < c)
  <2>1. SUFFICES ASSUME StartTx(lsn) < c PROVE FALSE
    OBVIOUS
  <2>2. StartTx(lsn) \in Tx
    BY <1>2, <1>4, <2>1, PositionFacts DEF Tx
  <2>. QED
    BY <1>3, <1>4, <2>1, <2>2, PositionFacts
<1>6. ~(c < StartTx(lsn))
  <2>1. SUFFICES ASSUME c < StartTx(lsn) PROVE FALSE
    OBVIOUS
  <2>2. c \in Tx
    BY <1>2, <1>4, <2>1, PositionFacts DEF Tx
  <2>. QED
    BY <1>3, <1>4, <2>1, <2>2, PositionFacts
<1>7. StartTx(lsn) = c
  <2>1. StartTx(lsn) \in Int /\ c \in Int
    BY <1>2, <1>4
  <2>. QED
    BY <1>5, <1>6, <2>1
<1>. QED
  BY <1>1, <1>2, <1>4, <1>7, PositionFacts

\* The larger of two positions is one of them.
LEMMA MaxFacts ==
    ASSUME NEW a \in Int, NEW b \in Int
    PROVE  /\ Max2(a, b) \in {a, b} /\ Max2(a, b) >= a /\ Max2(a, b) >= b
BY DEF Max2

\* Table states are records of their two fields.
LEMMA StateFacts ==
    /\ \A s \in Durable : s \in States /\ s.type \notin {"SyncWait", "Catchup"}
    /\ \A s \in States : s.lsn \in Int /\ s.lsn \in Lsn \cup {NoLsn}
    /\ \A type \in Copying \cup {"Errored"} :
          Plain(type) \in Durable /\ Plain(type).type = type
    /\ \A type \in {"SyncWait", "Catchup", "SyncDone", "Ready"},
          lsn \in Lsn \cup {NoLsn} :
          TableState(type, lsn) \in States
    /\ \A type \in Handed, lsn \in Lsn \cup {NoLsn} :
          TableState(type, lsn) \in Durable
    /\ \A type, lsn : /\ TableState(type, lsn).type = type
                      /\ TableState(type, lsn).lsn = lsn
BY PositionFacts DEF Durable, States, Plain, TableState, Copying, Handed, Lsn

\* The values that stand for "no hook" and "no worker" are well typed.
LEMMA NoneFacts ==
    /\ NoHook \in HookType
    /\ DOMAIN NoHook.todo = {} /\ NoHook.kind = "none"
    /\ NoHook.ckpt = NoLsn /\ NoHook.waitOn = NoTable
    /\ NoWorker \in WorkerType
    /\ NoWorker.phase = "none" /\ NoWorker.mem = Plain("Init")
<1>1. NoHook.todo \in [{} -> Durable] /\ DOMAIN NoHook.todo = {}
  BY DEF NoHook
<1>2. NoHook.todo \in UNION {[S -> Durable] : S \in SUBSET Tables}
  BY <1>1
<1>3. Plain("Init") \in States
  BY StateFacts DEF Copying
<1>4. /\ NoHook \in [kind : HookKinds, lsn : Lsn \cup {NoLsn},
                 todo : {NoHook.todo},
                 ckpt : Lsn \cup {NoLsn}, waitOn : Tables \cup {NoTable}]
      /\ NoHook.kind = "none" /\ NoHook.ckpt = NoLsn /\ NoHook.waitOn = NoTable
  BY DEF NoHook, HookKinds
<1>5. /\ NoWorker \in WorkerType
      /\ NoWorker.phase = "none" /\ NoWorker.mem = Plain("Init")
  BY <1>3, HandoffAssumption, PositionFacts DEF NoWorker, WorkerType
<1>. QED
  BY <1>1, <1>2, <1>4, <1>5 DEF HookType

----------------------------------------------------------------------------
(* Steps that the actions share.                                           *)

\* The fields of a worker record.
LEMMA WorkerFacts ==
    ASSUME HandoffTypes, NEW tb \in Tables
    PROVE  /\ worker[tb] \in WorkerType /\ worker[tb].mem \in States
           /\ worker[tb].pos \in 0 .. NumTx + 1 /\ worker[tb].pos \in Int
           /\ worker[tb].snap \in Lsn \cup {NoLsn}
           /\ worker[tb].attempts \in 0 .. MaxAttempts
           /\ store[tb] \in Durable /\ prev[tb] \in Durable
BY DEF HandoffTypes, WorkerType

\* set_and_store changes the state and the phase of one worker, and the store
\* when the state is a durable one.
LEMMA SetAndStoreFacts ==
    ASSUME HandoffTypes, NEW tb \in Tables, NEW state \in States,
           NEW phase \in Permitted \cup {"none", "permit", "retry"},
           set_and_store(tb, state, phase)
    PROVE  /\ worker' \in [Tables -> WorkerType] /\ store' \in [Tables -> Durable]
           /\ worker'[tb].mem = state /\ worker'[tb].phase = phase
           /\ worker'[tb].snap = worker[tb].snap /\ worker'[tb].pos = worker[tb].pos
           /\ \A x \in Tables \ {tb} : worker'[x] = worker[x] /\ store'[x] = store[x]
           /\ state.type \in {"SyncWait", "Catchup"} => store' = store
           /\ state.type \notin {"SyncWait", "Catchup"} => store'[tb] = state
<1>. DEFINE w == [worker[tb] EXCEPT !.mem = state, !.phase = phase]
<1>1. worker[tb] \in WorkerType
  BY WorkerFacts
<1>2. w \in WorkerType /\ w.mem = state /\ w.phase = phase
      /\ w.snap = worker[tb].snap /\ w.pos = worker[tb].pos
  BY <1>1 DEF WorkerType
<1>3. worker' = [worker EXCEPT ![tb] = w]
  BY DEF HandoffTypes, set_and_store
<1>. HIDE DEF w
<1>4. worker'[tb] = w /\ worker' \in [Tables -> WorkerType]
      /\ \A x \in Tables \ {tb} : worker'[x] = worker[x]
  BY <1>2, <1>3 DEF HandoffTypes
<1>5. CASE state.type \in {"SyncWait", "Catchup"}
  <2>1. store' = store
    BY <1>5 DEF set_and_store, should_store
  <2>. QED
    BY <1>2, <1>4, <1>5, <2>1 DEF HandoffTypes
<1>6. CASE state.type \notin {"SyncWait", "Catchup"}
  <2>1. store' = [store EXCEPT ![tb] = state] /\ state \in Durable
    BY <1>6 DEF set_and_store, should_store, Durable
  <2>2. store'[tb] = state /\ store' \in [Tables -> Durable]
        /\ \A x \in Tables \ {tb} : store'[x] = store[x]
    BY <2>1 DEF HandoffTypes
  <2>. QED
    BY <1>2, <1>4, <1>6, <2>2
<1>. QED
  BY <1>5, <1>6

\* The fields of the hook.
LEMMA HookFacts ==
    ASSUME HandoffTypes
    PROVE  /\ hook.kind \in HookKinds /\ hook.lsn \in Lsn \cup {NoLsn}
           /\ hook.ckpt \in Lsn \cup {NoLsn} /\ hook.waitOn \in Tables \cup {NoTable}
           /\ DOMAIN hook.todo \subseteq Tables
           /\ \A x \in DOMAIN hook.todo : hook.todo[x] \in Durable
BY DEF HandoffTypes, HookType

\* StartHook takes over the stored states of the syncing tables.
LEMMA StartHookFacts ==
    ASSUME HandoffTypes, NEW kind \in HookKinds, NEW lsn \in Lsn,
           StartHook(kind, lsn)
    PROVE  /\ hook' \in HookType
           /\ hook'.kind = kind /\ hook'.lsn = lsn /\ hook'.ckpt = checkpoint
           /\ hook'.waitOn = NoTable
           /\ \A x \in DOMAIN hook'.todo :
                 x \in Tables /\ is_syncing(store[x]) /\ hook'.todo[x] = store[x]
<1>. DEFINE todo == [tb \in SyncingTables |-> store[tb]]
<1>1. SyncingTables \subseteq Tables
  BY DEF SyncingTables
<1>2. todo \in [SyncingTables -> Durable]
  BY <1>1 DEF HandoffTypes
<1>3. todo \in UNION {[S -> Durable] : S \in SUBSET Tables}
  BY <1>1, <1>2
<1>4. hook' = [kind |-> kind, lsn |-> lsn, todo |-> todo,
               ckpt |-> checkpoint, waitOn |-> NoTable]
  BY DEF StartHook
<1>5. DOMAIN todo = SyncingTables /\ \A x \in SyncingTables : todo[x] = store[x]
  OBVIOUS
<1>. HIDE DEF todo
<1>6. hook'.todo = todo
  BY <1>4
<1>. QED
  BY <1>1, <1>3, <1>4, <1>5, <1>6 DEF HookType, HandoffTypes, SyncingTables

\* A hook whose list loses a table is otherwise the same.
LEMMA LessTodoFacts ==
    ASSUME HandoffTypes, NEW tb, NEW w \in Tables \cup {NoTable},
           hook' = [hook EXCEPT !.waitOn = w,
                      !.todo = [x \in DOMAIN hook.todo \ {tb} |-> hook.todo[x]]]
    PROVE  /\ hook' \in HookType
           /\ hook'.kind = hook.kind /\ hook'.lsn = hook.lsn
           /\ hook'.ckpt = hook.ckpt /\ hook'.waitOn = w
           /\ DOMAIN hook'.todo = DOMAIN hook.todo \ {tb}
           /\ \A x \in DOMAIN hook'.todo : hook'.todo[x] = hook.todo[x]
<1>. DEFINE todo == [x \in DOMAIN hook.todo \ {tb} |-> hook.todo[x]]
<1>1. DOMAIN todo = DOMAIN hook.todo \ {tb} /\ DOMAIN todo \subseteq Tables
      /\ todo \in [DOMAIN todo -> Durable]
  BY HookFacts
<1>2. todo \in UNION {[S -> Durable] : S \in SUBSET Tables}
  BY <1>1
<1>3. \A x \in DOMAIN todo : todo[x] = hook.todo[x]
  OBVIOUS
<1>4. hook' = [hook EXCEPT !.waitOn = w, !.todo = todo]
  OBVIOUS
<1>. HIDE DEF todo
<1>. QED
  BY <1>1, <1>2, <1>3, <1>4 DEF HandoffTypes, HookType

\* Processed removes a table from the list.
LEMMA ProcessedFacts ==
    ASSUME HandoffTypes, NEW tb, Processed(tb)
    PROVE  /\ hook' \in HookType
           /\ hook'.kind = hook.kind /\ hook'.lsn = hook.lsn
           /\ hook'.ckpt = hook.ckpt /\ hook'.waitOn = hook.waitOn
           /\ DOMAIN hook'.todo = DOMAIN hook.todo \ {tb}
           /\ \A x \in DOMAIN hook'.todo : hook'.todo[x] = hook.todo[x]
<1>. DEFINE todo == [x \in DOMAIN hook.todo \ {tb} |-> hook.todo[x]]
<1>1. DOMAIN todo = DOMAIN hook.todo \ {tb} /\ DOMAIN todo \subseteq Tables
      /\ todo \in [DOMAIN todo -> Durable]
  BY HookFacts
<1>2. todo \in UNION {[S -> Durable] : S \in SUBSET Tables}
  BY <1>1
<1>3. \A x \in DOMAIN todo : todo[x] = hook.todo[x]
  OBVIOUS
<1>4. hook' = [hook EXCEPT !.todo = todo]
  BY DEF Processed
<1>. HIDE DEF todo
<1>. QED
  BY <1>1, <1>2, <1>3, <1>4 DEF HandoffTypes, HookType

\* A batch with a commit record ends at that of the last transaction read.
LEMMA CommitEndFacts ==
    ASSUME HandoffTypes, BatchInv, commit_end # NoLsn
    PROVE  /\ cur.tx - 1 \in Tx /\ commit_end = EndLsn(cur.tx - 1)
           /\ commit_end \in Lsn
<1>. DEFINE ends == {EndLsn(m[1]) : m \in {n \in batch : n[2] = CommitK(n[1])}}
<1>1. ends # {}
  BY DEF commit_end
<1>2. PICK m \in batch : m[2] = CommitK(m[1])
  BY <1>1
<1>3. cur.tx \in Int
  BY PositionFacts DEF HandoffTypes
<1>4. <<cur.tx - 1, CommitK(cur.tx - 1)>> \in batch
  BY <1>2 DEF BatchInv
<1>5. cur.tx - 1 \in Tx
  BY <1>4, MessageFacts DEF HandoffTypes
<1>6. EndLsn(cur.tx - 1) \in ends
  BY <1>4
<1>7. \A e \in ends : EndLsn(cur.tx - 1) >= e /\ e \in Int
  BY <1>3, PositionFacts, MessageFacts DEF HandoffTypes, BatchInv, Tx
<1>8. commit_end = CHOOSE l \in ends : \A e \in ends : l >= e
  BY <1>1 DEF commit_end
<1>. HIDE DEF ends
<1>9. commit_end \in ends /\ \A e \in ends : commit_end >= e
  BY <1>6, <1>7, <1>8
<1>10. commit_end = EndLsn(cur.tx - 1)
  BY <1>6, <1>7, <1>9
<1>. QED
  BY <1>5, <1>10, PositionFacts

\* A new connection starts between two commit records.
LEMMA StartApplyFacts ==
    ASSUME HandoffTypes, StreamInv, StartApply
    PROVE  /\ get_start_lsn \in Lsn
           /\ get_start_lsn \in {checkpoint, confirmed}
           /\ get_start_lsn >= checkpoint /\ get_start_lsn >= confirmed
           /\ cur'.tx = StartTx(get_start_lsn) /\ cur'.k = 0
           /\ cur' \in [tx : 1 .. NumTx + 1, k : Nat]
           /\ \A t \in Tx : t < cur'.tx <=> CommitLsn(t) < get_start_lsn
           /\ 2 * cur'.tx - 2 <= received' /\ received' <= CommitLsn(cur'.tx)
           /\ received' = get_start_lsn /\ flushed' = get_start_lsn
<1>1. checkpoint \in Int /\ confirmed \in Int
  BY DEF HandoffTypes, Lsn
<1>2. /\ get_start_lsn \in Lsn /\ get_start_lsn \in {checkpoint, confirmed}
      /\ get_start_lsn >= checkpoint /\ get_start_lsn >= confirmed
  BY <1>1, MaxFacts DEF HandoffTypes, get_start_lsn
<1>3. cur' = [tx |-> StartTx(get_start_lsn), k |-> 0]
      /\ received' = get_start_lsn /\ flushed' = get_start_lsn
  BY DEF StartApply
<1>. QED
  BY <1>2, <1>3, StartTxFacts

----------------------------------------------------------------------------
(* Type correctness.                                                       *)

\* The apply loop's stream.
LEMMA StreamTypes ==
    ASSUME HandoffInv,
           \/ ReceiveStep \/ handle_keepalive \/ FlushBatch \/ send_status_update
           \/ process_syncing_tables_when_quiescent
    PROVE  HandoffTypes'
<1>. USE DEF storeVars, applyVars, destVars
<1>0. HandoffTypes /\ StreamInv /\ BatchInv
  BY DEF HandoffInv
<1>1. CASE handle_begin_message
  <2>1. cur.tx \in Tx
    BY <1>0, <1>1, PositionFacts DEF handle_begin_message, HandoffTypes, Tx
  <2>2. cur' \in [tx : 1 .. NumTx + 1, k : Nat] /\ cur'.tx = cur.tx /\ cur'.k = 1
    BY <1>0, <1>1 DEF handle_begin_message, HandoffTypes
  <2>3. cur'.k \in 0 .. CommitK(cur'.tx)
    BY <2>1, <2>2, RowFacts
  <2>4. batch' \subseteq Messages
    BY <1>0, <1>1, <2>1, RowFacts, MessageFacts DEF handle_begin_message, HandoffTypes
  <2>. QED
    BY <1>0, <1>1, <2>1, <2>2, <2>3, <2>4 DEF handle_begin_message, HandoffTypes
<1>2. CASE handle_row_message
  <2>1. cur.tx \in Tx /\ cur.k \in Rows(cur.tx)
    BY <1>0, <1>2, PositionFacts DEF handle_row_message, HandoffTypes, Tx
  <2>2. Changes[cur.tx][cur.k] \in Tables
    BY <2>1, RowFacts
  <2>3. cur' \in [tx : 1 .. NumTx + 1, k : Nat] /\ cur'.tx = cur.tx
        /\ cur'.k = cur.k + 1
    BY <1>0, <1>2 DEF handle_row_message, HandoffTypes
  <2>4. cur'.k \in 0 .. CommitK(cur'.tx)
    BY <2>1, <2>3, RowFacts
  <2>5. <<cur.tx, cur.k>> \in Messages
    BY <2>1, RowFacts, MessageFacts
  <2>6. /\ relSent' = relSent \cup {Changes[cur.tx][cur.k]}
        /\ decoder' \subseteq decoder \cup {Changes[cur.tx][cur.k]}
        /\ batch' \subseteq batch \cup {<<cur.tx, cur.k>>}
        /\ apc' \in {apc, "failed"}
    BY <1>2 DEF handle_row_message
  <2>7. UNCHANGED <<walEnd, storeVars, confirmed, received, flushed, hook,
                    worker, destVars>>
    BY <1>2 DEF handle_row_message
  <2>. QED
    BY <1>0, <2>1, <2>2, <2>3, <2>4, <2>5, <2>6, <2>7 DEF HandoffTypes
<1>3. CASE handle_commit_message
  <2>1. cur.tx \in Tx /\ cur.tx + 1 \in 1 .. NumTx + 1
    BY <1>0, <1>3, PositionFacts DEF handle_commit_message, HandoffTypes, Tx
  <2>2. EndLsn(cur.tx) \in Lsn /\ received \in Lsn /\ received \in Int
        /\ EndLsn(cur.tx) \in Int
    BY <1>0, <2>1, PositionFacts DEF HandoffTypes, Lsn
  <2>3. received' \in Lsn
    BY <1>3, <2>2, MaxFacts DEF handle_commit_message
  <2>4. <<cur.tx, cur.k>> \in Messages
    BY <1>3, <2>1, RowFacts, MessageFacts DEF handle_commit_message
  <2>5. hook' \in HookType
    BY <1>0, <1>3, <2>2, StartHookFacts DEF handle_commit_message, HookKinds
  <2>6. cur' \in [tx : 1 .. NumTx + 1, k : Nat] /\ cur'.k = 0
        /\ cur'.k \in 0 .. IF cur'.tx \in Tx THEN CommitK(cur'.tx) ELSE 0
    BY <1>3, <2>1, RowFacts DEF handle_commit_message
  <2>. QED
    BY <1>0, <1>3, <2>3, <2>4, <2>5, <2>6 DEF handle_commit_message, HandoffTypes
<1>4. CASE handle_keepalive
  <2>1. received' \in Lsn /\ received' \in Int
    BY <1>0, <1>4, PositionFacts DEF handle_keepalive, HandoffTypes, Lsn
  <2>2. flushed \in Lsn /\ confirmed \in Lsn /\ flushed \in Int /\ confirmed \in Int
    BY <1>0 DEF HandoffTypes, Lsn
  <2>3. confirmed' \in {confirmed, received', flushed}
    BY <1>4, <2>1, <2>2, MaxFacts DEF handle_keepalive
  <2>. QED
    BY <1>0, <1>4, <2>1, <2>2, <2>3 DEF handle_keepalive, HandoffTypes
<1>5. CASE FlushBatch
  <2>1. byApply' \subseteq Messages /\ batch' = {}
    BY <1>0, <1>5 DEF FlushBatch, HandoffTypes
  <2>2. UNCHANGED <<walEnd, storeVars, confirmed, cur, received, relSent,
                    decoder, worker, byCopy, bySync>>
    BY <1>5 DEF FlushBatch
  <2>3. CASE commit_end = NoLsn
    BY <1>0, <1>5, <2>1, <2>2, <2>3 DEF FlushBatch, HandoffTypes
  <2>4. CASE commit_end # NoLsn
    <3>1. commit_end \in Lsn /\ commit_end \in Int /\ flushed \in Int
      BY <1>0, <2>4, CommitEndFacts DEF Lsn, HandoffTypes
    <3>2. flushed' \in Lsn /\ apc' = "hook"
      BY <1>0, <1>5, <2>4, <3>1, MaxFacts DEF FlushBatch, HandoffTypes
    <3>3. hook' \in HookType
      BY <1>0, <1>5, <2>4, <3>1, StartHookFacts DEF FlushBatch, HookKinds
    <3>. QED
      BY <1>0, <2>1, <2>2, <3>2, <3>3 DEF HandoffTypes
  <2>. QED
    BY <2>3, <2>4
<1>6. CASE send_status_update
  <2>1. confirmed' \in Lsn
    <3>1. received \in Int /\ flushed \in Int /\ confirmed \in Int
      BY <1>0 DEF HandoffTypes, Lsn
    <3>2. confirmed' \in {confirmed, received, flushed}
      BY <1>6, <3>1, MaxFacts DEF send_status_update
    <3>. QED
      BY <1>0, <3>2 DEF HandoffTypes
  <2>. QED
    BY <1>0, <1>6, <2>1 DEF send_status_update, HandoffTypes
<1>7. CASE process_syncing_tables_when_quiescent
  <2>1. received \in Lsn
    BY <1>0 DEF HandoffTypes
  <2>2. hook' \in HookType
    BY <1>0, <1>7, <2>1, StartHookFacts
    DEF process_syncing_tables_when_quiescent, HookKinds
  <2>. QED
    BY <1>0, <1>7, <2>2 DEF process_syncing_tables_when_quiescent, HandoffTypes
<1>. QED
  BY <1>1, <1>2, <1>3, <1>4, <1>5, <1>6, <1>7 DEF ReceiveStep

\* The apply worker's table hooks.
LEMMA HookTypes ==
    ASSUME HandoffInv, HookStep
    PROVE  HandoffTypes'
<1>. USE DEF storeVars, applyVars, destVars
<1>0. HandoffTypes /\ StreamInv
  BY DEF HandoffInv
<1>1. ASSUME NEW tb \in Tables, EnterCatchup(tb) PROVE HandoffTypes'
  <2>. DEFINE state == CatchupState(worker[tb].mem, hook.lsn)
  <2>1. worker[tb].mem.lsn \in Lsn \cup {NoLsn} /\ hook.lsn \in Lsn \cup {NoLsn}
        /\ worker[tb].mem.lsn \in Int /\ hook.lsn \in Int
    BY <1>0, WorkerFacts, StateFacts, HookFacts, PositionFacts DEF Lsn
  <2>2. state \in States /\ state.type = "Catchup"
    BY <1>0, <2>1, MaxFacts, StateFacts, WorkerFacts DEF CatchupState
  <2>. HIDE DEF state
  <2>3. set_and_store(tb, state, worker[tb].phase)
    BY <1>1 DEF EnterCatchup, state
  <2>4. worker' \in [Tables -> WorkerType] /\ store' \in [Tables -> Durable]
    BY <1>0, <2>2, <2>3, SetAndStoreFacts, WorkerFacts DEF WorkerType
  <2>5. hook' \in HookType
    BY <1>0, <1>1 DEF EnterCatchup, HandoffTypes, HookType
  <2>. QED
    BY <1>0, <1>1, <2>3, <2>4, <2>5 DEF EnterCatchup, HandoffTypes
<1>2. ASSUME NEW tb \in Tables, BecomeReady(tb) PROVE HandoffTypes'
  <2>. DEFINE state == IF Active(tb) THEN worker[tb].mem ELSE hook.todo[tb]
              ready == TableState("Ready", state.lsn)
  <2>1. state.lsn \in Lsn \cup {NoLsn}
    BY <1>0, <1>2, WorkerFacts, StateFacts, HookFacts DEF BecomeReady
  <2>2. ready \in Durable /\ ready \in States /\ ready.type = "Ready"
    BY <2>1, StateFacts DEF Handed
  <2>3. hook' \in HookType
    BY <1>0, <1>2, ProcessedFacts DEF BecomeReady
  <2>4. \/ set_and_store(tb, ready, worker[tb].phase)
        \/ store' = [store EXCEPT ![tb] = ready] /\ UNCHANGED worker
    BY <1>2 DEF BecomeReady
  <2>. HIDE DEF ready
  <2>5. worker' \in [Tables -> WorkerType] /\ store' \in [Tables -> Durable]
    BY <1>0, <2>2, <2>4, SetAndStoreFacts, WorkerFacts DEF HandoffTypes, WorkerType
  <2>. QED
    BY <1>0, <1>2, <2>2, <2>3, <2>5 DEF BecomeReady, HandoffTypes
<1>3. ASSUME NEW tb \in Tables, start_table_sync_worker(tb) PROVE HandoffTypes'
  <2>1. hook' \in HookType
    BY <1>0, <1>3, ProcessedFacts DEF start_table_sync_worker
  <2>2. worker' \in [Tables -> WorkerType]
    BY <1>0, <1>3, NoneFacts, WorkerFacts, StateFacts
    DEF start_table_sync_worker, HandoffTypes, WorkerType
  <2>. QED
    BY <1>0, <1>3, <2>1, <2>2 DEF start_table_sync_worker, HandoffTypes
<1>4. ASSUME NEW tb \in Tables, SkipTable(tb) PROVE HandoffTypes'
  BY <1>0, <1>4, ProcessedFacts DEF SkipTable, HandoffTypes
<1>5. CASE wait_for_table_sync_worker_catchup
  <2>1. hook' \in HookType
    BY <1>0, <1>5, LessTodoFacts DEF wait_for_table_sync_worker_catchup
  <2>. QED
    BY <1>0, <1>5, <2>1 DEF wait_for_table_sync_worker_catchup, HandoffTypes
<1>6. CASE HookEnds
  BY <1>0, <1>6, NoneFacts DEF HookEnds, HandoffTypes
<1>7. CASE persist_replication_checkpoint
  <2>1. checkpoint \in Int /\ hook.lsn \in Int /\ hook.lsn \in Lsn \cup {NoLsn}
        /\ checkpoint \in Lsn
    BY <1>0, HookFacts, PositionFacts DEF HandoffTypes, Lsn
  <2>2. checkpoint' \in Lsn
    BY <1>7, <2>1, PositionFacts DEF persist_replication_checkpoint, Max2, Lsn
  <2>. QED
    BY <1>0, <1>7, <2>2, NoneFacts DEF persist_replication_checkpoint, HandoffTypes
<1>. QED
  BY <1>1, <1>2, <1>3, <1>4, <1>5, <1>6, <1>7 DEF HookStep

\* A step of a worker that touches nothing but the worker.
LEMMA WorkerOnlyTypes ==
    ASSUME HandoffTypes, worker' \in [Tables -> WorkerType],
           UNCHANGED <<walEnd, storeVars, confirmed, applyVars, destVars>>
    PROVE  HandoffTypes'
BY DEF HandoffTypes, storeVars, applyVars, destVars

\* A worker ends with a state that others can still read.
LEMMA WorkerEndsFacts ==
    ASSUME HandoffTypes, NEW tb \in Tables, NEW state \in States,
           WorkerEnds(tb, state)
    PROVE  /\ worker' \in [Tables -> WorkerType]
           /\ worker'[tb].phase = "none" /\ worker'[tb].mem = state
           /\ \A x \in Tables \ {tb} : worker'[x] = worker[x]
BY NoneFacts DEF WorkerEnds, HandoffTypes, WorkerType

\* A retried worker queues for a permit with the state it retries from.
LEMMA RetriedFacts ==
    ASSUME HandoffTypes, NEW tb \in Tables, NEW state \in States,
           worker[tb].attempts < MaxAttempts, Retried(tb, state)
    PROVE  /\ worker' \in [Tables -> WorkerType]
           /\ worker'[tb].phase = "permit" /\ worker'[tb].mem = state
           /\ \A x \in Tables \ {tb} : worker'[x] = worker[x]
<1>1. worker[tb].attempts + 1 \in 0 .. MaxAttempts
  BY WorkerFacts, HandoffAssumption
<1>. QED
  BY <1>1, NoneFacts DEF Retried, HandoffTypes, WorkerType

\* try_complete_catchup stores SyncDone or moves the catch-up stream on.
LEMMA CompleteFacts ==
    ASSUME HandoffTypes, NEW tb \in Tables, NEW lsn \in Lsn \cup {NoLsn},
           NEW pos \in 0 .. NumTx + 1, try_complete_catchup(tb, lsn, pos)
    PROVE  /\ worker' \in [Tables -> WorkerType] /\ store' \in [Tables -> Durable]
           /\ \A x \in Tables \ {tb} : worker'[x] = worker[x] /\ store'[x] = store[x]
           /\ \/ /\ lsn >= worker[tb].mem.lsn
                 /\ worker'[tb].phase = "ending"
                 /\ store'[tb] = TableState("SyncDone", lsn)
                 /\ worker'[tb].mem = store'[tb]
              \/ /\ ~(lsn >= worker[tb].mem.lsn)
                 /\ store' = store /\ worker'[tb] = [worker[tb] EXCEPT !.pos = pos]
<1>. DEFINE done == TableState("SyncDone", lsn)
<1>1. done \in Durable /\ done \in States /\ done.type = "SyncDone"
  BY StateFacts DEF Handed
<1>2. CASE lsn >= worker[tb].mem.lsn
  <2>1. set_and_store(tb, done, "ending")
    BY <1>2 DEF try_complete_catchup
  <2>2. "ending" \in Permitted \cup {"none", "permit", "retry"}
    BY DEF Permitted
  <2>3. /\ worker' \in [Tables -> WorkerType] /\ store' \in [Tables -> Durable]
        /\ worker'[tb].mem = done /\ worker'[tb].phase = "ending"
        /\ \A x \in Tables \ {tb} : worker'[x] = worker[x] /\ store'[x] = store[x]
        /\ store'[tb] = done
    <3>. HIDE DEF done
    <3>. QED
      BY <1>1, <2>1, <2>2, SetAndStoreFacts
  <2>. QED
    BY <1>2, <2>3
<1>3. CASE ~(lsn >= worker[tb].mem.lsn)
  BY <1>3 DEF try_complete_catchup, HandoffTypes, WorkerType
<1>. QED
  BY <1>2, <1>3

\* The table-sync workers.
LEMMA WorkerTypes ==
    ASSUME HandoffInv, NEW tb \in Tables, WorkerStep(tb)
    PROVE  HandoffTypes'
<1>. USE DEF storeVars, applyVars, destVars
<1>0. HandoffTypes /\ PhaseInv(tb)
  BY DEF HandoffInv, TableInv
<1>. DEFINE w == worker[tb]
<1>w. w \in WorkerType /\ w.mem \in States /\ store[tb] \in Durable
      /\ w.mem.lsn \in Lsn \cup {NoLsn}
  BY <1>0, WorkerFacts, StateFacts
<1>1. CASE acquire_run_permit(tb)
  <2>1. worker' \in [Tables -> WorkerType]
    BY <1>0, <1>1 DEF acquire_run_permit, HandoffTypes, WorkerType, Permitted
  <2>. QED
    BY <1>0, <1>1, <2>1, WorkerOnlyTypes DEF acquire_run_permit
<1>2. CASE SyncNotRequired(tb)
  BY <1>0, <1>w, <1>2, WorkerEndsFacts, WorkerOnlyTypes DEF SyncNotRequired
<1>3. CASE drop_table_for_copy(tb)
  <2>1. worker' \in [Tables -> WorkerType]
    BY <1>0, <1>3 DEF drop_table_for_copy, HandoffTypes, WorkerType, Permitted
  <2>. QED
    BY <1>0, <1>3, <2>1 DEF drop_table_for_copy, HandoffTypes
<1>4. CASE EnterDataSync(tb)
  <2>1. Plain("DataSync") \in States /\ "slot" \in Permitted
    BY StateFacts DEF Copying, Permitted
  <2>2. set_and_store(tb, Plain("DataSync"), "slot")
    BY <1>4 DEF EnterDataSync
  <2>3. worker' \in [Tables -> WorkerType] /\ store' \in [Tables -> Durable]
    BY <1>0, <2>1, <2>2, SetAndStoreFacts
  <2>. QED
    BY <1>0, <1>4, <2>3 DEF EnterDataSync, HandoffTypes
<1>5. CASE create_slot_with_transaction(tb)
  <2>1. PICK snap \in {2 * walEnd, 2 * walEnd + 1} :
           worker' = [worker EXCEPT ![tb].phase = "copying", ![tb].snap = snap]
    BY <1>5 DEF create_slot_with_transaction
  <2>2. snap \in Lsn
    BY <1>0, PositionFacts DEF HandoffTypes, Lsn
  <2>3. [w EXCEPT !.phase = "copying", !.snap = snap] \in WorkerType
    BY <1>w, <2>2 DEF WorkerType, Permitted
  <2>4. worker' \in [Tables -> WorkerType]
    BY <1>0, <2>1, <2>3 DEF HandoffTypes
  <2>. QED
    BY <1>0, <1>5, <2>4, WorkerOnlyTypes DEF create_slot_with_transaction
<1>6. CASE table_copy(tb)
  <2>1. TableState("SyncWait", w.snap) \in States /\ Plain("FinishedCopy") \in Durable
    BY <1>0, <1>w, StateFacts DEF Copying, WorkerType
  <2>2. [w EXCEPT !.phase = "syncwait", !.mem = TableState("SyncWait", w.snap)]
           \in WorkerType
    BY <1>w, <2>1 DEF WorkerType, Permitted
  <2>3. worker' \in [Tables -> WorkerType]
    BY <1>0, <1>6, <2>2 DEF table_copy, HandoffTypes
  <2>4. store' \in [Tables -> Durable] /\ byCopy' \in [Tables -> SUBSET Tx]
    BY <1>0, <1>6, <2>1 DEF table_copy, HandoffTypes, TxOf
  <2>. QED
    BY <1>0, <1>6, <2>3, <2>4 DEF table_copy, HandoffTypes
<1>7. CASE start_logical_replication(tb)
  <2>1. StartTx(w.snap) \in 0 .. NumTx + 1
    BY <1>0, <1>7, StartTxFacts, PositionFacts DEF start_logical_replication, PhaseInv
  <2>2. [w EXCEPT !.phase = "stream", !.pos = StartTx(w.snap)] \in WorkerType
    BY <1>w, <2>1 DEF WorkerType, Permitted
  <2>3. worker' \in [Tables -> WorkerType]
    BY <1>0, <1>7, <2>2 DEF start_logical_replication, HandoffTypes
  <2>. QED
    BY <1>0, <1>7, <2>3, WorkerOnlyTypes DEF start_logical_replication
<1>8. CASE SyncTransaction(tb)
  <2>1. EndLsn(w.pos) \in Lsn \cup {NoLsn} /\ w.pos + 1 \in 0 .. NumTx + 1
    BY <1>0, <1>8, WorkerFacts, PositionFacts DEF SyncTransaction, HandoffTypes, Lsn
  <2>2. try_complete_catchup(tb, EndLsn(w.pos), w.pos + 1)
    BY <1>8 DEF SyncTransaction
  <2>3. worker' \in [Tables -> WorkerType] /\ store' \in [Tables -> Durable]
    BY <1>0, <2>1, <2>2, CompleteFacts
  <2>4. bySync' \in [Tables -> SUBSET Tx]
    BY <1>0, <1>8 DEF SyncTransaction, HandoffTypes, TxOf
  <2>. QED
    BY <1>0, <1>8, <2>3, <2>4 DEF SyncTransaction, HandoffTypes
<1>9. CASE SyncKeepalive(tb)
  <2>1. PICK lsn \in w.mem.lsn .. CommitLsn(w.pos) :
           try_complete_catchup(tb, lsn, w.pos)
    BY <1>9 DEF SyncKeepalive
  <2>2. lsn \in Lsn \cup {NoLsn} /\ w.pos \in 0 .. NumTx + 1
    BY <1>0, <1>w, WorkerFacts, PositionFacts DEF Lsn
  <2>3. worker' \in [Tables -> WorkerType] /\ store' \in [Tables -> Durable]
    BY <1>0, <2>1, <2>2, CompleteFacts
  <2>. QED
    BY <1>0, <1>9, <2>3 DEF SyncKeepalive, HandoffTypes
<1>10. CASE cleanup_resources(tb)
  BY <1>0, <1>w, <1>10, WorkerEndsFacts, WorkerOnlyTypes DEF cleanup_resources
<1>11. CASE RetryAfterDelay(tb)
  <2>1. prev[tb] \in Durable /\ prev[tb] \in States /\ w.attempts < MaxAttempts
    BY <1>0, <1>11, WorkerFacts, StateFacts DEF RetryAfterDelay, PhaseInv
  <2>2. worker' \in [Tables -> WorkerType]
    BY <1>0, <1>11, <2>1, RetriedFacts DEF RetryAfterDelay
  <2>3. Plain("Init") \in Durable
    BY StateFacts DEF Copying
  <2>. QED
    BY <1>0, <1>11, <2>1, <2>2, <2>3 DEF RetryAfterDelay, HandoffTypes
<1>. QED
  BY <1>1, <1>2, <1>3, <1>4, <1>5, <1>6, <1>7, <1>8, <1>9, <1>10, <1>11
  DEF WorkerStep

\* Failures and restarts.
LEMMA FaultTypes ==
    ASSUME HandoffInv, Fault
    PROVE  HandoffTypes'
<1>. USE DEF storeVars, applyVars, destVars
<1>0. HandoffTypes /\ StreamInv
  BY DEF HandoffInv
<1>e. Plain("Errored") \in Durable /\ Plain("Errored") \in States
  BY StateFacts
<1>1. ASSUME NEW tb \in Tables, FailTimed(tb) PROVE HandoffTypes'
  <2>1. [NoWorker EXCEPT !.phase = "retry", !.mem = Plain("Errored"),
                         !.attempts = worker[tb].attempts] \in WorkerType
    BY <1>0, <1>e, NoneFacts, WorkerFacts DEF WorkerType
  <2>2. worker' \in [Tables -> WorkerType]
    BY <1>0, <1>1, <2>1 DEF FailTimed, HandoffTypes
  <2>3. store' \in [Tables -> Durable] /\ prev' \in [Tables -> Durable]
    BY <1>0, <1>1, <1>e DEF FailTimed, StoreErrored, HandoffTypes
  <2>. QED
    BY <1>0, <1>1, <2>2, <2>3 DEF FailTimed, HandoffTypes
<1>2. ASSUME NEW tb \in Tables, FailManual(tb) PROVE HandoffTypes'
  <2>1. worker' \in [Tables -> WorkerType]
    BY <1>0, <1>2, <1>e, WorkerEndsFacts DEF FailManual
  <2>2. store' \in [Tables -> Durable] /\ prev' \in [Tables -> Durable]
    BY <1>0, <1>2, <1>e DEF FailManual, StoreErrored, HandoffTypes
  <2>. QED
    BY <1>0, <1>2, <2>1, <2>2 DEF FailManual, HandoffTypes
<1>3. ASSUME NEW tb \in Tables, RetryWithoutDelay(tb) PROVE HandoffTypes'
  <2>1. store[tb] \in States
    BY <1>0, WorkerFacts, StateFacts
  <2>. QED
    BY <1>0, <1>3, <2>1, RetriedFacts, WorkerOnlyTypes DEF RetryWithoutDelay, CanRetry
<1>4. ASSUME NEW tb \in Tables, ErrorNotPersisted(tb) PROVE HandoffTypes'
  BY <1>0, <1>4, WorkerFacts, WorkerEndsFacts, WorkerOnlyTypes DEF ErrorNotPersisted
<1>5. ASSUME StartApply, worker' \in [Tables -> WorkerType],
             UNCHANGED <<walEnd, storeVars, confirmed, destVars>>
      PROVE  HandoffTypes'
  <2>1. cur'.k \in 0 .. IF cur'.tx \in Tx THEN CommitK(cur'.tx) ELSE 0
    BY <1>0, <1>5, StartApplyFacts, RowFacts
  <2>. QED
    BY <1>0, <1>5, <2>1, StartApplyFacts, NoneFacts DEF StartApply, HandoffTypes
<1>6. CASE ApplyRetries
  BY <1>0, <1>5, <1>6 DEF ApplyRetries, HandoffTypes
<1>7. CASE ProcessRestarts
  BY <1>0, <1>5, <1>7, NoneFacts DEF ProcessRestarts
<1>. QED
  BY <1>1, <1>2, <1>3, <1>4, <1>6, <1>7 DEF Fault

----------------------------------------------------------------------------
(* The positions of the apply stream.                                      *)

\* The positions are numbers.
LEMMA PositionTypes ==
    ASSUME HandoffTypes
    PROVE  /\ checkpoint \in Int /\ confirmed \in Int /\ received \in Int
           /\ flushed \in Int /\ cur.tx \in Int /\ cur.k \in Int
           /\ hook.lsn \in Int /\ hook.ckpt \in Int
           /\ cur.tx \in 1 .. NumTx + 1 /\ walEnd \in 0 .. NumTx
           /\ checkpoint >= 0
           /\ CommitLsn(cur.tx) = 2 * cur.tx - 1
           /\ \A m \in batch : /\ m[1] \in Tx /\ m[1] \in Int
                               /\ CommitLsn(m[1]) = 2 * m[1] - 1
BY PositionFacts, MessageFacts, HookFacts DEF HandoffTypes, Lsn

\* The received position never lies behind what a new connection starts from.
LEMMA StreamPositions ==
    ASSUME HandoffInv,
           \/ ReceiveStep \/ handle_keepalive \/ FlushBatch \/ send_status_update
           \/ process_syncing_tables_when_quiescent
    PROVE  StreamInv' /\ BatchInv'
<1>. USE DEF storeVars, applyVars, destVars
<1>0. HandoffTypes /\ StreamInv /\ BatchInv
  BY DEF HandoffInv
<1>p. /\ checkpoint \in Int /\ confirmed \in Int /\ received \in Int
      /\ flushed \in Int /\ cur.tx \in Int /\ cur.k \in Int
      /\ hook.lsn \in Int /\ hook.ckpt \in Int
      /\ CommitLsn(cur.tx) = 2 * cur.tx - 1
      /\ \A m \in batch : m[1] \in Tx /\ m[1] \in Int
  BY <1>0, PositionTypes
<1>1. CASE handle_begin_message
  <2>1. cur.tx \in Tx
    BY <1>0, <1>1, PositionTypes, PositionFacts DEF handle_begin_message, Tx
  <2>2. cur'.tx = cur.tx /\ cur'.k = 1
    BY <1>0, <1>1 DEF handle_begin_message, HandoffTypes
  <2>3. StreamInv'
    BY <1>0, <1>1, <2>2 DEF handle_begin_message, StreamInv
  <2>4. BatchInv'
    <3>1. 0 # CommitK(cur.tx)
      BY <2>1, RowFacts
    <3>2. ASSUME NEW m \in batch' PROVE m \in batch \/ m = <<cur.tx, 0>>
      BY <1>1 DEF handle_begin_message
    <3>. QED
      BY <1>0, <1>p, <1>1, <2>2, <3>1, <3>2 DEF handle_begin_message, BatchInv, StreamInv
  <2>. QED
    BY <2>3, <2>4
<1>2. CASE handle_row_message
  <2>1. cur.tx \in Tx /\ cur.k \in Rows(cur.tx)
    BY <1>0, <1>2, PositionTypes, PositionFacts DEF handle_row_message, Tx
  <2>2. cur'.tx = cur.tx
    BY <1>0, <1>2 DEF handle_row_message, HandoffTypes
  <2>3. /\ batch \subseteq batch' /\ batch' \subseteq batch \cup {<<cur.tx, cur.k>>}
        /\ apc' \in {"stream", "failed"} /\ apc = "stream"
        /\ UNCHANGED <<checkpoint, confirmed, received, flushed, hook>>
    BY <1>2 DEF handle_row_message
  <2>4. StreamInv'
    BY <1>0, <2>2, <2>3 DEF StreamInv
  <2>5. BatchInv'
    <3>1. cur.k # CommitK(cur.tx)
      BY <2>1, RowFacts
    <3>. QED
      BY <1>0, <1>p, <2>2, <2>3, <3>1 DEF BatchInv, StreamInv
  <2>. QED
    BY <2>4, <2>5
<1>3. CASE handle_commit_message
  <2>1. cur.tx \in Tx /\ EndLsn(cur.tx) = 2 * cur.tx /\ EndLsn(cur.tx) \in Lsn
        /\ CommitLsn(cur.tx + 1) = 2 * (cur.tx + 1) - 1
    <3>1. cur.tx \in Tx
      BY <1>0, <1>3, PositionTypes, PositionFacts DEF handle_commit_message, Tx
    <3>. QED
      BY <1>p, <3>1, PositionFacts DEF CommitLsn
  <2>2. received' = EndLsn(cur.tx)
    <3>1. received' = Max2(received, EndLsn(cur.tx)) /\ received <= 2 * cur.tx - 1
      BY <1>0, <1>p, <1>3 DEF handle_commit_message, StreamInv
    <3>. QED
      BY <1>p, <2>1, <3>1 DEF Max2
  <2>3. cur'.tx = cur.tx + 1 /\ cur'.k = 0 /\ apc' = "hook"
        /\ batch' = batch \cup {<<cur.tx, CommitK(cur.tx)>>}
        /\ UNCHANGED <<checkpoint, confirmed, flushed>>
    BY <1>3 DEF handle_commit_message
  <2>4. hook'.kind = "commit" /\ hook'.lsn = EndLsn(cur.tx)
        /\ hook'.ckpt = checkpoint /\ hook'.waitOn = NoTable
    BY <1>0, <1>3, <2>1, StartHookFacts DEF handle_commit_message, HookKinds
  <2>5. StreamInv'
    BY <1>0, <1>p, <2>1, <2>2, <2>3, <2>4 DEF StreamInv
  <2>6. BatchInv'
    <3>1. cur'.tx - 1 = cur.tx
      BY <1>p, <2>3
    <3>. QED
      BY <1>0, <1>p, <2>3, <3>1 DEF BatchInv, StreamInv
  <2>. QED
    BY <2>5, <2>6
<1>4. CASE handle_keepalive
  <2>1. received' \in Int /\ received <= received' /\ received' <= CommitLsn(cur.tx)
        /\ UNCHANGED <<checkpoint, flushed, apc, cur, batch, hook>> /\ apc = "stream"
    BY <1>4, <1>p DEF handle_keepalive
  <2>2. \/ confirmed' = confirmed
        \/ confirmed' = received' /\ batch = {}
        \/ confirmed' = flushed
    BY <1>4, <1>p, <2>1 DEF handle_keepalive, is_quiescent, Max2
  <2>3. StreamInv'
    BY <1>0, <1>p, <2>1, <2>2 DEF StreamInv
  <2>4. BatchInv'
    BY <1>0, <2>1, <2>2 DEF BatchInv
  <2>. QED
    BY <2>3, <2>4
<1>5. CASE FlushBatch
  <2>1. batch' = {} /\ apc = "stream"
        /\ UNCHANGED <<checkpoint, confirmed, cur, received>>
    BY <1>5 DEF FlushBatch
  <2>2. BatchInv'
    BY <2>1 DEF BatchInv
  <2>3. CASE commit_end = NoLsn
    BY <1>0, <1>5, <2>1, <2>2, <2>3 DEF FlushBatch, StreamInv
  <2>4. CASE commit_end # NoLsn
    <3>1. commit_end \in Lsn /\ commit_end = 2 * (cur.tx - 1)
      BY <1>0, <1>p, <2>4, CommitEndFacts, PositionFacts DEF Tx
    <3>2. flushed' \in {flushed, commit_end} /\ flushed' >= commit_end
          /\ apc' = "hook" /\ StartHook("flush", commit_end)
      BY <1>5, <1>p, <2>4, <3>1, MaxFacts DEF FlushBatch
    <3>3. hook'.kind = "flush" /\ hook'.lsn = commit_end
          /\ hook'.ckpt = checkpoint /\ hook'.waitOn = NoTable
      BY <1>0, <3>1, <3>2, StartHookFacts DEF HookKinds
    <3>4. StreamInv'
      BY <1>0, <1>p, <2>1, <3>1, <3>2, <3>3 DEF StreamInv
    <3>. QED
      BY <2>2, <3>4
  <2>. QED
    BY <2>3, <2>4
<1>6. CASE send_status_update
  <2>1. /\ \/ confirmed' = confirmed
           \/ confirmed' = received /\ batch = {}
           \/ confirmed' = flushed
        /\ UNCHANGED <<checkpoint, applyVars>>
    BY <1>6, <1>p DEF send_status_update, is_quiescent, Max2
  <2>2. StreamInv'
    BY <1>0, <1>p, <2>1 DEF StreamInv
  <2>3. BatchInv'
    BY <1>0, <2>1 DEF BatchInv
  <2>. QED
    BY <2>2, <2>3
<1>7. CASE process_syncing_tables_when_quiescent
  <2>1. hook'.kind = "quiescent" /\ hook'.lsn = received
        /\ hook'.ckpt = checkpoint /\ hook'.waitOn = NoTable
    BY <1>0, <1>7, StartHookFacts
    DEF process_syncing_tables_when_quiescent, HookKinds, HandoffTypes
  <2>2. cur.k = 0 /\ batch = {} /\ apc' = "hook"
        /\ UNCHANGED <<checkpoint, confirmed, cur, received, flushed, batch>>
    BY <1>7 DEF process_syncing_tables_when_quiescent, is_quiescent
  <2>3. StreamInv'
    BY <1>0, <1>p, <2>1, <2>2 DEF StreamInv
  <2>. QED
    BY <2>2, <2>3 DEF BatchInv
<1>. QED
  BY <1>1, <1>2, <1>3, <1>4, <1>5, <1>6, <1>7 DEF ReceiveStep

\* A hook moves no position; what persist_replication_checkpoint stores is
\* flushed.
LEMMA HookPositions ==
    ASSUME HandoffInv, HookStep
    PROVE  StreamInv' /\ BatchInv' /\ apc' # "failed"
<1>. USE DEF storeVars, applyVars, destVars
<1>0. HandoffTypes /\ StreamInv /\ BatchInv
  BY DEF HandoffInv
<1>p. /\ checkpoint \in Int /\ confirmed \in Int /\ received \in Int
      /\ flushed \in Int /\ cur.tx \in Int /\ cur.k \in Int
      /\ hook.lsn \in Int /\ hook.ckpt \in Int /\ checkpoint >= 0
      /\ CommitLsn(cur.tx) = 2 * cur.tx - 1
      /\ \A m \in batch : m[1] \in Tx /\ m[1] \in Int
                          /\ CommitLsn(m[1]) = 2 * m[1] - 1
  BY <1>0, PositionTypes
<1>1. ASSUME NEW tb \in Tables, EnterCatchup(tb)
      PROVE  StreamInv' /\ BatchInv' /\ apc' # "failed"
  <2>1. hook'.kind = hook.kind /\ hook'.lsn = hook.lsn /\ hook'.ckpt = hook.ckpt
        /\ hook'.waitOn = tb
    BY <1>0, <1>1 DEF EnterCatchup, HandoffTypes, HookType
  <2>2. apc = "hook" /\ apc' = "wait" /\ hook.kind # "flush"
        /\ UNCHANGED <<checkpoint, confirmed, cur, received, flushed, batch>>
    BY <1>1 DEF EnterCatchup
  <2>. QED
    BY <1>0, <2>1, <2>2 DEF StreamInv, BatchInv
<1>2. ASSUME NEW tb, Processed(tb),
             apc = "hook", UNCHANGED <<checkpoint, confirmed, apc, cur, received,
                                       flushed, batch>>
      PROVE  StreamInv' /\ BatchInv' /\ apc' # "failed"
  <2>1. hook'.kind = hook.kind /\ hook'.lsn = hook.lsn /\ hook'.ckpt = hook.ckpt
        /\ hook'.waitOn = hook.waitOn
    BY <1>0, <1>2, ProcessedFacts
  <2>. QED
    BY <1>0, <1>2, <2>1 DEF StreamInv, BatchInv
<1>3. ASSUME NEW tb \in Tables,
             BecomeReady(tb) \/ start_table_sync_worker(tb) \/ SkipTable(tb)
      PROVE  StreamInv' /\ BatchInv' /\ apc' # "failed"
  BY <1>2, <1>3 DEF BecomeReady, start_table_sync_worker, SkipTable
<1>4. CASE wait_for_table_sync_worker_catchup
  <2>1. hook'.kind = hook.kind /\ hook'.lsn = hook.lsn /\ hook'.ckpt = hook.ckpt
        /\ hook'.waitOn = NoTable
    BY <1>0, <1>4, LessTodoFacts DEF wait_for_table_sync_worker_catchup
  <2>2. apc = "wait" /\ apc' = "hook"
        /\ UNCHANGED <<checkpoint, confirmed, cur, received, flushed, batch>>
    BY <1>4 DEF wait_for_table_sync_worker_catchup
  <2>. QED
    BY <1>0, <2>1, <2>2 DEF StreamInv, BatchInv
<1>5. CASE HookEnds
  <2>1. apc = "hook"
        /\ UNCHANGED <<checkpoint, confirmed, cur, received, flushed, batch>>
    BY <1>5 DEF HookEnds
  <2>2. CASE hook.kind = "flush"
    BY <1>0, <1>5, <2>1, <2>2 DEF HookEnds, StreamInv, BatchInv
  <2>3. CASE hook.kind # "flush"
    <3>1. apc' = "stream" /\ hook' = NoHook
      BY <1>5, <2>3 DEF HookEnds
    <3>2. hook'.kind = "none" /\ hook'.ckpt = NoLsn /\ hook'.waitOn = NoTable
      /\ DOMAIN hook'.todo = {}
      BY <3>1, NoneFacts
    <3>. QED
      BY <1>0, <1>p, <2>1, <3>1, <3>2 DEF StreamInv, BatchInv
  <2>. QED
    BY <2>2, <2>3
<1>6. CASE persist_replication_checkpoint
  <2>1. hook.kind = "flush" /\ hook.lsn <= flushed
    BY <1>0, <1>6 DEF persist_replication_checkpoint, StreamInv
  <2>2. checkpoint' \in {checkpoint, hook.lsn} /\ checkpoint' >= checkpoint
        /\ apc' = "stream" /\ hook' = NoHook
        /\ UNCHANGED <<confirmed, cur, received, flushed, batch>>
    BY <1>6, <1>p, MaxFacts DEF persist_replication_checkpoint
  <2>3. hook'.kind = "none" /\ hook'.ckpt = NoLsn /\ hook'.waitOn = NoTable
      /\ DOMAIN hook'.todo = {}
    BY <2>2, NoneFacts
  <2>4. StreamInv'
    BY <1>0, <1>p, <2>1, <2>2, <2>3 DEF StreamInv
  <2>5. BatchInv'
    BY <1>0, <1>p, <2>1, <2>2 DEF BatchInv
  <2>. QED
    BY <2>2, <2>4, <2>5
<1>. QED
  BY <1>1, <1>3, <1>4, <1>5, <1>6 DEF HookStep

\* A new connection reads from a position it has persisted or confirmed.
LEMMA RestartPositions ==
    ASSUME HandoffInv, StartApply, UNCHANGED <<checkpoint, confirmed>>
    PROVE  StreamInv' /\ BatchInv' /\ apc' # "failed"
<1>0. HandoffTypes /\ StreamInv
  BY DEF HandoffInv
<1>1. apc' = "stream" /\ hook' = NoHook /\ batch' = {}
  BY DEF StartApply
<1>2. hook'.kind = "none" /\ hook'.ckpt = NoLsn /\ hook'.waitOn = NoTable
      /\ DOMAIN hook'.todo = {}
  BY <1>1, NoneFacts
<1>3. checkpoint >= NoLsn
  BY <1>0, PositionTypes
<1>4. StreamInv'
  BY <1>0, <1>1, <1>2, <1>3, StartApplyFacts DEF StreamInv
<1>. QED
  BY <1>1, <1>4 DEF BatchInv

\* Every other step leaves the positions alone.
LEMMA PositionFrame ==
    ASSUME HandoffInv, UNCHANGED <<checkpoint, confirmed, applyVars>>
    PROVE  StreamInv' /\ BatchInv' /\ apc' # "failed"
BY DEF HandoffInv, StreamInv, BatchInv, applyVars

----------------------------------------------------------------------------
(* The tables.                                                             *)

\* The invariant of a table speaks of nothing but the table, the apply loop
\* and the persisted checkpoint.
LEMMA TableFrame ==
    ASSUME NEW x \in Tables, TableInv(x), UNCHANGED <<checkpoint, applyVars>>,
           store'[x] = store[x], prev'[x] = prev[x], worker'[x] = worker[x],
           byCopy'[x] = byCopy[x], bySync'[x] = bySync[x],
           \A t \in Tx : \A k \in RowsOf(t, x) :
              <<t, k>> \in byApply' <=> <<t, k>> \in byApply
    PROVE  TableInv(x)'
<1>. USE DEF applyVars
<1>1. PhaseInv(x)'
  BY DEF TableInv, PhaseInv
<1>2. CatchupInv(x)'
  BY DEF TableInv, CatchupInv
<1>3. \A lsn : Synced(x, lsn) => Synced(x, lsn)'
  BY DEF Synced
<1>4. \A lsn : Applied(x, lsn) => Applied(x, lsn)'
  BY DEF Applied
<1>5. TodoInv(x)'
  BY <1>3, <1>4 DEF TableInv, TodoInv, Synced, Applied
<1>6. DataInv(x)'
  BY <1>3, <1>4 DEF TableInv, DataInv, Synced, Applied
<1>7. RowInv(x)' /\ ReadyInv(x)'
  BY DEF TableInv, RowInv, ReadyInv, Fresh
<1>. QED
  BY <1>1, <1>2, <1>5, <1>6, <1>7 DEF TableInv

\* A worker moves to another phase, and nothing else changes.
LEMMA WorkerMoves ==
    ASSUME HandoffInv, NEW tb \in Tables,
           UNCHANGED <<storeVars, applyVars, destVars>>,
           \A x \in Tables \ {tb} : worker'[x] = worker[x],
           PhaseInv(tb)',
           worker'[tb].mem.type = "Catchup" => worker'[tb].mem = worker[tb].mem,
           worker[tb].phase \in {"none", "ending"} =>
              worker'[tb].phase \in {"none", "ending"},
           worker'[tb].phase \in {"dropped", "slot", "copying"} =>
              worker[tb].phase \in {"dropped", "slot", "copying"},
           worker'[tb].phase = "stream" =>
              /\ worker[tb].phase = "syncwait" /\ worker'[tb].snap = worker[tb].snap
              /\ worker'[tb].pos = StartTx(worker[tb].snap),
           worker'[tb].phase \notin {"syncwait", "retry"}
    PROVE  \A x \in Tables : TableInv(x)'
<1>. USE DEF storeVars, applyVars, destVars
<1>0. TableInv(tb)
  BY DEF HandoffInv
<1>1. ASSUME NEW x \in Tables, x # tb PROVE TableInv(x)'
  BY <1>1, TableFrame DEF HandoffInv
<1>2. CatchupInv(tb)'
  BY <1>0 DEF TableInv, CatchupInv
<1>3. TodoInv(tb)'
  BY <1>0 DEF TableInv, TodoInv, Synced, Applied
<1>4. DataInv(tb)'
  <2>1. worker'[tb].phase = "stream" => bySync[tb] = {} /\
           {t \in TxOf(tb) : CommitLsn(t) >= worker[tb].snap
                             /\ t < StartTx(worker[tb].snap)} = {}
    <3>1. SUFFICES ASSUME worker'[tb].phase = "stream"
                   PROVE  bySync[tb] = {} /\
                          \A t \in Tx : ~(CommitLsn(t) >= worker[tb].snap
                                          /\ t < StartTx(worker[tb].snap))
      BY DEF TxOf
    <3>2. worker[tb].phase = "syncwait" /\ worker[tb].snap \in Lsn
      BY <1>0, <3>1 DEF TableInv, PhaseInv
    <3>. QED
      <4>1. bySync[tb] = {}
        BY <1>0, <3>2 DEF TableInv, DataInv
      <4>2. \A t \in Tx : t < StartTx(worker[tb].snap) <=> CommitLsn(t) < worker[tb].snap
        BY <3>2, StartTxFacts
      <4>3. \A t \in Tx : CommitLsn(t) \in Int
        BY PositionFacts DEF CommitLsn
      <4>4. worker[tb].snap \in Int
        BY <3>2 DEF Lsn
      <4>. QED
        BY <4>1, <4>2, <4>3, <4>4
  <2>. QED
    BY <1>0, <2>1 DEF TableInv, DataInv, Synced, Applied
<1>5. RowInv(tb)' /\ ReadyInv(tb)'
  BY <1>0 DEF TableInv, RowInv, ReadyInv, Fresh
<1>. QED
  BY <1>1, <1>2, <1>3, <1>4, <1>5 DEF TableInv

\* The steps of a worker that change nothing but the worker.
LEMMA QuietWorkerSteps ==
    ASSUME HandoffInv, NEW tb \in Tables,
           \/ acquire_run_permit(tb) \/ SyncNotRequired(tb)
           \/ create_slot_with_transaction(tb) \/ start_logical_replication(tb)
           \/ cleanup_resources(tb) \/ RetryWithoutDelay(tb) \/ ErrorNotPersisted(tb)
    PROVE  \A x \in Tables : TableInv(x)'
<1>. USE DEF storeVars
<1>0. HandoffTypes /\ PhaseInv(tb)
  BY DEF HandoffInv, TableInv
<1>. DEFINE w == worker[tb]
<1>w. w \in WorkerType /\ w.mem \in States
  BY <1>0, WorkerFacts
<1>1. CASE acquire_run_permit(tb)
  <2>1. worker'[tb] = [w EXCEPT !.phase = "check"] /\ w.phase = "permit"
        /\ \A x \in Tables \ {tb} : worker'[x] = worker[x]
    BY <1>0, <1>1 DEF acquire_run_permit, HandoffTypes
  <2>2. worker'[tb].phase = "check" /\ worker'[tb].mem = w.mem
    BY <1>w, <2>1 DEF WorkerType
  <2>3. PhaseInv(tb)'
    BY <1>0, <1>1, <2>1, <2>2 DEF acquire_run_permit, PhaseInv
  <2>. QED
    BY <1>1, <2>1, <2>2, <2>3, WorkerMoves DEF acquire_run_permit
<1>2. ASSUME WorkerEnds(tb, w.mem), UNCHANGED <<storeVars, applyVars, destVars>>
      PROVE  \A x \in Tables : TableInv(x)'
  <2>1. /\ worker'[tb].phase = "none" /\ worker'[tb].mem = w.mem
        /\ \A x \in Tables \ {tb} : worker'[x] = worker[x]
    BY <1>0, <1>w, <1>2, WorkerEndsFacts
  <2>2. PhaseInv(tb)'
    BY <2>1 DEF PhaseInv
  <2>. QED
    BY <1>2, <2>1, <2>2, WorkerMoves
<1>3. CASE create_slot_with_transaction(tb)
  <2>1. PICK snap \in {2 * walEnd, 2 * walEnd + 1} :
           worker' = [worker EXCEPT ![tb].phase = "copying", ![tb].snap = snap]
    BY <1>3 DEF create_slot_with_transaction
  <2>2. snap \in Lsn
    BY <1>0, PositionFacts DEF HandoffTypes, Lsn
  <2>3. worker'[tb] = [w EXCEPT !.phase = "copying", !.snap = snap]
        /\ \A x \in Tables \ {tb} : worker'[x] = worker[x]
    BY <1>0, <2>1 DEF HandoffTypes
  <2>4. worker'[tb].phase = "copying" /\ worker'[tb].snap = snap
        /\ worker'[tb].mem = w.mem
    BY <1>w, <2>3 DEF WorkerType
  <2>5. w.phase = "slot" /\ UNCHANGED <<storeVars, applyVars, destVars>>
    BY <1>3 DEF create_slot_with_transaction
  <2>6. PhaseInv(tb)'
    BY <1>0, <2>2, <2>4, <2>5 DEF PhaseInv
  <2>. QED
    BY <2>3, <2>4, <2>5, <2>6, WorkerMoves
<1>4. CASE start_logical_replication(tb)
  <2>1. worker'[tb] = [w EXCEPT !.phase = "stream", !.pos = StartTx(w.snap)]
        /\ \A x \in Tables \ {tb} : worker'[x] = worker[x]
    BY <1>0, <1>4 DEF start_logical_replication, HandoffTypes
  <2>2. worker'[tb].phase = "stream" /\ worker'[tb].snap = w.snap
        /\ worker'[tb].mem = w.mem /\ worker'[tb].pos = StartTx(w.snap)
    BY <1>w, <2>1 DEF WorkerType
  <2>3. w.phase = "syncwait" /\ w.mem.type = "Catchup" /\ w.snap \in Lsn
        /\ UNCHANGED <<storeVars, applyVars, destVars>>
    BY <1>0, <1>4 DEF start_logical_replication, PhaseInv
  <2>4. w.mem.lsn >= 2 * StartTx(w.snap) - 2 /\ StartTx(w.snap) \in Int
    <3>1. w.mem.lsn \in Int /\ w.snap \in Int /\ StartTx(w.snap) \in Int
          /\ w.mem.lsn >= w.snap
      <4>1. w.mem.lsn \in Int
        BY <1>w, StateFacts
      <4>2. StartTx(w.snap) \in 1 .. NumTx + 1
        BY <2>3, StartTxFacts
      <4>3. w.mem.lsn >= w.snap
        BY <1>0, <2>3 DEF PhaseInv
      <4>. QED
        BY <2>3, <4>1, <4>2, <4>3 DEF Lsn
    <3>. QED
      BY <2>3, <3>1, StartTxFacts
  <2>5. PhaseInv(tb)'
    BY <1>0, <2>2, <2>3, <2>4 DEF PhaseInv
  <2>. QED
    BY <2>1, <2>2, <2>3, <2>5, WorkerMoves
<1>5. CASE RetryWithoutDelay(tb)
  <2>1. store[tb] \in States /\ store[tb].type \notin {"SyncWait", "Catchup"}
    BY <1>0, WorkerFacts, StateFacts
  <2>2. w.attempts < MaxAttempts /\ w.phase \in Retriable
        /\ UNCHANGED <<storeVars, applyVars, destVars>>
    BY <1>5 DEF RetryWithoutDelay, CanRetry
  <2>3. /\ worker'[tb].phase = "permit" /\ worker'[tb].mem = store[tb]
        /\ \A x \in Tables \ {tb} : worker'[x] = worker[x]
    BY <1>0, <1>5, <2>1, <2>2, RetriedFacts DEF RetryWithoutDelay
  <2>4. store[tb].type \in Copying \cup {"Errored"}
    BY <1>0, <2>2 DEF PhaseInv, Retriable, Copying
  <2>5. PhaseInv(tb)'
    BY <2>2, <2>3, <2>4 DEF PhaseInv
  <2>6. w.phase \notin {"none", "ending"}
    BY <2>2 DEF Retriable
  <2>. QED
    BY <2>1, <2>2, <2>3, <2>5, <2>6, WorkerMoves
<1>. QED
  BY <1>1, <1>2, <1>3, <1>4, <1>5
  DEF SyncNotRequired, cleanup_resources, ErrorNotPersisted

\* The copy: its steps concern a table that the apply worker has not touched.
LEMMA CopySteps ==
    ASSUME HandoffInv, NEW tb \in Tables,
           drop_table_for_copy(tb) \/ EnterDataSync(tb) \/ table_copy(tb)
    PROVE  \A x \in Tables : TableInv(x)'
<1>. USE DEF storeVars, applyVars, destVars
<1>0. HandoffTypes /\ TableInv(tb) /\ PhaseInv(tb)
  BY DEF HandoffInv, TableInv
<1>. DEFINE w == worker[tb]
<1>w. w \in WorkerType /\ w.mem \in States
  BY <1>0, WorkerFacts
<1>1. CASE drop_table_for_copy(tb)
  <2>1. worker'[tb] = [w EXCEPT !.phase = "dropped"] /\ w.phase = "check"
        /\ \A x \in Tables \ {tb} : worker'[x] = worker[x]
    BY <1>0, <1>1 DEF drop_table_for_copy, HandoffTypes
  <2>2. worker'[tb].phase = "dropped" /\ worker'[tb].mem = w.mem
    BY <1>w, <2>1 DEF WorkerType
  <2>3. /\ byCopy'[tb] = {} /\ bySync'[tb] = {}
        /\ \A x \in Tables \ {tb} : byCopy'[x] = byCopy[x] /\ bySync'[x] = bySync[x]
    BY <1>0, <1>1 DEF drop_table_for_copy, HandoffTypes
  <2>4. /\ w.mem = store[tb] /\ w.mem.type \in Copying
        /\ UNCHANGED <<storeVars, confirmed, applyVars>>
        /\ byApply' \subseteq byApply
    BY <1>0, <1>1, <2>1 DEF drop_table_for_copy, PhaseInv, Copying
  <2>5. ASSUME NEW x \in Tables, x # tb PROVE TableInv(x)'
    <3>1. \A t \in Tx : \A k \in RowsOf(t, x) :
             <<t, k>> \in byApply' <=> <<t, k>> \in byApply
      BY <1>1, <2>5 DEF drop_table_for_copy, RowsOf
    <3>. QED
      BY <2>1, <2>3, <2>4, <2>5, <3>1, TableFrame DEF HandoffInv
  <2>6. PhaseInv(tb)' /\ CatchupInv(tb)'
    BY <2>2, <2>4 DEF PhaseInv, CatchupInv, Copying
  <2>7. TodoInv(tb)'
    BY <1>0, <2>1, <2>4 DEF TableInv, TodoInv, Copying
  <2>8. DataInv(tb)'
    BY <2>2, <2>3, <2>4 DEF DataInv, Copying, Handed
  <2>9. RowInv(tb)' /\ ReadyInv(tb)'
    BY <1>0, <2>3, <2>4 DEF TableInv, RowInv, ReadyInv, Fresh, Copying
  <2>. QED
    BY <2>5, <2>6, <2>7, <2>8, <2>9 DEF TableInv
<1>2. CASE EnterDataSync(tb)
  <2>. DEFINE state == Plain("DataSync")
  <2>1. state \in States /\ "slot" \in Permitted /\ state.type = "DataSync"
    BY StateFacts DEF Copying, Permitted
  <2>2. set_and_store(tb, state, "slot") /\ w.phase = "dropped"
        /\ UNCHANGED <<prev, checkpoint, applyVars, destVars>>
    BY <1>2 DEF EnterDataSync
  <2>. HIDE DEF state
  <2>3. /\ worker'[tb].mem = state /\ worker'[tb].phase = "slot"
        /\ \A x \in Tables \ {tb} : worker'[x] = worker[x] /\ store'[x] = store[x]
        /\ store'[tb] = state
    BY <1>0, <2>1, <2>2, SetAndStoreFacts
  <2>4. ASSUME NEW x \in Tables, x # tb PROVE TableInv(x)'
    BY <2>2, <2>3, <2>4, TableFrame DEF HandoffInv
  <2>5. PhaseInv(tb)' /\ CatchupInv(tb)'
    BY <2>1, <2>3 DEF PhaseInv, CatchupInv
  <2>6. TodoInv(tb)'
    BY <1>0, <2>1, <2>2, <2>3 DEF TableInv, TodoInv, Copying
  <2>7. DataInv(tb)'
    BY <1>0, <2>1, <2>2, <2>3 DEF TableInv, DataInv, Handed
  <2>8. Fresh(tb)
    BY <1>0, <2>2 DEF PhaseInv, Fresh
  <2>9. RowInv(tb)' /\ ReadyInv(tb)'
    BY <1>0, <2>1, <2>2, <2>3, <2>8 DEF TableInv, RowInv, ReadyInv
  <2>. QED
    BY <2>4, <2>5, <2>6, <2>7, <2>9 DEF TableInv
<1>3. CASE table_copy(tb)
  <2>. DEFINE state == TableState("SyncWait", w.snap)
  <2>1. state.type = "SyncWait" /\ state.lsn = w.snap
        /\ Plain("FinishedCopy").type = "FinishedCopy"
    BY StateFacts DEF Copying
  <2>2. w.phase = "copying" /\ UNCHANGED <<prev, checkpoint, applyVars, bySync, byApply>>
    BY <1>3 DEF table_copy
  <2>3. worker'[tb] = [w EXCEPT !.phase = "syncwait", !.mem = state]
        /\ \A x \in Tables \ {tb} : worker'[x] = worker[x]
    BY <1>0, <1>3 DEF table_copy, HandoffTypes
  <2>4. store'[tb] = Plain("FinishedCopy")
        /\ byCopy'[tb] = {t \in TxOf(tb) : CommitLsn(t) < w.snap}
        /\ \A x \in Tables \ {tb} : store'[x] = store[x] /\ byCopy'[x] = byCopy[x]
    BY <1>0, <1>3 DEF table_copy, HandoffTypes
  <2>. HIDE DEF state
  <2>5. worker'[tb].phase = "syncwait" /\ worker'[tb].mem = state
        /\ worker'[tb].snap = w.snap
    BY <1>w, <2>3 DEF WorkerType
  <2>6. w.snap \in Lsn /\ w.snap \in Int /\ store[tb].type = "DataSync"
    BY <1>0, <2>2 DEF PhaseInv, Lsn
  <2>7. ASSUME NEW x \in Tables, x # tb PROVE TableInv(x)'
    BY <2>2, <2>3, <2>4, <2>7, TableFrame DEF HandoffInv
  <2>8. PhaseInv(tb)' /\ CatchupInv(tb)'
    BY <2>1, <2>4, <2>5, <2>6 DEF PhaseInv, CatchupInv
  <2>9. TodoInv(tb)'
    BY <1>0, <2>1, <2>2, <2>4 DEF TableInv, TodoInv, Copying
  <2>10. DataInv(tb)'
    BY <1>0, <2>1, <2>2, <2>4, <2>5 DEF TableInv, DataInv, Handed
  <2>11. Fresh(tb)
    BY <2>6 DEF Fresh, Copying
  <2>12. RowInv(tb)' /\ ReadyInv(tb)'
    BY <1>0, <2>1, <2>2, <2>4, <2>11 DEF TableInv, RowInv, ReadyInv
  <2>. QED
    BY <2>7, <2>8, <2>9, <2>10, <2>12 DEF TableInv
<1>. QED
  BY <1>1, <1>2, <1>3

\* The catch-up stream: what it has brought, and that a catch-up that completes
\* leaves neither a gap nor an overlap with what the apply worker has read.
LEMMA CatchupSteps ==
    ASSUME HandoffInv, NEW tb \in Tables, SyncTransaction(tb) \/ SyncKeepalive(tb)
    PROVE  \A x \in Tables : TableInv(x)'
<1>. USE DEF storeVars, applyVars, destVars
<1>0. HandoffTypes /\ StreamInv /\ TableInv(tb) /\ PhaseInv(tb)
  BY DEF HandoffInv, TableInv
<1>. DEFINE w == worker[tb]
            \* the catch-up stream stands before next, at position lsn
            Moves(next, lsn) ==
               /\ next \in w.pos .. NumTx + 1 /\ lsn \in Lsn
               /\ bySync'[tb] = {t \in TxOf(tb) : CommitLsn(t) >= w.snap /\ t < next}
               /\ lsn >= w.mem.lsn => lsn >= 2 * next - 2 /\ lsn <= 2 * next - 1
               /\ lsn < w.mem.lsn => w.mem.lsn >= 2 * next - 2
               /\ try_complete_catchup(tb, lsn, next)
<1>w. w \in WorkerType /\ w.mem \in States /\ w.phase = "stream" /\ w.mem.type = "Catchup"
      /\ w.mem.lsn \in Int /\ w.mem.lsn >= 2 * w.pos - 2 /\ w.pos \in 1 .. NumTx + 1
      /\ w.pos >= StartTx(w.snap) /\ w.snap \in Lsn /\ w.snap \in Int
  <2>1. w.phase = "stream"
    BY DEF SyncTransaction, SyncKeepalive
  <2>2. w.snap \in Lsn /\ w.mem.type = "Catchup" /\ w.mem.lsn >= 2 * w.pos - 2
        /\ w.pos >= StartTx(w.snap)
    BY <1>0, <2>1 DEF PhaseInv
  <2>3. StartTx(w.snap) \in 1 .. NumTx + 1
    BY <2>2, StartTxFacts
  <2>4. w \in WorkerType /\ w.mem \in States /\ w.pos \in 0 .. NumTx + 1
        /\ w.mem.lsn \in Int
    BY <1>0, WorkerFacts, StateFacts
  <2>. QED
    BY <2>1, <2>2, <2>3, <2>4, PositionFacts DEF Lsn
<1>f. UNCHANGED <<prev, checkpoint, applyVars, byCopy, byApply>>
  BY DEF SyncTransaction, SyncKeepalive
<1>b. /\ byCopy[tb] = {t \in TxOf(tb) : CommitLsn(t) < w.snap}
      /\ bySync[tb] = {t \in TxOf(tb) : CommitLsn(t) >= w.snap /\ t < w.pos}
  BY <1>0, <1>w DEF TableInv, DataInv
<1>c. \A t \in Tx : t \in Int /\ CommitLsn(t) = 2 * t - 1
  BY PositionFacts
<1>1. /\ \E next \in Int, lsn \in Int : Moves(next, lsn)
      /\ \A x \in Tables \ {tb} : bySync'[x] = bySync[x]
  <2>1. CASE SyncTransaction(tb)
    <3>1. w.pos <= walEnd /\ w.pos \in Tx
          /\ bySync' = [bySync EXCEPT ![tb] = bySync[tb] \cup ({w.pos} \cap TxOf(tb))]
          /\ try_complete_catchup(tb, EndLsn(w.pos), w.pos + 1)
      BY <1>0, <1>w, <2>1, PositionFacts DEF SyncTransaction, HandoffTypes, Tx
    <3>2. EndLsn(w.pos) \in Lsn /\ EndLsn(w.pos) = 2 * w.pos /\ w.pos \in Int
          /\ w.pos + 1 \in w.pos .. NumTx + 1
      BY <1>w, <3>1, PositionFacts DEF Tx
    <3>3. /\ bySync'[tb] = bySync[tb] \cup ({w.pos} \cap TxOf(tb))
          /\ \A x \in Tables \ {tb} : bySync'[x] = bySync[x]
      BY <1>0, <3>1 DEF HandoffTypes
    <3>4. CommitLsn(w.pos) >= w.snap
      <4>1. ~(CommitLsn(w.pos) < w.snap)
        BY <1>w, <3>1, <3>2, StartTxFacts
      <4>. QED
        BY <1>c, <1>w, <3>1, <4>1
    <3>5. bySync'[tb] = {t \in TxOf(tb) : CommitLsn(t) >= w.snap /\ t < w.pos + 1}
      <4>1. TxOf(tb) \subseteq Tx
        BY DEF TxOf
      <4>. QED
        BY <1>b, <1>c, <3>2, <3>3, <3>4, <4>1
    <3>6. Moves(w.pos + 1, EndLsn(w.pos))
      BY <1>w, <3>1, <3>2, <3>5
    <3>. QED
      <4>1. w.pos + 1 \in Int /\ EndLsn(w.pos) \in Int
        BY <3>2
      <4>. QED
        BY <3>3, <3>6, <4>1
  <2>2. CASE SyncKeepalive(tb)
    <3>1. PICK lsn \in w.mem.lsn .. CommitLsn(w.pos) :
             try_complete_catchup(tb, lsn, w.pos)
      BY <2>2 DEF SyncKeepalive
    <3>2. w.pos \in Int /\ CommitLsn(w.pos) = 2 * w.pos - 1
      BY <1>w, PositionFacts
    <3>3. lsn \in Lsn /\ lsn \in Int
      BY <1>w, <3>2, PositionFacts DEF Lsn
    <3>4. Moves(w.pos, lsn)
      BY <1>b, <1>w, <2>2, <3>1, <3>2, <3>3 DEF SyncKeepalive
    <3>. QED
      BY <2>2, <3>2, <3>3, <3>4 DEF SyncKeepalive
  <2>. QED
    BY <2>1, <2>2
<1>2. PICK next \in Int, lsn \in Int : Moves(next, lsn)
  BY <1>1
<1>3. next \in w.pos .. NumTx + 1 /\ next \in 0 .. NumTx + 1 /\ lsn \in Lsn
  BY <1>2, <1>w
<1>4. \A x \in Tables \ {tb} : worker'[x] = worker[x] /\ store'[x] = store[x]
  BY <1>0, <1>2, <1>3, CompleteFacts
<1>5. ASSUME NEW x \in Tables, x # tb PROVE TableInv(x)'
  BY <1>1, <1>4, <1>5, <1>f, TableFrame DEF HandoffInv
<1>6. byCopy'[tb] \cap bySync'[tb] = {}
  <2>1. \A t \in Tx : ~(CommitLsn(t) < w.snap /\ CommitLsn(t) >= w.snap)
    BY <1>c, <1>w
  <2>. QED
    BY <1>2, <1>b, <1>f, <2>1 DEF TxOf
<1>7. Fresh(tb)
  BY <1>0, <1>w DEF PhaseInv, Fresh, Copying
<1>8. \A t \in Tx : \A k \in RowsOf(t, tb) : <<t, k>> \notin batch' \cup byApply'
  BY <1>0, <1>7, <1>f DEF TableInv, RowInv
<1>9. RowInv(tb)'
  BY <1>8 DEF RowInv
<1>10. CASE ~(lsn >= w.mem.lsn)
  <2>1. store' = store /\ worker'[tb] = [w EXCEPT !.pos = next]
    BY <1>0, <1>2, <1>3, <1>10, CompleteFacts
  <2>2. worker'[tb].phase = "stream" /\ worker'[tb].mem = w.mem
        /\ worker'[tb].snap = w.snap /\ worker'[tb].pos = next
    BY <1>w, <2>1 DEF WorkerType
  <2>3. w.mem.lsn >= 2 * next - 2 /\ next >= StartTx(w.snap)
    <3>1. StartTx(w.snap) \in Int
      BY <1>w, StartTxFacts
    <3>. QED
      BY <1>2, <1>3, <1>w, <1>10, <3>1
  <2>4. PhaseInv(tb)' /\ CatchupInv(tb)'
    BY <1>0, <1>w, <1>f, <2>1, <2>2, <2>3 DEF TableInv, PhaseInv, CatchupInv
  <2>5. TodoInv(tb)'
    BY <1>0, <1>w, <1>f, <2>1 DEF TableInv, TodoInv
  <2>6. DataInv(tb)'
    BY <1>0, <1>2, <1>6, <1>b, <1>f, <1>w, <2>1, <2>2 DEF PhaseInv, DataInv, Handed
  <2>7. ReadyInv(tb)'
    BY <1>0, <1>f, <2>1 DEF TableInv, ReadyInv
  <2>. QED
    BY <1>5, <1>9, <2>4, <2>5, <2>6, <2>7 DEF TableInv
<1>11. CASE lsn >= w.mem.lsn
  <2>1. /\ worker'[tb].phase = "ending" /\ store'[tb] = TableState("SyncDone", lsn)
        /\ worker'[tb].mem = store'[tb]
    BY <1>0, <1>2, <1>3, <1>11, CompleteFacts
  <2>2. store'[tb].type = "SyncDone" /\ store'[tb].lsn = lsn
    BY <2>1, StateFacts
  <2>3. PhaseInv(tb)' /\ CatchupInv(tb)' /\ ReadyInv(tb)'
    BY <2>1, <2>2 DEF PhaseInv, CatchupInv, ReadyInv, Handed
  <2>4. apc = "wait" /\ hook.waitOn = tb /\ w.mem.lsn >= hook.lsn
    BY <1>0, <1>w DEF TableInv, CatchupInv
  <2>5. Synced(tb, lsn)'
    <3>1. \A t \in Tx : CommitLsn(t) < lsn <=> t < next
      BY <1>2, <1>3, <1>11, <1>c
    <3>2. \A t \in Tx : CommitLsn(t) < w.snap => t < next
      <4>1. \A t \in Tx : CommitLsn(t) < w.snap => t < StartTx(w.snap)
        BY <1>w, StartTxFacts
      <4>2. StartTx(w.snap) \in Int
        BY <1>w, StartTxFacts
      <4>. QED
        BY <1>3, <1>c, <1>w, <4>1, <4>2
    <3>3. \A t \in Tx : CommitLsn(t) < w.snap \/ CommitLsn(t) >= w.snap
      BY <1>c, <1>w
    <3>4. TxOf(tb) \subseteq Tx
      BY DEF TxOf
    <3>. QED
      BY <1>2, <1>b, <1>f, <3>1, <3>2, <3>3, <3>4 DEF Synced
  <2>6. Applied(tb, lsn)'
    <3>1. cur.tx \in Int /\ received \in Int /\ hook.lsn \in Int /\ cur.k = 0
          /\ hook.lsn = received /\ 2 * cur.tx - 2 <= received
      BY <1>0, <2>4, PositionTypes DEF StreamInv
    <3>2. \A t \in Tx : CommitLsn(t) >= lsn => ~(t < cur.tx)
      BY <1>2, <1>3, <1>11, <1>c, <1>w, <2>4, <3>1
    <3>3. \A t \in Tx : \A k \in RowsOf(t, tb) : ~(k < cur.k)
      BY <3>1, RowFacts DEF RowsOf
    <3>. QED
      BY <1>f, <3>2, <3>3 DEF Applied
  <2>7. TodoInv(tb)'
    BY <1>0, <1>w, <1>f, <2>4 DEF TableInv, TodoInv
  <2>8. DataInv(tb)'
    BY <1>6, <2>1, <2>2, <2>5, <2>6 DEF DataInv, Synced, Applied
  <2>. QED
    BY <1>5, <1>9, <2>3, <2>7, <2>8 DEF TableInv
<1>. QED
  BY <1>10, <1>11

\* Failing stores Errored over what the retry will restore; a table that is
\* retried is one the apply worker has not touched.
LEMMA FailureSteps ==
    ASSUME HandoffInv, NEW tb \in Tables,
           FailTimed(tb) \/ FailManual(tb) \/ RetryAfterDelay(tb)
    PROVE  \A x \in Tables : TableInv(x)'
<1>. USE DEF storeVars, applyVars, destVars
<1>0. HandoffTypes /\ TableInv(tb) /\ PhaseInv(tb)
  BY DEF HandoffInv, TableInv
<1>. DEFINE w == worker[tb]
<1>w. w \in WorkerType /\ w.attempts \in 0 .. MaxAttempts
      /\ prev[tb] \in Durable /\ store[tb] \in Durable
  BY <1>0, WorkerFacts
<1>e. Plain("Errored").type = "Errored" /\ Plain("Errored") \in States
  BY StateFacts
<1>f. UNCHANGED <<checkpoint, applyVars, destVars>>
  BY DEF FailTimed, FailManual, RetryAfterDelay
<1>1. ASSUME StoreErrored(tb)
      PROVE  /\ store'[tb].type = "Errored" /\ prev'[tb] = store[tb]
             /\ \A x \in Tables \ {tb} : store'[x] = store[x] /\ prev'[x] = prev[x]
  BY <1>0, <1>1, <1>e DEF StoreErrored, HandoffTypes
<1>2. CASE FailTimed(tb)
  <2>1. w.phase \in Retriable /\ w.attempts < MaxAttempts /\ StoreErrored(tb)
    BY <1>2 DEF FailTimed, CanRetry
  <2>2. worker'[tb] = [NoWorker EXCEPT !.phase = "retry", !.mem = Plain("Errored"),
                                       !.attempts = w.attempts]
        /\ \A x \in Tables \ {tb} : worker'[x] = worker[x]
    BY <1>0, <1>2 DEF FailTimed, HandoffTypes
  <2>3. worker'[tb].phase = "retry" /\ worker'[tb].mem = Plain("Errored")
        /\ worker'[tb].attempts = w.attempts
    BY <2>2, NoneFacts DEF WorkerType
  <2>4. store[tb].type \in Copying \cup {"Errored"}
    BY <1>0, <2>1 DEF PhaseInv, Retriable, Copying
  <2>5. ASSUME NEW x \in Tables, x # tb PROVE TableInv(x)'
    BY <1>1, <1>f, <2>1, <2>2, <2>5, TableFrame DEF HandoffInv
  <2>6. PhaseInv(tb)' /\ CatchupInv(tb)' /\ ReadyInv(tb)'
    BY <1>1, <1>e, <2>1, <2>3, <2>4 DEF PhaseInv, CatchupInv, ReadyInv
  <2>7. TodoInv(tb)'
    BY <1>0, <1>1, <1>f, <2>1 DEF TableInv, TodoInv, Retriable
  <2>8. DataInv(tb)'
    BY <1>0, <1>1, <1>f, <2>1, <2>3 DEF TableInv, DataInv, Handed
  <2>9. Fresh(tb)' => Fresh(tb)
    BY <1>1, <2>1 DEF Fresh, Copying
  <2>10. RowInv(tb)'
    BY <1>0, <1>f, <2>9 DEF TableInv, RowInv
  <2>. QED
    BY <2>5, <2>6, <2>7, <2>8, <2>10 DEF TableInv
<1>3. CASE FailManual(tb)
  <2>1. w.phase \in Retriable \cup {"ending"} /\ StoreErrored(tb)
        /\ WorkerEnds(tb, Plain("Errored"))
    BY <1>3 DEF FailManual
  <2>2. /\ worker'[tb].phase = "none" /\ worker'[tb].mem = Plain("Errored")
        /\ \A x \in Tables \ {tb} : worker'[x] = worker[x]
    BY <1>0, <1>e, <2>1, WorkerEndsFacts
  <2>3. ASSUME NEW x \in Tables, x # tb PROVE TableInv(x)'
    BY <1>1, <1>f, <2>1, <2>2, <2>3, TableFrame DEF HandoffInv
  <2>4. PhaseInv(tb)' /\ CatchupInv(tb)' /\ ReadyInv(tb)'
    BY <1>1, <1>e, <2>1, <2>2 DEF PhaseInv, CatchupInv, ReadyInv
  <2>5. TodoInv(tb)'
    BY <1>0, <1>1, <1>f, <2>1, <2>2 DEF TableInv, TodoInv, Synced, Applied
  <2>6. DataInv(tb)'
    BY <1>0, <1>1, <1>f, <2>1, <2>2 DEF TableInv, DataInv, Handed
  <2>7. ~Fresh(tb)'
    BY <1>1, <2>1, <2>2 DEF Fresh, Copying
  <2>8. RowInv(tb)'
    BY <1>0, <1>f, <2>7 DEF TableInv, RowInv
  <2>. QED
    BY <2>3, <2>4, <2>5, <2>6, <2>8 DEF TableInv
<1>4. CASE RetryAfterDelay(tb)
  <2>1. w.phase = "retry" /\ Retried(tb, prev[tb])
    BY <1>4 DEF RetryAfterDelay
  <2>2. store[tb].type = "Errored" /\ prev[tb].type \in Copying \cup {"Errored"}
        /\ w.attempts < MaxAttempts
    BY <1>0, <2>1 DEF PhaseInv
  <2>3. /\ worker'[tb].phase = "permit" /\ worker'[tb].mem = prev[tb]
        /\ \A x \in Tables \ {tb} : worker'[x] = worker[x]
    BY <1>0, <1>w, <2>1, <2>2, RetriedFacts, StateFacts
  <2>4. /\ store'[tb] = prev[tb]
        /\ \A x \in Tables \ {tb} : store'[x] = store[x] /\ prev'[x] = prev[x]
    BY <1>0, <1>4 DEF RetryAfterDelay, HandoffTypes
  <2>5. ASSUME NEW x \in Tables, x # tb PROVE TableInv(x)'
    BY <1>f, <2>3, <2>4, <2>5, TableFrame DEF HandoffInv
  <2>6. PhaseInv(tb)' /\ CatchupInv(tb)' /\ ReadyInv(tb)'
    BY <2>2, <2>3, <2>4 DEF PhaseInv, CatchupInv, ReadyInv, Copying
  <2>7. TodoInv(tb)'
    BY <1>0, <1>f, <2>1, <2>2, <2>4 DEF TableInv, TodoInv
  <2>8. DataInv(tb)'
    BY <1>0, <1>f, <2>2, <2>3, <2>4 DEF TableInv, DataInv, Handed, Copying
  <2>9. Fresh(tb)' => Fresh(tb)
    BY <2>1, <2>3, <2>4 DEF Fresh
  <2>10. RowInv(tb)'
    BY <1>0, <1>f, <2>9 DEF TableInv, RowInv
  <2>. QED
    BY <2>5, <2>6, <2>7, <2>8, <2>10 DEF TableInv
<1>. QED
  BY <1>2, <1>3, <1>4

\* A table that was handed over is in the hands of no worker but an ending one,
\* and everybody sees its stored state.
LEMMA HandedFacts ==
    ASSUME HandoffTypes, NEW x \in Tables, PhaseInv(x)
    PROVE  /\ store[x].type \in Handed =>
                 /\ worker[x].phase \in {"none", "ending"}
                 /\ CurrentState(x) = store[x] /\ ~Fresh(x)
           /\ CurrentState(x).type \in Handed => CurrentState(x) = store[x]
<1>1. worker[x].phase \in Permitted \cup {"none", "permit", "retry"}
  BY WorkerFacts DEF WorkerType
<1>2. store[x].type \in Handed => worker[x].phase \in {"none", "ending"}
  BY <1>1 DEF PhaseInv, Permitted, Copying, Handed
<1>3. worker[x].phase # "none" /\ worker[x].mem.type \in Handed =>
         worker[x].mem = store[x]
  BY <1>1 DEF PhaseInv, Permitted, Handed
<1>4. worker[x].phase = "ending" => worker[x].mem = store[x]
  BY DEF PhaseInv
<1>. QED
  BY <1>2, <1>3, <1>4 DEF CurrentState, Active, Fresh, Copying, Handed

\* What a step of the stream leaves alone, and the list of a hook it starts.
LEMMA StreamTables ==
    ASSUME HandoffInv, apc = "stream", NEW x \in Tables,
           UNCHANGED <<storeVars, worker, byCopy, bySync>>,
           \/ hook' = hook
           \/ \A y \in DOMAIN hook'.todo :
                 y \in Tables /\ is_syncing(store[y]) /\ hook'.todo[y] = store[y],
           DataInv(x)', RowInv(x)', ReadyInv(x)'
    PROVE  TableInv(x)'
<1>. USE DEF storeVars
<1>0. HandoffTypes /\ StreamInv /\ TableInv(x)
  BY DEF HandoffInv
<1>1. PhaseInv(x)'
  BY <1>0 DEF TableInv, PhaseInv
<1>2. CatchupInv(x)'
  BY <1>0 DEF TableInv, CatchupInv
<1>3. CASE hook' = hook
  <2>1. TodoInv(x)'
    BY <1>0, <1>3 DEF StreamInv, TodoInv
  <2>. QED
    BY <1>1, <1>2, <2>1 DEF TableInv
<1>4. CASE \A y \in DOMAIN hook'.todo :
              y \in Tables /\ is_syncing(store[y]) /\ hook'.todo[y] = store[y]
  <2>1. SUFFICES ASSUME x \in DOMAIN hook'.todo PROVE TodoInv(x)'
    BY <1>1, <1>2 DEF TableInv, TodoInv
  <2>2. hook'.todo[x] = store[x] /\ is_syncing(store[x])
    BY <1>4, <2>1
  <2>3. CASE store[x].type = "SyncDone"
    <3>1. worker[x].phase \in {"none", "ending"}
      BY <1>0, <2>3, HandedFacts DEF TableInv, Handed
    <3>2. Synced(x, store[x].lsn)' /\ Applied(x, store[x].lsn)'
      BY <2>3 DEF DataInv, Handed
    <3>3. Synced(x, hook.todo[x].lsn)' /\ Applied(x, hook.todo[x].lsn)'
      BY <2>2, <3>2 DEF Synced, Applied
    <3>. QED
      BY <2>2, <2>3, <3>1, <3>3 DEF TodoInv
  <2>4. CASE store[x].type # "SyncDone"
    <3>1. store[x] \in States /\ store[x].type \notin {"SyncWait", "Catchup"}
      BY <1>0, WorkerFacts, StateFacts
    <3>2. store[x].type \in Copying
      BY <2>2, <2>4, <3>1 DEF is_syncing, States, Copying
    <3>. QED
      BY <2>2, <2>4, <3>2 DEF TodoInv
  <2>. QED
    BY <2>3, <2>4
<1>. QED
  BY <1>3, <1>4

\* The step of the stream changes which messages of x the apply worker has, and
\* how far it has read, in the same way.
LEMMA StreamData ==
    ASSUME HandoffInv, NEW x \in Tables, UNCHANGED <<storeVars, worker, byCopy, bySync>>,
           store[x].type \in Handed => Applied(x, store[x].lsn)'
    PROVE  DataInv(x)'
<1>1. DataInv(x)
  BY DEF HandoffInv, TableInv
<1>. QED
  BY <1>1 DEF DataInv, Synced, Applied, storeVars

\* A row message: the apply worker takes it exactly when the table is its own,
\* and then finds a decoder for it.
LEMMA RowStep ==
    ASSUME HandoffInv, handle_row_message
    PROVE  apc' # "failed" /\ \A x \in Tables : TableInv(x)'
<1>. USE DEF storeVars, applyVars, destVars
<1>0. HandoffTypes /\ StreamInv
  BY DEF HandoffInv
<1>. DEFINE tb == Changes[cur.tx][cur.k]
            owned == should_apply_changes(tb, CommitLsn(cur.tx))
            decodable == \/ tb \notin relSent \/ tb \in decoder
                         \/ CurrentState(tb).type = "SyncDone"
<1>1. cur.tx \in Tx /\ cur.k \in Rows(cur.tx) /\ cur.k \in Int /\ cur.tx \in Int
  BY <1>0, PositionTypes, PositionFacts DEF handle_row_message, Tx
<1>2. tb \in Tables
  BY <1>1, RowFacts
<1>3. TableInv(tb) /\ PhaseInv(tb)
  BY <1>2 DEF HandoffInv, TableInv
<1>4. owned <=> /\ store[tb].type \in Handed
                /\ store[tb].type = "SyncDone" => store[tb].lsn <= CommitLsn(cur.tx)
  BY <1>0, <1>2, <1>3, HandedFacts
  DEF should_apply_changes, is_state_ready_for_changes, Handed
<1>5. owned => decodable
  <2>1. SUFFICES ASSUME owned PROVE decodable
    OBVIOUS
  <2>2. CASE store[tb].type = "SyncDone"
    BY <1>0, <1>2, <1>3, <2>2, HandedFacts DEF Handed
  <2>3. CASE store[tb].type = "Ready"
    BY <1>3, <2>3 DEF TableInv, ReadyInv
  <2>. QED
    BY <1>4, <2>1, <2>2, <2>3 DEF Handed
<1>6. /\ apc = "stream" /\ relSent' = relSent \cup {tb}
      /\ UNCHANGED <<storeVars, confirmed, received, flushed, hook, worker, destVars>>
      /\ \/ ~owned /\ UNCHANGED <<batch, decoder, apc>>
         \/ /\ owned /\ decoder' = decoder \cup {tb}
            /\ batch' = batch \cup {<<cur.tx, cur.k>>} /\ UNCHANGED apc
  BY <1>5 DEF handle_row_message
<1>7. cur'.tx = cur.tx /\ cur'.k = cur.k + 1
  BY <1>0 DEF handle_row_message, HandoffTypes
<1>8. owned => store[tb].lsn <= CommitLsn(cur.tx)
  <2>1. store[tb].lsn \in Int
    BY <1>0, <1>2, WorkerFacts, StateFacts
  <2>. QED
    BY <1>0, <1>3, <1>4, <2>1, PositionTypes DEF TableInv, ReadyInv, StreamInv, Handed
<1>. HIDE DEF tb, owned, decodable
<1>9. ASSUME NEW x \in Tables PROVE TableInv(x)'
  <2>0. TableInv(x) /\ PhaseInv(x)
    BY DEF HandoffInv, TableInv
  <2>1. \A t \in Tx : \A k \in RowsOf(t, x) :
           <<t, k>> \in (batch \cup byApply)' <=>
              \/ <<t, k>> \in batch \cup byApply
              \/ owned /\ x = tb /\ t = cur.tx /\ k = cur.k
    <3>1. SUFFICES ASSUME NEW t \in Tx, NEW k \in RowsOf(t, x)
                   PROVE  <<t, k>> \in (batch \cup byApply)' <=>
                             \/ <<t, k>> \in batch \cup byApply
                             \/ owned /\ x = tb /\ t = cur.tx /\ k = cur.k
      OBVIOUS
    <3>2. t = cur.tx /\ k = cur.k => x = tb
      BY <3>1 DEF tb, RowsOf
    <3>. QED
      BY <1>6, <3>2
  <2>2. ASSUME store[x].type \in Handed PROVE Applied(x, store[x].lsn)'
    <3>0. Applied(x, store[x].lsn)
      BY <2>0, <2>2 DEF TableInv, DataInv
    <3>1. SUFFICES ASSUME NEW t \in Tx, CommitLsn(t) >= store[x].lsn,
                          NEW k \in RowsOf(t, x),
                          t < cur.tx \/ (t = cur.tx /\ k < cur.k + 1)
                   PROVE  <<t, k>> \in (batch \cup byApply)'
      BY <1>6, <1>7 DEF Applied
    <3>2. k \in Int /\ t \in Int
      BY RowFacts, PositionFacts DEF RowsOf
    <3>3. CASE t < cur.tx \/ (t = cur.tx /\ k < cur.k)
      BY <2>1, <3>0, <3>1, <3>3 DEF Applied
    <3>4. CASE t = cur.tx /\ k = cur.k
      <4>1. x = tb
        BY <3>4 DEF tb, RowsOf
      <4>2. store[tb].lsn \in Int
        BY <1>0, <1>2, WorkerFacts, StateFacts
      <4>3. owned
        BY <1>1, <1>4, <2>2, <3>1, <3>4, <4>1, <4>2, PositionFacts
      <4>. QED
        BY <2>1, <3>4, <4>1, <4>3
    <3>. QED
      BY <1>1, <3>1, <3>2, <3>3, <3>4
  <2>3. DataInv(x)'
    BY <1>6, <2>2, StreamData
  <2>4. RowInv(x)'
    <3>1. ASSUME owned, x = tb
          PROVE  ~Fresh(x) /\ cur.tx \notin byCopy[x] \cup bySync[x]
      <4>1. store[x].type \in Handed /\ ~Fresh(x)
        BY <1>0, <1>4, <2>0, <3>1, HandedFacts
      <4>2. Synced(x, store[x].lsn)
        BY <2>0, <4>1 DEF TableInv, DataInv
      <4>3. store[x].lsn \in Int /\ CommitLsn(cur.tx) \in Int
        BY <1>0, <1>1, WorkerFacts, StateFacts, PositionFacts DEF CommitLsn
      <4>4. ~(CommitLsn(cur.tx) < store[x].lsn)
        BY <1>8, <3>1, <4>3
      <4>. QED
        BY <4>1, <4>2, <4>4 DEF Synced
    <3>2. Fresh(x)' <=> Fresh(x)
      BY <1>6 DEF Fresh
    <3>3. UNCHANGED <<byCopy, bySync>>
      BY <1>6
    <3>. QED
      BY <2>0, <2>1, <3>1, <3>2, <3>3 DEF TableInv, RowInv
  <2>5. ReadyInv(x)'
    BY <1>4, <1>6, <2>0 DEF TableInv, ReadyInv, Handed
  <2>. QED
    BY <1>6, <2>3, <2>4, <2>5, StreamTables
<1>. QED
  BY <1>6, <1>9

\* A step of the stream that brings no row of a table the apply worker has.
LEMMA RowsKept ==
    ASSUME HandoffInv, apc = "stream", NEW x \in Tables,
           UNCHANGED <<storeVars, worker, byCopy, bySync, relSent, decoder>>,
           \/ hook' = hook
           \/ \A y \in DOMAIN hook'.todo :
                 y \in Tables /\ is_syncing(store[y]) /\ hook'.todo[y] = store[y],
           \A t \in Tx : \A k \in RowsOf(t, x) :
              /\ <<t, k>> \in (batch \cup byApply)' <=> <<t, k>> \in batch \cup byApply
              /\ t < cur'.tx \/ (t = cur'.tx /\ k < cur'.k) =>
                    t < cur.tx \/ (t = cur.tx /\ k < cur.k)
    PROVE  TableInv(x)'
<1>. USE DEF storeVars
<1>0. TableInv(x)
  BY DEF HandoffInv
<1>1. ASSUME store[x].type \in Handed PROVE Applied(x, store[x].lsn)'
  <2>1. Applied(x, store[x].lsn)
    BY <1>0, <1>1 DEF TableInv, DataInv
  <2>. QED
    BY <2>1 DEF Applied
<1>2. DataInv(x)'
  BY <1>1, StreamData
<1>3. RowInv(x)' /\ ReadyInv(x)'
  BY <1>0 DEF TableInv, RowInv, ReadyInv, Fresh
<1>. QED
  BY <1>2, <1>3, StreamTables

\* The other steps of the stream.
LEMMA StreamSteps ==
    ASSUME HandoffInv,
           \/ handle_begin_message \/ handle_commit_message \/ handle_keepalive
           \/ FlushBatch \/ send_status_update
           \/ process_syncing_tables_when_quiescent
    PROVE  apc' # "failed" /\ \A x \in Tables : TableInv(x)'
<1>. USE DEF storeVars, applyVars, destVars
<1>0. HandoffTypes /\ StreamInv /\ BatchInv
  BY DEF HandoffInv
<1>p. cur.tx \in Int /\ cur.k \in Int
  BY <1>0, PositionTypes
<1>k. \A x : \A t \in Tx : \A k \in RowsOf(t, x) :
         k \in Rows(t) /\ k \in Int /\ t \in Int /\ k # 0 /\ ~(k < 1)
         /\ k # CommitK(t) /\ k < CommitK(t)
  <2>1. ASSUME NEW t \in Tx, NEW k \in Rows(t)
        PROVE  k \in Nat /\ t \in Int /\ k # 0 /\ k # CommitK(t) /\ k < CommitK(t)
    <3>1. Rows(t) \subseteq Nat /\ 0 \notin Rows(t) /\ CommitK(t) \notin Rows(t)
          /\ k < CommitK(t)
      BY RowFacts
    <3>2. t \in Int
      BY PositionFacts
    <3>. QED
      BY <3>1, <3>2
  <2>. QED
    BY <2>1 DEF RowsOf
<1>1. CASE handle_begin_message
  <2>1. cur'.tx = cur.tx /\ cur'.k = 1 /\ cur.k = 0 /\ apc = "stream" /\ apc' = apc
        /\ batch' = batch \cup {<<cur.tx, 0>>}
        /\ UNCHANGED <<storeVars, hook, worker, destVars, relSent, decoder>>
    BY <1>0, <1>1 DEF handle_begin_message, HandoffTypes
  <2>. QED
    BY <1>k, <2>1, RowsKept
<1>2. CASE handle_commit_message
  <2>1. cur.tx \in Tx
    BY <1>0, <1>2, PositionTypes, PositionFacts DEF handle_commit_message, Tx
  <2>2. cur'.tx = cur.tx + 1 /\ cur'.k = 0 /\ cur.k = CommitK(cur.tx)
        /\ apc = "stream" /\ apc' = "hook"
        /\ batch' = batch \cup {<<cur.tx, CommitK(cur.tx)>>}
        /\ UNCHANGED <<storeVars, worker, destVars, relSent, decoder>>
        /\ StartHook("commit", EndLsn(cur.tx))
    BY <1>2 DEF handle_commit_message
  <2>3. \A y \in DOMAIN hook'.todo :
           y \in Tables /\ is_syncing(store[y]) /\ hook'.todo[y] = store[y]
    BY <1>0, <2>1, <2>2, StartHookFacts, PositionFacts DEF HookKinds
  <2>4. ASSUME NEW x \in Tables, NEW t \in Tx, NEW k \in RowsOf(t, x)
        PROVE  /\ <<t, k>> \in (batch \cup byApply)' <=> <<t, k>> \in batch \cup byApply
               /\ t < cur'.tx \/ (t = cur'.tx /\ k < cur'.k) =>
                     t < cur.tx \/ (t = cur.tx /\ k < cur.k)
    BY <1>k, <1>p, <2>2
  <2>. QED
    BY <2>2, <2>3, <2>4, RowsKept
<1>3. CASE handle_keepalive \/ send_status_update
  <2>1. apc = "stream" /\ UNCHANGED <<storeVars, apc, cur, batch, hook, relSent, decoder,
                                      worker, destVars>>
    BY <1>3 DEF handle_keepalive, send_status_update
  <2>. QED
    BY <2>1, RowsKept
<1>4. CASE FlushBatch
  <2>1. apc = "stream" /\ batch' = {}
        /\ byApply' = byApply \cup {m \in batch : m[2] \in Rows(m[1])}
        /\ UNCHANGED <<storeVars, cur, relSent, decoder, worker, byCopy, bySync>>
    BY <1>4 DEF FlushBatch
  <2>2. apc' # "failed" /\
        \/ hook' = hook
        \/ \A y \in DOMAIN hook'.todo :
              y \in Tables /\ is_syncing(store[y]) /\ hook'.todo[y] = store[y]
    <3>1. CASE commit_end = NoLsn
      BY <1>4, <2>1, <3>1 DEF FlushBatch
    <3>2. CASE commit_end # NoLsn
      <4>1. StartHook("flush", commit_end) /\ apc' = "hook" /\ commit_end \in Lsn
        BY <1>0, <1>4, <3>2, CommitEndFacts DEF FlushBatch
      <4>. QED
        BY <1>0, <4>1, StartHookFacts DEF HookKinds
    <3>. QED
      BY <3>1, <3>2
  <2>3. ASSUME NEW x \in Tables, NEW t \in Tx, NEW k \in RowsOf(t, x)
        PROVE  <<t, k>> \in (batch \cup byApply)' <=> <<t, k>> \in batch \cup byApply
    BY <1>k, <2>1
  <2>. QED
    BY <2>1, <2>2, <2>3, RowsKept
<1>5. CASE process_syncing_tables_when_quiescent
  <2>1. apc = "stream" /\ apc' = "hook" /\ StartHook("quiescent", received)
        /\ UNCHANGED <<storeVars, cur, batch, relSent, decoder, worker, destVars>>
    BY <1>5 DEF process_syncing_tables_when_quiescent
  <2>2. \A y \in DOMAIN hook'.todo :
           y \in Tables /\ is_syncing(store[y]) /\ hook'.todo[y] = store[y]
    BY <1>0, <2>1, StartHookFacts DEF HookKinds, HandoffTypes
  <2>. QED
    BY <2>1, <2>2, RowsKept
<1>. QED
  BY <1>1, <1>2, <1>3, <1>4, <1>5

\* A hook's turn for a table other than x.
LEMMA OtherTurn ==
    ASSUME HandoffInv, NEW x \in Tables, apc = "hook",
           store'[x] = store[x], prev'[x] = prev[x], worker'[x] = worker[x],
           UNCHANGED <<checkpoint, cur, batch, relSent, destVars>>,
           x \in decoder <=> x \in decoder',
           DOMAIN hook'.todo \subseteq DOMAIN hook.todo,
           \A y \in DOMAIN hook'.todo : hook'.todo[y] = hook.todo[y]
    PROVE  TableInv(x)'
<1>. USE DEF destVars
<1>0. TableInv(x) /\ StreamInv
  BY DEF HandoffInv
<1>1. hook.waitOn = NoTable /\ NoTable \notin Tables
  BY <1>0, HandoffAssumption DEF StreamInv
<1>2. PhaseInv(x)' /\ CatchupInv(x)'
  BY <1>0 DEF TableInv, PhaseInv, CatchupInv
<1>3. TodoInv(x)'
  BY <1>0, <1>1 DEF TableInv, TodoInv, Synced, Applied
<1>4. DataInv(x)'
  BY <1>0 DEF TableInv, DataInv, Synced, Applied
<1>5. RowInv(x)' /\ ReadyInv(x)'
  BY <1>0 DEF TableInv, RowInv, ReadyInv, Fresh
<1>. QED
  BY <1>2, <1>3, <1>4, <1>5 DEF TableInv

\* The worker is told to catch up to what the apply worker has read.
LEMMA CatchupTurn ==
    ASSUME HandoffInv, NEW tb \in Tables, EnterCatchup(tb)
    PROVE  \A x \in Tables : TableInv(x)'
<1>. USE DEF storeVars, applyVars, destVars
<1>0. HandoffTypes /\ StreamInv /\ TableInv(tb) /\ PhaseInv(tb)
  BY DEF HandoffInv, TableInv
<1>. DEFINE w == worker[tb]
            state == CatchupState(w.mem, hook.lsn)
<1>1. apc = "hook" /\ apc' = "wait" /\ w.phase # "none"
      /\ w.mem.type \in {"SyncWait", "Catchup"}
      /\ set_and_store(tb, state, w.phase)
      /\ UNCHANGED <<prev, checkpoint, cur, batch, relSent, decoder, destVars>>
  BY DEF EnterCatchup, Active
<1>2. w.mem.type = "SyncWait"
  BY <1>0, <1>1 DEF TableInv, CatchupInv
<1>3. w.phase = "syncwait"
  <2>1. w.phase \in Permitted \cup {"none", "permit", "retry"}
    BY <1>0, WorkerFacts DEF WorkerType
  <2>2. w.mem.type # "Errored" /\ w.mem.type \notin Copying /\ w.mem.type \notin Handed
        /\ w.mem.type # "Catchup" /\ w.mem.type # "DataSync"
    BY <1>2 DEF Copying, Handed
  <2>. QED
    BY <1>0, <1>1, <2>1, <2>2 DEF PhaseInv, Permitted
<1>4. w.mem.lsn \in Lsn \cup {NoLsn} /\ hook.lsn \in Lsn \cup {NoLsn}
      /\ w.mem.lsn \in Int /\ hook.lsn \in Int /\ w.snap \in Int
      /\ w.mem.lsn >= w.snap
  BY <1>0, <1>3, WorkerFacts, StateFacts, HookFacts, PositionTypes DEF PhaseInv, Lsn
<1>5. state.type = "Catchup" /\ state \in States
      /\ state.lsn >= hook.lsn /\ state.lsn >= w.snap
  <2>1. state = TableState("Catchup", Max2(w.mem.lsn, hook.lsn))
    BY <1>2 DEF CatchupState
  <2>2. Max2(w.mem.lsn, hook.lsn) \in {w.mem.lsn, hook.lsn}
        /\ Max2(w.mem.lsn, hook.lsn) >= w.mem.lsn /\ Max2(w.mem.lsn, hook.lsn) >= hook.lsn
    BY <1>4, MaxFacts
  <2>. HIDE DEF state
  <2>3. state.lsn = Max2(w.mem.lsn, hook.lsn) /\ state.type = "Catchup" /\ state \in States
    BY <1>4, <2>1, <2>2, StateFacts
  <2>. QED
    BY <1>4, <2>2, <2>3
<1>. HIDE DEF state
<1>6. /\ worker'[tb].mem = state /\ worker'[tb].phase = "syncwait"
      /\ worker'[tb].snap = w.snap
      /\ \A x \in Tables \ {tb} : worker'[x] = worker[x]
      /\ store' = store
  <2>1. "syncwait" \in Permitted \cup {"none", "permit", "retry"}
    BY DEF Permitted
  <2>. QED
    BY <1>0, <1>1, <1>3, <1>5, <2>1, SetAndStoreFacts
<1>7. hook'.todo = hook.todo /\ hook'.waitOn = tb /\ hook'.lsn = hook.lsn
  BY <1>0 DEF EnterCatchup, HandoffTypes, HookType
<1>8. ASSUME NEW x \in Tables, x # tb PROVE TableInv(x)'
  BY <1>1, <1>6, <1>7, <1>8, OtherTurn
<1>9. PhaseInv(tb)' /\ CatchupInv(tb)'
  BY <1>0, <1>1, <1>3, <1>5, <1>6, <1>7 DEF PhaseInv, CatchupInv
<1>10. TodoInv(tb)'
  BY <1>0, <1>1, <1>3, <1>6, <1>7 DEF TableInv, TodoInv
<1>11. DataInv(tb)'
  BY <1>0, <1>1, <1>3, <1>6 DEF TableInv, DataInv, Synced, Applied
<1>12. RowInv(tb)' /\ ReadyInv(tb)'
  BY <1>0, <1>1, <1>3, <1>6 DEF TableInv, RowInv, ReadyInv, Fresh
<1>. QED
  BY <1>8, <1>9, <1>10, <1>11, <1>12 DEF TableInv

\* Ready comes after the persisted checkpoint has passed SyncDone, for a table
\* with a decoder; a stale list still names a position that was synced.
LEMMA ReadyTurn ==
    ASSUME HandoffInv, NEW tb \in Tables, BecomeReady(tb)
    PROVE  \A x \in Tables : TableInv(x)'
<1>. USE DEF storeVars, applyVars, destVars
<1>0. HandoffTypes /\ StreamInv /\ TableInv(tb) /\ PhaseInv(tb)
  BY DEF HandoffInv, TableInv
<1>. DEFINE w == worker[tb]
            state == IF Active(tb) THEN w.mem ELSE hook.todo[tb]
            ready == TableState("Ready", state.lsn)
<1>1. apc = "hook" /\ apc' = apc /\ tb \in DOMAIN hook.todo /\ Processed(tb)
      /\ can_transition_to_ready(tb, state)
      /\ UNCHANGED <<prev, checkpoint, cur, batch, relSent, decoder, destVars>>
  BY DEF BecomeReady
<1>2. state.type = "SyncDone" /\ tb \in decoder /\ hook.ckpt >= state.lsn
  BY <1>1 DEF can_transition_to_ready
<1>3. state.lsn \in Lsn \cup {NoLsn} /\ state.lsn \in Int
  BY <1>0, <1>1, WorkerFacts, StateFacts, HookFacts
<1>4. /\ w.phase \in {"none", "ending"}
      /\ Synced(tb, state.lsn) /\ Applied(tb, state.lsn)
  <2>1. CASE Active(tb)
    <3>1. state = w.mem /\ w.phase # "none"
      BY <2>1 DEF Active
    <3>2. CurrentState(tb) = w.mem
      BY <2>1 DEF CurrentState
    <3>3. w.mem = store[tb]
      BY <1>0, <1>2, <3>1, <3>2, HandedFacts DEF Handed
    <3>4. w.phase \in {"none", "ending"}
      BY <1>0, <1>2, <3>1, <3>3, HandedFacts DEF Handed
    <3>5. Synced(tb, store[tb].lsn) /\ Applied(tb, store[tb].lsn)
      BY <1>0, <1>2, <3>1, <3>3 DEF TableInv, DataInv, Handed
    <3>. QED
      BY <3>1, <3>3, <3>4, <3>5
  <2>2. CASE ~Active(tb)
    BY <1>0, <1>1, <1>2, <2>2 DEF TableInv, TodoInv
  <2>. QED
    BY <2>1, <2>2
<1>5. ready \in Durable /\ ready \in States /\ ready.type = "Ready"
      /\ ready.lsn = state.lsn
  BY <1>3, StateFacts DEF Handed
<1>6. \/ w.phase # "none" /\ set_and_store(tb, ready, w.phase)
      \/ w.phase = "none" /\ store' = [store EXCEPT ![tb] = ready] /\ UNCHANGED worker
  BY DEF BecomeReady, Active
<1>. HIDE DEF ready, state
<1>7. /\ store'[tb] = ready /\ worker'[tb].phase = w.phase
      /\ w.phase = "ending" => worker'[tb].mem = ready
      /\ w.phase = "none" => worker'[tb].mem = w.mem
      /\ \A x \in Tables \ {tb} : worker'[x] = worker[x] /\ store'[x] = store[x]
  <2>1. CASE w.phase = "none"
    BY <1>0, <1>6, <2>1 DEF HandoffTypes
  <2>2. CASE w.phase # "none"
    <3>1. w.phase = "ending" /\ "ending" \in Permitted
      BY <1>4, <2>2 DEF Permitted
    <3>. QED
      BY <1>0, <1>5, <1>6, <2>2, <3>1, SetAndStoreFacts
  <2>. QED
    BY <2>1, <2>2
<1>8. DOMAIN hook'.todo = DOMAIN hook.todo \ {tb}
      /\ \A x \in DOMAIN hook'.todo : hook'.todo[x] = hook.todo[x]
  BY <1>0, <1>1, ProcessedFacts
<1>9. ASSUME NEW x \in Tables, x # tb PROVE TableInv(x)'
  BY <1>1, <1>7, <1>8, <1>9, OtherTurn
<1>10. PhaseInv(tb)'
  BY <1>4, <1>5, <1>7 DEF PhaseInv, Handed
<1>11. CatchupInv(tb)'
  BY <1>0, <1>1, <1>4, <1>5, <1>7 DEF TableInv, CatchupInv
<1>12. TodoInv(tb)'
  BY <1>8 DEF TodoInv
<1>13. DataInv(tb)'
  BY <1>0, <1>1, <1>4, <1>5, <1>7 DEF TableInv, DataInv, Synced, Applied
<1>14. RowInv(tb)'
  <2>1. ~Fresh(tb)'
    BY <1>4, <1>5, <1>7 DEF Fresh, Copying
  <2>. QED
    BY <1>0, <1>1, <2>1 DEF TableInv, RowInv
<1>15. ReadyInv(tb)'
  <2>1. state.lsn <= checkpoint
    BY <1>0, <1>2, <1>3, PositionTypes DEF StreamInv
  <2>. QED
    BY <1>1, <1>2, <1>5, <1>7, <2>1 DEF ReadyInv
<1>. QED
  BY <1>9, <1>10, <1>11, <1>12, <1>13, <1>14, <1>15 DEF TableInv

\* The rest of a hook: no table catches up when it ends, and the checkpoint only
\* moves on.
LEMMA HookFrame ==
    ASSUME HandoffInv, UNCHANGED <<store, prev, worker, cur, batch, relSent, decoder,
                                   destVars>>,
           checkpoint' \in Int, checkpoint' >= checkpoint,
           \A x \in Tables : worker[x].mem.type # "Catchup",
           DOMAIN hook'.todo \subseteq DOMAIN hook.todo \ {hook.waitOn},
           \A y \in DOMAIN hook'.todo : hook'.todo[y] = hook.todo[y]
    PROVE  \A x \in Tables : TableInv(x)'
<1>. USE DEF destVars
<1>1. SUFFICES ASSUME NEW x \in Tables PROVE TableInv(x)'
  OBVIOUS
<1>2. TableInv(x) /\ HandoffTypes
  BY DEF HandoffInv
<1>3. PhaseInv(x)' /\ CatchupInv(x)'
  BY <1>2 DEF TableInv, PhaseInv, CatchupInv
<1>4. TodoInv(x)'
  BY <1>2 DEF TableInv, TodoInv, Synced, Applied
<1>5. DataInv(x)' /\ RowInv(x)'
  BY <1>2 DEF TableInv, DataInv, RowInv, Fresh, Synced, Applied
<1>6. ReadyInv(x)'
  <2>1. store[x].lsn \in Int /\ checkpoint \in Int
    BY <1>2, WorkerFacts, StateFacts, PositionTypes
  <2>. QED
    BY <1>2, <2>1 DEF TableInv, ReadyInv
<1>. QED
  BY <1>3, <1>4, <1>5, <1>6 DEF TableInv

\* A worker is spawned for a table that has still to be copied.
LEMMA SpawnTurn ==
    ASSUME HandoffInv, NEW tb \in Tables, start_table_sync_worker(tb)
    PROVE  \A x \in Tables : TableInv(x)'
<1>. USE DEF storeVars, applyVars, destVars
<1>0. HandoffTypes /\ StreamInv /\ TableInv(tb)
  BY DEF HandoffInv
<1>1. apc = "hook" /\ tb \in DOMAIN hook.todo /\ hook.todo[tb].type # "SyncDone"
      /\ worker[tb].phase = "none" /\ Processed(tb) /\ decoder' = decoder \ {tb}
      /\ UNCHANGED <<storeVars, apc, cur, batch, relSent, destVars>>
  BY DEF start_table_sync_worker, Active
<1>2. worker'[tb] = [NoWorker EXCEPT !.phase = "permit", !.mem = store[tb]]
      /\ \A x \in Tables \ {tb} : worker'[x] = worker[x]
  BY <1>0 DEF start_table_sync_worker, HandoffTypes
<1>3. worker'[tb].phase = "permit" /\ worker'[tb].mem = store[tb]
  BY <1>2, NoneFacts DEF WorkerType
<1>4. DOMAIN hook'.todo = DOMAIN hook.todo \ {tb}
      /\ \A x \in DOMAIN hook'.todo : hook'.todo[x] = hook.todo[x]
  BY <1>0, <1>1, ProcessedFacts
<1>5. hook.waitOn # tb
  BY <1>0, <1>1, HandoffAssumption DEF StreamInv
<1>6. store[tb].type \in Copying \cup {"Errored"}
  BY <1>0, <1>1, <1>5 DEF TableInv, TodoInv
<1>7. ASSUME NEW x \in Tables, x # tb PROVE TableInv(x)'
  BY <1>1, <1>2, <1>4, <1>7, OtherTurn
<1>8. PhaseInv(tb)' /\ CatchupInv(tb)' /\ TodoInv(tb)' /\ ReadyInv(tb)'
  BY <1>1, <1>3, <1>4, <1>6 DEF PhaseInv, CatchupInv, TodoInv, ReadyInv, Copying
<1>9. DataInv(tb)'
  BY <1>0, <1>1, <1>3, <1>6 DEF TableInv, DataInv, Copying, Handed
<1>10. RowInv(tb)'
  BY <1>0, <1>1, <1>3 DEF TableInv, RowInv, Fresh
<1>. QED
  BY <1>7, <1>8, <1>9, <1>10 DEF TableInv

\* The apply worker's hooks.
LEMMA HookSteps ==
    ASSUME HandoffInv, HookStep
    PROVE  \A x \in Tables : TableInv(x)'
<1>. USE DEF storeVars, applyVars, destVars
<1>0. HandoffTypes /\ StreamInv /\ checkpoint \in Int /\ hook.lsn \in Int
  BY PositionTypes DEF HandoffInv
<1>1. ASSUME NEW tb \in Tables, SkipTable(tb) PROVE \A x \in Tables : TableInv(x)'
  <2>1. DOMAIN hook'.todo = DOMAIN hook.todo \ {tb}
        /\ \A x \in DOMAIN hook'.todo : hook'.todo[x] = hook.todo[x]
    BY <1>0, <1>1, ProcessedFacts DEF SkipTable
  <2>. QED
    BY <1>1, <2>1, OtherTurn DEF SkipTable
<1>2. CASE wait_for_table_sync_worker_catchup
  <2>1. DOMAIN hook'.todo = DOMAIN hook.todo \ {hook.waitOn}
        /\ \A x \in DOMAIN hook'.todo : hook'.todo[x] = hook.todo[x]
    BY <1>0, <1>2, LessTodoFacts DEF wait_for_table_sync_worker_catchup
  <2>2. worker[hook.waitOn].mem.type # "Catchup"
        /\ UNCHANGED <<storeVars, worker, cur, batch, relSent, decoder, destVars>>
    BY <1>2 DEF wait_for_table_sync_worker_catchup, ReleasesApply
  <2>3. \A x \in Tables : worker[x].mem.type # "Catchup"
    BY <2>2 DEF HandoffInv, TableInv, CatchupInv
  <2>. QED
    BY <1>0, <2>1, <2>2, <2>3, HookFrame
<1>3. CASE HookEnds \/ persist_replication_checkpoint
  <2>1. apc # "wait" /\ UNCHANGED <<store, prev, worker, cur, batch, relSent, decoder,
                                    destVars>>
    BY <1>3 DEF HookEnds, persist_replication_checkpoint
  <2>2. \A x \in Tables : worker[x].mem.type # "Catchup"
    BY <2>1 DEF HandoffInv, TableInv, CatchupInv
  <2>3. DOMAIN hook'.todo = {}
    BY <1>3, NoneFacts DEF HookEnds, persist_replication_checkpoint
  <2>4. checkpoint' \in Int /\ checkpoint' >= checkpoint
    BY <1>0, <1>3, MaxFacts DEF HookEnds, persist_replication_checkpoint
  <2>. QED
    BY <2>1, <2>2, <2>3, <2>4, HookFrame
<1>. QED
  BY <1>1, <1>2, <1>3, CatchupTurn, ReadyTurn, SpawnTurn DEF HookStep

\* What lies behind the position of a restart is durable.
LEMMA BehindRestart ==
    ASSUME HandoffInv, NEW x \in Tables, NEW lsn \in Int, Applied(x, lsn),
           NEW t \in Tx, NEW k \in RowsOf(t, x),
           CommitLsn(t) >= lsn, CommitLsn(t) < get_start_lsn
    PROVE  <<t, k>> \in byApply
<1>0. HandoffTypes /\ StreamInv /\ BatchInv
  BY DEF HandoffInv
<1>1. checkpoint \in Int /\ confirmed \in Int /\ received \in Int /\ cur.tx \in Int
      /\ CommitLsn(cur.tx) = 2 * cur.tx - 1
  BY <1>0, PositionTypes
<1>2. t \in Int /\ CommitLsn(t) = 2 * t - 1
  BY PositionFacts
<1>3. get_start_lsn \in {checkpoint, confirmed}
  BY <1>1, MaxFacts DEF get_start_lsn
<1>4. t < cur.tx
  BY <1>0, <1>1, <1>2, <1>3 DEF StreamInv
<1>5. <<t, k>> \in batch \cup byApply
  BY <1>4 DEF Applied
<1>6. <<t, k>> \notin batch
  BY <1>0, <1>1, <1>2, <1>3 DEF BatchInv
<1>. QED
  BY <1>5, <1>6

\* A new connection takes up each table where the last one left it.
LEMMA RestartTables ==
    ASSUME HandoffInv, StartApply, UNCHANGED <<storeVars, confirmed, destVars>>,
           NEW x \in Tables,
           \/ worker'[x] = worker[x] /\ worker[x].mem.type # "Catchup"
           \/ worker'[x].phase = "none" /\ worker'[x].mem.type # "Catchup"
    PROVE  TableInv(x)'
<1>. USE DEF storeVars, destVars
<1>0. HandoffTypes /\ StreamInv /\ TableInv(x)
  BY DEF HandoffInv
<1>1. batch' = {} /\ relSent' = {} /\ hook' = NoHook
  BY DEF StartApply
<1>2. PhaseInv(x)' /\ CatchupInv(x)'
  BY <1>0 DEF TableInv, PhaseInv, CatchupInv
<1>3. TodoInv(x)'
  BY <1>1, NoneFacts DEF TodoInv
<1>4. ASSUME store[x].type \in Handed PROVE Applied(x, store[x].lsn)'
  <2>0. store[x].lsn \in Int /\ Applied(x, store[x].lsn)
    BY <1>0, <1>4, WorkerFacts, StateFacts DEF TableInv, DataInv
  <2>1. SUFFICES ASSUME NEW t \in Tx, CommitLsn(t) >= store[x].lsn,
                        NEW k \in RowsOf(t, x),
                        t < cur'.tx \/ (t = cur'.tx /\ k < cur'.k)
                 PROVE  <<t, k>> \in byApply
    BY DEF Applied
  <2>2. k \in Nat
    BY RowFacts DEF RowsOf
  <2>3. t < cur'.tx
    BY <1>0, <2>1, <2>2, StartApplyFacts
  <2>4. CommitLsn(t) < get_start_lsn
    BY <1>0, <2>3, StartApplyFacts
  <2>. QED
    BY <2>0, <2>1, <2>4, BehindRestart
<1>5. DataInv(x)'
  BY <1>0, <1>4 DEF TableInv, DataInv, Synced, Applied
<1>6. RowInv(x)'
  BY <1>0, <1>1 DEF TableInv, RowInv, Fresh
<1>7. ReadyInv(x)'
  BY <1>0, <1>1 DEF TableInv, ReadyInv
<1>. QED
  BY <1>2, <1>3, <1>5, <1>6, <1>7 DEF TableInv

----------------------------------------------------------------------------
(* The theorems.                                                           *)

\* The initial state satisfies the inductive invariant.
LEMMA HandoffInit == Init => HandoffInv
<1>. SUFFICES ASSUME Init PROVE HandoffInv
  OBVIOUS
<1>1. Plain("Init") \in Durable /\ Plain("Init").type = "Init"
  BY StateFacts DEF Copying
<1>2. HandoffTypes
  <2>1. cur \in [tx : 1 .. NumTx + 1, k : Nat]
        /\ cur.k \in 0 .. IF cur.tx \in Tx THEN CommitK(cur.tx) ELSE 0
    BY PositionFacts, RowFacts DEF Init
  <2>2. 0 \in Lsn
    BY PositionFacts DEF Lsn
  <2>. QED
    BY <1>1, <2>1, <2>2, NoneFacts, PositionFacts DEF Init, HandoffTypes
<1>3. StreamInv /\ BatchInv /\ apc # "failed"
  BY NoneFacts, PositionFacts DEF Init, StreamInv, BatchInv
<1>4. ASSUME NEW tb \in Tables PROVE TableInv(tb)
  <2>1. store[tb].type = "Init" /\ worker[tb].phase = "none"
        /\ worker[tb].mem.type = "Init" /\ byCopy[tb] = {} /\ bySync[tb] = {}
        /\ DOMAIN hook.todo = {} /\ batch = {} /\ byApply = {}
    BY <1>1, NoneFacts DEF Init
  <2>. QED
    BY <2>1 DEF TableInv, PhaseInv, CatchupInv, TodoInv, DataInv, RowInv, ReadyInv,
                Handed
<1>. QED
  BY <1>2, <1>3, <1>4 DEF HandoffInv

\* Every step preserves it.
LEMMA HandoffNext ==
    ASSUME HandoffInv, [Next]_vars
    PROVE  HandoffInv'
<1>. USE DEF storeVars, destVars
<1>1. CASE UNCHANGED vars \/ SourceCommits
  <2>1. UNCHANGED <<storeVars, confirmed, applyVars, worker, destVars>>
    BY <1>1 DEF vars, SourceCommits
  <2>2. HandoffTypes'
    <3>1. walEnd' \in 0 .. NumTx
      BY <1>1, PositionFacts DEF SourceCommits, vars, HandoffInv, HandoffTypes
    <3>. QED
      BY <2>1, <3>1 DEF HandoffInv, HandoffTypes, applyVars
  <2>3. \A x \in Tables : TableInv(x)'
    BY <2>1, TableFrame DEF HandoffInv
  <2>. QED
    BY <2>1, <2>2, <2>3, PositionFrame DEF HandoffInv
<1>2. CASE ApplyStep
  BY <1>2, StreamTypes, HookTypes, StreamPositions, HookPositions, RowStep,
     StreamSteps, HookSteps DEF ApplyStep, ReceiveStep, HandoffInv
<1>3. ASSUME NEW tb \in Tables, WorkerStep(tb) PROVE HandoffInv'
  <2>1. UNCHANGED <<checkpoint, confirmed, applyVars>>
    BY <1>3 DEF WorkerStep, acquire_run_permit, SyncNotRequired, drop_table_for_copy,
       EnterDataSync, create_slot_with_transaction, table_copy,
       start_logical_replication, SyncTransaction, SyncKeepalive,
       cleanup_resources, RetryAfterDelay
  <2>2. \A x \in Tables : TableInv(x)'
    BY <1>3, QuietWorkerSteps, CopySteps, CatchupSteps, FailureSteps DEF WorkerStep
  <2>. QED
    BY <1>3, <2>1, <2>2, WorkerTypes, PositionFrame DEF HandoffInv
<1>4. CASE Fault
  <2>1. ASSUME NEW tb \in Tables, \/ FailTimed(tb) \/ FailManual(tb)
                                  \/ RetryWithoutDelay(tb) \/ ErrorNotPersisted(tb)
        PROVE  HandoffInv'
    <3>1. UNCHANGED <<checkpoint, confirmed, applyVars>>
      BY <2>1 DEF FailTimed, FailManual, RetryWithoutDelay, ErrorNotPersisted
    <3>2. \A x \in Tables : TableInv(x)'
      BY <2>1, QuietWorkerSteps, FailureSteps
    <3>. QED
      BY <1>4, <3>1, <3>2, FaultTypes, PositionFrame DEF HandoffInv
  <2>2. CASE ApplyRetries
    <3>1. \A x \in Tables : worker[x].mem.type # "Catchup"
      BY <2>2 DEF ApplyRetries, HandoffInv, TableInv, CatchupInv
    <3>. QED
      BY <1>4, <2>2, <3>1, FaultTypes, RestartPositions, RestartTables
      DEF ApplyRetries, HandoffInv
  <2>3. CASE ProcessRestarts
    <3>1. \A x \in Tables : worker'[x].phase = "none" /\ worker'[x].mem.type # "Catchup"
      BY <2>3, NoneFacts, StateFacts DEF ProcessRestarts, Copying
    <3>. QED
      BY <1>4, <2>3, <3>1, FaultTypes, RestartPositions, RestartTables
      DEF ProcessRestarts, HandoffInv
  <2>. QED
    BY <1>4, <2>1, <2>2, <2>3 DEF Fault
<1>. QED
  BY <1>1, <1>2, <1>3, <1>4 DEF Next

\* HandoffInv is inductive: it holds in every state the handoff can reach,
\* through every failure, retry and restart that the code handles.
THEOREM HandoffInvariance == Spec => []HandoffInv
BY HandoffInit, HandoffNext, PTL DEF Spec

\* NoGap for every instance: get_start_lsn never lets a restarted apply worker
\* skip a change of a handed-over table that is not at the destination.
THEOREM HandoffLeavesNoGap == Spec => []NoGap
<1>1. HandoffInv => NoGap
  <2>1. SUFFICES ASSUME HandoffInv, NEW tb \in Tables, store[tb].type \in Handed,
                        NEW t \in TxOf(tb),
                        CommitLsn(t) < store[tb].lsn \/ CommitLsn(t) < get_start_lsn
                 PROVE  Delivered(t, tb)
    BY DEF NoGap, Handed
  <2>2. Synced(tb, store[tb].lsn) /\ Applied(tb, store[tb].lsn)
    BY <2>1 DEF HandoffInv, TableInv, DataInv
  <2>3. CASE CommitLsn(t) < store[tb].lsn
    BY <2>2, <2>3 DEF Synced, Delivered
  <2>4. CASE ~(CommitLsn(t) < store[tb].lsn)
    <3>1. t \in Tx /\ store[tb].lsn \in Int
      BY <2>1, WorkerFacts, StateFacts DEF TxOf, HandoffInv
    <3>2. CommitLsn(t) >= store[tb].lsn /\ CommitLsn(t) < get_start_lsn
      BY <2>1, <2>4, <3>1, PositionFacts
    <3>3. \A k \in RowsOf(t, tb) : <<t, k>> \in byApply
      BY <2>1, <2>2, <3>1, <3>2, BehindRestart
    <3>. QED
      BY <3>3 DEF Delivered, AppliedRows
  <2>. QED
    BY <2>3, <2>4
<1>. QED
  BY <1>1, HandoffInvariance, PTL

\* NoStaleReplay for every instance: should_apply_changes keeps the apply worker
\* from what the copy and the catch-up stream brought, and they from each other.
THEOREM NoReplayOverNewerCopy == Spec => []NoStaleReplay
<1>1. HandoffInv => NoStaleReplay
  <2>1. SUFFICES ASSUME HandoffInv, NEW tb \in Tables
                 PROVE  /\ byCopy[tb] \cap bySync[tb] = {}
                        /\ \A t \in byCopy[tb] \cup bySync[tb] : AppliedRows(t, tb) = {}
    BY DEF NoStaleReplay
  <2>2. byCopy[tb] \cup bySync[tb] \subseteq Tx
    BY <2>1 DEF HandoffInv, HandoffTypes
  <2>. QED
    BY <2>1, <2>2 DEF HandoffInv, TableInv, DataInv, RowInv, AppliedRows
<1>. QED
  BY <1>1, HandoffInvariance, PTL

\* DecoderAvailable for every instance: can_transition_to_ready waits for a
\* decoder, so no row of a Ready table is ever left without one.
THEOREM DecoderAlwaysAvailable == Spec => []DecoderAvailable
<1>1. HandoffInv => DecoderAvailable
  BY DEF HandoffInv, DecoderAvailable
<1>. QED
  BY <1>1, HandoffInvariance, PTL

----------------------------------------------------------------------------
(* The run permits.                                                        *)

\* Only acquire_run_permit gives a worker a permit.
LEMMA PermitSteps ==
    ASSUME HandoffInv, [Next]_vars,
           ~ \E tb \in Tables : acquire_run_permit(tb)
    PROVE  Running' \subseteq Running
<1>0. HandoffTypes
  BY DEF HandoffInv
<1>s. SUFFICES \A x \in Tables : worker'[x].phase \in Permitted =>
                                    worker[x].phase \in Permitted
  BY DEF Running
<1>n. {"none", "permit", "retry"} \cap Permitted = {}
  BY DEF Permitted
<1>1. CASE UNCHANGED worker
  BY <1>1
<1>2. ASSUME NEW tb \in Tables, WorkerStep(tb)
      PROVE  \A x \in Tables : worker'[x].phase \in Permitted =>
                                  worker[x].phase \in Permitted
  <2>1. \A x \in Tables \ {tb} : worker'[x] = worker[x]
    BY <1>0, <1>2 DEF WorkerStep, acquire_run_permit, SyncNotRequired,
       drop_table_for_copy, EnterDataSync, create_slot_with_transaction, table_copy,
       start_logical_replication, SyncTransaction, SyncKeepalive, cleanup_resources,
       RetryAfterDelay, set_and_store, try_complete_catchup, WorkerEnds, Retried,
       HandoffTypes
  <2>2. worker[tb].phase \in Permitted \/ RetryAfterDelay(tb)
    BY <1>2 DEF WorkerStep, acquire_run_permit, SyncNotRequired,
       drop_table_for_copy, EnterDataSync, create_slot_with_transaction, table_copy,
       start_logical_replication, SyncTransaction, SyncKeepalive, cleanup_resources,
       Permitted
  <2>3. CASE RetryAfterDelay(tb)
    <3>1. worker'[tb].phase = "permit"
      <4>1. prev[tb] \in States
        BY <1>0, WorkerFacts, StateFacts
      <4>2. worker[tb].attempts < MaxAttempts
        BY <2>3 DEF RetryAfterDelay, HandoffInv, TableInv, PhaseInv
      <4>. QED
        BY <1>0, <2>3, <4>1, <4>2, RetriedFacts DEF RetryAfterDelay
    <3>. QED
      BY <1>n, <2>1, <3>1
  <2>. QED
    BY <2>1, <2>2, <2>3
<1>3. ASSUME NEW tb \in Tables, \/ FailTimed(tb) \/ FailManual(tb)
                                \/ RetryWithoutDelay(tb) \/ ErrorNotPersisted(tb)
      PROVE  \A x \in Tables : worker'[x].phase \in Permitted =>
                                  worker[x].phase \in Permitted
  <2>1. \A x \in Tables \ {tb} : worker'[x] = worker[x]
    BY <1>0, <1>3 DEF FailTimed, FailManual, RetryWithoutDelay, ErrorNotPersisted,
       WorkerEnds, Retried, HandoffTypes
  <2>2. worker[tb].phase \in Permitted
    BY <1>3 DEF FailTimed, FailManual, RetryWithoutDelay, ErrorNotPersisted,
       CanRetry, Retriable, Permitted
  <2>. QED
    BY <2>1, <2>2
<1>4. CASE ProcessRestarts
  BY <1>4, <1>n, NoneFacts DEF ProcessRestarts
<1>5. ASSUME NEW tb \in Tables, EnterCatchup(tb)
      PROVE  \A x \in Tables : worker'[x].phase = worker[x].phase
  BY <1>0, <1>5 DEF EnterCatchup, set_and_store, HandoffTypes, WorkerType
<1>6. ASSUME NEW tb \in Tables, BecomeReady(tb)
      PROVE  \A x \in Tables : worker'[x].phase = worker[x].phase
  BY <1>0, <1>6 DEF BecomeReady, set_and_store, HandoffTypes, WorkerType
<1>7. ASSUME NEW tb \in Tables, start_table_sync_worker(tb)
      PROVE  \A x \in Tables : worker'[x].phase \in Permitted =>
                                  worker[x].phase \in Permitted
  <2>1. \A x \in Tables \ {tb} : worker'[x] = worker[x]
    BY <1>0, <1>7 DEF start_table_sync_worker, HandoffTypes
  <2>2. worker'[tb].phase = "permit"
    BY <1>0, <1>7, NoneFacts DEF start_table_sync_worker, HandoffTypes, WorkerType
  <2>. QED
    BY <1>n, <2>1, <2>2
<1>. QED
  <2>1. CASE ApplyStep
    BY <1>1, <1>5, <1>6, <1>7, <2>1 DEF ApplyStep, ReceiveStep, HookStep,
       handle_begin_message, handle_row_message, handle_commit_message,
       handle_keepalive, FlushBatch, send_status_update,
       process_syncing_tables_when_quiescent, SkipTable, HookEnds,
       wait_for_table_sync_worker_catchup, persist_replication_checkpoint
  <2>2. CASE Fault
    BY <1>1, <1>3, <1>4, <2>2 DEF Fault, ApplyRetries
  <2>3. CASE SourceCommits \/ UNCHANGED vars
    BY <1>1, <2>3 DEF SourceCommits, vars
  <2>. QED
    BY <1>2, <2>1, <2>2, <2>3 DEF Next

\* The type invariant, and with it the limit on concurrent table-sync workers:
\* however workers fail, retry and end, at most max_table_sync_workers of them
\* hold a run permit.
THEOREM HandoffTypeCorrect == Spec => []TypeOK
<1>. DEFINE Permits == Cardinality(Running) <= MaxWorkers
<1>f. IsFiniteSet(Running) /\ Running \subseteq Tables
  BY HandoffAssumption, FS_Subset DEF Running
<1>m. MaxWorkers \in Nat \ {0}
  BY HandoffAssumption
<1>1. Init => Permits
  <2>1. SUFFICES ASSUME Init PROVE Permits
    OBVIOUS
  <2>2. \A x \in Tables : worker[x].phase = "none"
    BY <2>1, NoneFacts DEF Init
  <2>3. Running = {}
    BY <2>2 DEF Running, Permitted
  <2>. QED
    BY <1>m, <2>3, FS_EmptySet
<1>2. HandoffInv /\ Permits /\ [Next]_vars => Permits'
  <2>1. SUFFICES ASSUME HandoffInv, Permits, [Next]_vars PROVE Permits'
    OBVIOUS
  <2>2. Cardinality(Running) \in Nat
    BY <1>f, FS_CardinalityType
  <2>3. CASE \E tb \in Tables : acquire_run_permit(tb)
    <3>1. PICK tb \in Tables : acquire_run_permit(tb)
      BY <2>3
    <3>2. Running' \subseteq Running \cup {tb}
      BY <2>1, <3>1 DEF acquire_run_permit, Running, HandoffInv, HandoffTypes, WorkerType
    <3>3. IsFiniteSet(Running \cup {tb})
          /\ Cardinality(Running \cup {tb}) <= Cardinality(Running) + 1
      <4>1. /\ IsFiniteSet(Running \cup {tb})
            /\ Cardinality(Running \cup {tb}) =
                  IF tb \in Running THEN Cardinality(Running) ELSE Cardinality(Running) + 1
        BY <1>f, FS_AddElement
      <4>. QED
        BY <2>2, <4>1
    <3>4. IsFiniteSet(Running') /\ Cardinality(Running') <= Cardinality(Running \cup {tb})
      BY <3>2, <3>3, FS_Subset
    <3>5. Cardinality(Running) < MaxWorkers
      BY <3>1 DEF acquire_run_permit
    <3>6. Cardinality(Running') \in Nat /\ Cardinality(Running \cup {tb}) \in Nat
      BY <3>3, <3>4, FS_CardinalityType
    <3>. QED
      BY <1>m, <2>2, <3>3, <3>4, <3>5, <3>6
  <2>4. CASE ~ \E tb \in Tables : acquire_run_permit(tb)
    <3>1. Running' \subseteq Running
      BY <2>1, <2>4, PermitSteps
    <3>2. IsFiniteSet(Running') /\ Cardinality(Running') <= Cardinality(Running)
      BY <1>f, <3>1, FS_Subset
    <3>3. Cardinality(Running') \in Nat
      BY <3>2, FS_CardinalityType
    <3>. QED
      BY <1>m, <2>1, <2>2, <3>2, <3>3
  <2>. QED
    BY <2>3, <2>4
<1>3. HandoffInv /\ Permits => TypeOK
  BY HookFacts DEF HandoffInv, HandoffTypes, TypeOK, WorkerType
<1>. HIDE DEF Permits
<1>. QED
  BY <1>1, <1>2, <1>3, HandoffInit, HandoffNext, PTL DEF Spec
=============================================================================
