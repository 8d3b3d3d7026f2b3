---------------------------- MODULE TableHandoff ----------------------------
(***************************************************************************)
(* How a table moves from its initial copy to ongoing replication: the     *)
(* apply worker's hooks (replication/apply.rs, module apply_worker), the   *)
(* table-sync workers (runtime/table_sync, replication/table_sync) and the *)
(* table states and checkpoint they share through the store.               *)
(*                                                                         *)
(* Abstraction.  The commit record of transaction t occupies position      *)
(* 2t - 1, so that a snapshot or keepalive position can fall on either     *)
(* side of it.  Every destination write of this module is durable when it  *)
(* returns: batching, deferral and status updates of one loop are the      *)
(* subject of ApplyLoop, whose SyncDoneIsGapFree is what lets a catching-up*)
(* worker be modelled here as "transaction by transaction".                *)
(***************************************************************************)
EXTENDS Integers, Sequences, FiniteSets

CONSTANTS
    Tables,
    NumTx,          \* transactions the source will commit
    Changes,        \* Changes[t]: the tables of t's row messages, in order
    MaxWorkers,     \* max_table_sync_workers
    MaxAttempts,    \* table_error_retry_max_attempts
    Faults          \* which of AllFaults may happen

Tx == 1 .. NumTx
CommitLsn(t) == 2 * t - 1
EndLsn(t) == 2 * t
MaxLsn == 2 * NumTx + 1
Lsn == 0 .. MaxLsn
NoLsn == -1
NoTable == "no table"

\* "process": the process dies; "apply": the apply loop fails and is retried
\* in process; "timed", "manual": a worker fails with that retry policy;
\* "delay_elapsed": the retry instant has passed once Errored is stored;
\* "error_not_persisted": storing Errored fails.
AllFaults == {"process", "apply", "timed", "manual", "delay_elapsed",
              "error_not_persisted"}

ASSUME HandoffAssumption ==
    /\ NumTx \in Nat /\ MaxAttempts \in Nat /\ MaxWorkers \in Nat \ {0}
    /\ IsFiniteSet(Tables) /\ NoTable \notin Tables
    /\ Changes \in [Tx -> Seq(Tables)]
    /\ Faults \subseteq AllFaults

VARIABLES
    walEnd,     \* last transaction the source has committed
    store,      \* stored state of every table
    prev,       \* the stored state an Errored state replaced
    checkpoint, \* persisted apply checkpoint
    confirmed,  \* confirmed position of the apply slot
    apc,        \* "stream", "hook", "wait", "persist", "failed"
    cur,        \* next message of the apply stream: [tx, k]
    received,   \* last_received_lsn of the apply loop
    flushed,    \* last_flush_lsn of the apply loop
    batch,      \* messages buffered by the apply loop
    hook,       \* the running hook: [kind, lsn, todo, ckpt, waitOn]
    relSent,    \* tables whose RELATION this connection has received
    decoder,    \* tables with a WithSchema decoding state
    worker,     \* [Tables -> worker record]
    byCopy, bySync, byApply     \* what reached the destination, and how

applyVars == <<apc, cur, received, flushed, batch, hook, relSent, decoder>>
storeVars == <<store, prev, checkpoint>>
destVars == <<byCopy, bySync, byApply>>
vars == <<walEnd, storeVars, confirmed, applyVars, worker, destVars>>

----------------------------------------------------------------------------
(* Table states.  Ready keeps the SyncDone position, which the code drops, *)
(* so that properties can speak of it.                                     *)

TableState(type, lsn) == [type |-> type, lsn |-> lsn]
Plain(type) == TableState(type, NoLsn)

is_syncing(state) == state.type \notin {"Ready", "Errored"}

SyncingTables == {tb \in Tables : is_syncing(store[tb])}

Max2(a, b) == IF a >= b THEN a ELSE b

NoHook == [kind |-> "none", lsn |-> NoLsn, todo |-> <<>>, ckpt |-> NoLsn,
           waitOn |-> NoTable]

NoWorker == [phase |-> "none", mem |-> Plain("Init"), snap |-> NoLsn,
             pos |-> 0, attempts |-> 0]

Active(tb) == worker[tb].phase # "none"

\* get_active_worker_state, else the store.
CurrentState(tb) == IF Active(tb) THEN worker[tb].mem ELSE store[tb]

\* Mutant: a worker takes a permit when it is spawned, and one more to run.
PermitFromSpawn == {"permit", "check", "dropped", "slot", "copying",
                    "syncwait", "stream", "ending"}

\* Phases that hold a run permit.
Permitted == {"check", "dropped", "slot", "copying", "syncwait", "stream",
              "ending"}

should_store(state) == state.type \notin {"SyncWait", "Catchup"}

\* The store first, then the state that other tasks see, under its lock.
set_and_store(tb, state, phase) ==
    /\ store' = IF should_store(state) THEN [store EXCEPT ![tb] = state]
                ELSE store
    /\ worker' = [worker EXCEPT ![tb].mem = state, ![tb].phase = phase]

----------------------------------------------------------------------------
(* The apply loop's stream.                                                *)

Rows(t) == 1 .. Len(Changes[t])
RowsOf(t, tb) == {k \in Rows(t) : Changes[t][k] = tb}
CommitK(t) == Len(Changes[t]) + 1
StartTx(lsn) == CHOOSE c \in 1 .. NumTx + 1 :
                   \A t \in Tx : t < c <=> CommitLsn(t) < lsn

commit_end == 
    LET ends == {EndLsn(m[1]) : m \in {n \in batch : n[2] = CommitK(n[1])}}
    IN IF ends = {} THEN NoLsn ELSE CHOOSE l \in ends : \A e \in ends : l >= e

is_quiescent == cur.k = 0 /\ batch = {}

\* Mutant: the transaction that starts at SyncDone is left to nobody.
StrictBoundary(state, remote_final_lsn) ==
    \/ state.type = "Ready"
    \/ state.type = "SyncDone" /\ state.lsn < remote_final_lsn

is_state_ready_for_changes(state, remote_final_lsn) ==
    \/ state.type = "Ready"
    \/ state.type = "SyncDone" /\ state.lsn <= remote_final_lsn

should_apply_changes(tb, remote_final_lsn) ==
    is_state_ready_for_changes(CurrentState(tb), remote_final_lsn)

\* A hook starts with the syncing tables of the store; the list may be stale
\* by the time a table's turn comes.
StartHook(kind, lsn) ==
    hook' = [kind |-> kind, lsn |-> lsn,
             todo |-> [tb \in SyncingTables |-> store[tb]],
             ckpt |-> checkpoint, waitOn |-> NoTable]

\* BEGIN.  The received position it and the row messages report lies before the
\* commit record, and nothing reads it until the commit has moved it further.
handle_begin_message ==
    /\ apc = "stream" /\ cur.tx <= walEnd /\ cur.k = 0
    /\ cur' = [cur EXCEPT !.k = 1]
    /\ batch' = batch \cup {<<cur.tx, 0>>}
    /\ UNCHANGED <<walEnd, storeVars, confirmed, apc, received, flushed, hook,
                   relSent, decoder, worker, destVars>>

\* A row message, with the RELATION that pgoutput sends before the first one
\* of a table on a connection.  A row of an owned table needs a decoder: the
\* relation's, an earlier one, or the one stored with SyncDone.
handle_row_message ==
    /\ apc = "stream" /\ cur.tx <= walEnd /\ cur.k \in Rows(cur.tx)
    /\ LET tb == Changes[cur.tx][cur.k]
           owned == should_apply_changes(tb, CommitLsn(cur.tx))
           decodable == \/ tb \notin relSent \/ tb \in decoder
                        \/ CurrentState(tb).type = "SyncDone"
       IN /\ relSent' = relSent \cup {tb}
          /\ \/ ~owned /\ UNCHANGED <<batch, decoder, apc>>
             \/ /\ owned /\ decodable
                /\ decoder' = decoder \cup {tb}
                /\ batch' = batch \cup {<<cur.tx, cur.k>>}
                /\ UNCHANGED apc
             \/ /\ owned /\ ~decodable
                /\ apc' = "failed" /\ UNCHANGED <<batch, decoder>>
    /\ cur' = [cur EXCEPT !.k = cur.k + 1]
    /\ UNCHANGED <<walEnd, storeVars, confirmed, received, flushed, hook,
                   worker, destVars>>

handle_commit_message ==
    /\ apc = "stream" /\ cur.tx <= walEnd /\ cur.k = CommitK(cur.tx)
    /\ received' = Max2(received, EndLsn(cur.tx))
    /\ batch' = batch \cup {<<cur.tx, cur.k>>}
    /\ cur' = [tx |-> cur.tx + 1, k |-> 0]
    /\ apc' = "hook" /\ StartHook("commit", EndLsn(cur.tx))
    /\ UNCHANGED <<walEnd, storeVars, confirmed, flushed, relSent, decoder,
                   worker, destVars>>

\* A keepalive moves the received position up to the next commit record, and
\* is answered with a status update, which PostgreSQL may or may not get to.
handle_keepalive ==
    /\ apc = "stream"
    /\ received' \in received .. CommitLsn(cur.tx)
    /\ confirmed' \in {confirmed,
          Max2(confirmed, IF is_quiescent THEN received' ELSE flushed)}
    /\ UNCHANGED <<walEnd, storeVars, apc, cur, flushed, batch, hook, relSent,
                   decoder, worker, destVars>>

\* A batch becomes durable; with a commit in it, the after-flush hook runs and
\* then the checkpoint is persisted.
FlushBatch ==
    /\ apc = "stream" /\ batch # {}
    /\ byApply' = byApply \cup {m \in batch : m[2] \in Rows(m[1])}
    /\ batch' = {}
    /\ IF commit_end = NoLsn
       THEN UNCHANGED <<apc, hook, flushed>>
       ELSE /\ flushed' = Max2(flushed, commit_end)
            /\ apc' = "hook" /\ StartHook("flush", commit_end)
    /\ UNCHANGED <<walEnd, storeVars, confirmed, cur, received, relSent,
                   decoder, worker, byCopy, bySync>>

\* A periodic status update that reaches the slot.
send_status_update ==
    /\ apc = "stream"
    /\ confirmed' = Max2(confirmed, IF is_quiescent THEN received ELSE flushed)
    /\ UNCHANGED <<walEnd, storeVars, applyVars, worker, destVars>>

----------------------------------------------------------------------------
(* The apply worker's table hooks.                                         *)

process_syncing_tables_when_quiescent ==
    /\ apc = "stream" /\ is_quiescent /\ SyncingTables # {}
    /\ apc' = "hook" /\ StartHook("quiescent", received)
    /\ UNCHANGED <<walEnd, storeVars, confirmed, cur, received, flushed, batch,
                   relSent, decoder, worker, destVars>>

\* Mutants: readiness without the persisted checkpoint, or without a decoder.
ReadyWhenReceived(tb, state) ==
    /\ state.type = "SyncDone" /\ tb \in decoder
    /\ hook.lsn >= state.lsn
ReadyWithoutDecoder(tb, state) ==
    /\ state.type = "SyncDone"
    /\ hook.lsn >= state.lsn /\ hook.ckpt >= state.lsn

can_transition_to_ready(tb, state) ==
    /\ state.type = "SyncDone" /\ tb \in decoder
    /\ hook.lsn >= state.lsn /\ hook.ckpt >= state.lsn

\* The hook is done with tb.
Processed(tb) ==
    hook' = [hook EXCEPT !.todo = [x \in DOMAIN hook.todo \ {tb} |-> hook.todo[x]]]

\* Mutant: the target ignores how far the apply worker has read.
CatchupToSnapshot(state, current_lsn) ==
    IF state.type = "Catchup" THEN state ELSE TableState("Catchup", state.lsn)

\* SyncWait -> Catchup; a worker found in Catchup keeps its target.
CatchupState(state, current_lsn) ==
    IF state.type = "Catchup" THEN state
    ELSE TableState("Catchup", Max2(state.lsn, current_lsn))

\* The worker is told to catch up, then the apply worker blocks on it.
EnterCatchup(tb) ==
    /\ apc = "hook" /\ tb \in DOMAIN hook.todo
    /\ hook.kind \in {"commit", "quiescent"}
    /\ Active(tb) /\ worker[tb].mem.type \in {"SyncWait", "Catchup"}
    /\ set_and_store(tb, CatchupState(worker[tb].mem, hook.lsn), worker[tb].phase)
    /\ apc' = "wait"
    /\ hook' = [hook EXCEPT !.waitOn = tb]
    /\ UNCHANGED <<walEnd, prev, checkpoint, confirmed, cur, received, flushed,
                   batch, relSent, decoder, destVars>>

\* SyncDone -> Ready, through the active worker's state or through the store.
BecomeReady(tb) ==
    /\ apc = "hook" /\ tb \in DOMAIN hook.todo
    /\ hook.kind \in {"flush", "quiescent"}
    /\ LET state == IF Active(tb) THEN worker[tb].mem ELSE hook.todo[tb]
           ready == TableState("Ready", state.lsn)
       IN /\ can_transition_to_ready(tb, state)
          /\ IF Active(tb) THEN set_and_store(tb, ready, worker[tb].phase)
             ELSE store' = [store EXCEPT ![tb] = ready] /\ UNCHANGED worker
    /\ Processed(tb)
    /\ UNCHANGED <<walEnd, prev, checkpoint, confirmed, apc, cur, received,
                   flushed, batch, relSent, decoder, destVars>>

\* No active worker and no SyncDone: the decoder is cleared and a worker is
\* spawned, which loads the table's state from the store.
start_table_sync_worker(tb) ==
    /\ apc = "hook" /\ tb \in DOMAIN hook.todo
    /\ ~Active(tb) /\ hook.todo[tb].type # "SyncDone"
    /\ decoder' = decoder \ {tb}
    /\ worker' = [worker EXCEPT ![tb] =
                    [NoWorker EXCEPT !.phase = "permit", !.mem = store[tb]]]
    /\ Processed(tb)
    /\ UNCHANGED <<walEnd, storeVars, confirmed, apc, cur, received, flushed,
                   batch, relSent, destVars>>

\* Every other combination leaves the table alone.
SkipTable(tb) ==
    /\ apc = "hook" /\ tb \in DOMAIN hook.todo
    /\ IF Active(tb)
       THEN /\ hook.kind # "flush" =>
                  worker[tb].mem.type \notin {"SyncWait", "Catchup"}
            /\ hook.kind # "commit" =>
                  ~can_transition_to_ready(tb, worker[tb].mem)
       ELSE /\ hook.todo[tb].type = "SyncDone"
            /\ hook.kind # "commit" =>
                  ~can_transition_to_ready(tb, hook.todo[tb])
    /\ Processed(tb)
    /\ UNCHANGED <<walEnd, storeVars, confirmed, apc, cur, received, flushed,
                   batch, relSent, decoder, worker, destVars>>

\* Mutant: the wait only ends on SyncDone.
WaitForSyncDoneOnly(state) == state.type = "SyncDone"

\* The states wait_for_table_sync_worker_catchup waits for.
ReleasesApply(state) == state.type \in {"SyncDone", "Errored"}

wait_for_table_sync_worker_catchup ==
    /\ apc = "wait" /\ ReleasesApply(worker[hook.waitOn].mem)
    /\ apc' = "hook"
    /\ hook' = [hook EXCEPT !.waitOn = NoTable,
                  !.todo = [x \in DOMAIN hook.todo \ {hook.waitOn} |-> hook.todo[x]]]
    /\ UNCHANGED <<walEnd, storeVars, confirmed, cur, received, flushed, batch,
                   relSent, decoder, worker, destVars>>

HookEnds ==
    /\ apc = "hook" /\ DOMAIN hook.todo = {}
    /\ apc' = IF hook.kind = "flush" THEN "persist" ELSE "stream"
    /\ hook' = IF hook.kind = "flush" THEN hook ELSE NoHook
    /\ UNCHANGED <<walEnd, storeVars, confirmed, cur, received, flushed, batch,
                   relSent, decoder, worker, destVars>>

persist_replication_checkpoint ==
    /\ apc = "persist"
    /\ checkpoint' = Max2(checkpoint, hook.lsn)
    /\ apc' = "stream" /\ hook' = NoHook
    /\ UNCHANGED <<walEnd, store, prev, confirmed, cur, received, flushed,
                   batch, relSent, decoder, worker, destVars>>
----------------------------------------------------------------------------
(* The table-sync workers.                                                 *)

SourceCommits ==
    /\ walEnd < NumTx /\ walEnd' = walEnd + 1
    /\ UNCHANGED <<storeVars, confirmed, applyVars, worker, destVars>>

Running == {tb \in Tables : worker[tb].phase \in Permitted}

acquire_run_permit(tb) ==
    /\ worker[tb].phase = "permit" /\ Cardinality(Running) < MaxWorkers
    /\ worker' = [worker EXCEPT ![tb].phase = "check"]
    /\ UNCHANGED <<walEnd, storeVars, confirmed, applyVars, destVars>>

\* The task ends; whoever still holds its state handle can read the last state.
WorkerEnds(tb, state) ==
    worker' = [worker EXCEPT ![tb] = [NoWorker EXCEPT !.mem = state]]

\* start_table_sync on a table whose work is already done.
SyncNotRequired(tb) ==
    /\ worker[tb].phase = "check"
    /\ worker[tb].mem.type \in {"SyncDone", "Ready", "Errored"}
    /\ WorkerEnds(tb, worker[tb].mem)
    /\ UNCHANGED <<walEnd, storeVars, confirmed, applyVars, destVars>>

\* The destination table of an earlier attempt is dropped before every copy.
drop_table_for_copy(tb) ==
    /\ worker[tb].phase = "check"
    /\ worker[tb].mem.type \in {"Init", "DataSync", "FinishedCopy"}
    /\ worker' = [worker EXCEPT ![tb].phase = "dropped"]
    /\ byCopy' = [byCopy EXCEPT ![tb] = {}]
    /\ bySync' = [bySync EXCEPT ![tb] = {}]
    /\ byApply' = {m \in byApply : Changes[m[1]][m[2]] # tb}
    /\ UNCHANGED <<walEnd, storeVars, confirmed, applyVars>>

EnterDataSync(tb) ==
    /\ worker[tb].phase = "dropped"
    /\ set_and_store(tb, Plain("DataSync"), "slot")
    /\ UNCHANGED <<walEnd, prev, checkpoint, confirmed, applyVars, destVars>>

\* The slot's consistent point lies between two commit records; the snapshot
\* holds exactly the transactions committed before it.
create_slot_with_transaction(tb) ==
    /\ worker[tb].phase = "slot"
    /\ \E snap \in {2 * walEnd, 2 * walEnd + 1} :
         worker' = [worker EXCEPT ![tb].phase = "copying", ![tb].snap = snap]
    /\ UNCHANGED <<walEnd, storeVars, confirmed, applyVars, destVars>>

TxOf(tb) == {t \in Tx : RowsOf(t, tb) # {}}

\* The copy is durable; FinishedCopy is stored and SyncWait published.
table_copy(tb) ==
    /\ worker[tb].phase = "copying"
    /\ byCopy' = [byCopy EXCEPT ![tb] =
                    {t \in TxOf(tb) : CommitLsn(t) < worker[tb].snap}]
    /\ store' = [store EXCEPT ![tb] = Plain("FinishedCopy")]
    /\ worker' = [worker EXCEPT ![tb].phase = "syncwait",
                    ![tb].mem = TableState("SyncWait", worker[tb].snap)]
    /\ UNCHANGED <<walEnd, prev, checkpoint, confirmed, applyVars, bySync,
                   byApply>>

\* Catchup seen: the catch-up stream starts at the slot's consistent point.
start_logical_replication(tb) ==
    /\ worker[tb].phase = "syncwait" /\ worker[tb].mem.type = "Catchup"
    /\ worker' = [worker EXCEPT ![tb].phase = "stream",
                    ![tb].pos = StartTx(worker[tb].snap)]
    /\ UNCHANGED <<walEnd, storeVars, confirmed, applyVars, destVars>>

\* Mutant: the target itself does not complete the catch-up.
CompletesPastTarget(tb, current_lsn, pos) ==
    IF current_lsn > worker[tb].mem.lsn
    THEN set_and_store(tb, TableState("SyncDone", current_lsn), "ending")
    ELSE worker' = [worker EXCEPT ![tb].pos = pos] /\ UNCHANGED store

\* pos is the next transaction of the catch-up stream.
try_complete_catchup(tb, current_lsn, pos) ==
    IF current_lsn >= worker[tb].mem.lsn
    THEN set_and_store(tb, TableState("SyncDone", current_lsn), "ending")
    ELSE worker' = [worker EXCEPT ![tb].pos = pos] /\ UNCHANGED store

\* One transaction of the catch-up stream is durable.
SyncTransaction(tb) ==
    /\ worker[tb].phase = "stream" /\ worker[tb].pos <= walEnd
    /\ bySync' = [bySync EXCEPT ![tb] = @ \cup ({worker[tb].pos} \cap TxOf(tb))]
    /\ try_complete_catchup(tb, EndLsn(worker[tb].pos), worker[tb].pos + 1)
    /\ UNCHANGED <<walEnd, prev, checkpoint, confirmed, applyVars, byCopy,
                   byApply>>

\* A keepalive at or beyond the target completes an idle catch-up.
SyncKeepalive(tb) ==
    /\ worker[tb].phase = "stream"
    /\ \E lsn \in worker[tb].mem.lsn .. CommitLsn(worker[tb].pos) :
         try_complete_catchup(tb, lsn, worker[tb].pos)
    /\ UNCHANGED <<walEnd, prev, checkpoint, confirmed, applyVars, destVars>>

\* The catch-up checkpoint is persisted and the slot deleted.
cleanup_resources(tb) ==
    /\ worker[tb].phase = "ending" /\ WorkerEnds(tb, worker[tb].mem)
    /\ UNCHANGED <<walEnd, storeVars, confirmed, applyVars, destVars>>
----------------------------------------------------------------------------
(* Failures.  A failed attempt stores Errored, unless storing it fails too. *)
(* A timed retry sleeps with Errored published, then restores the state     *)
(* that Errored replaced.  After SyncDone only the checkpoint write is left,*)
(* whose failure is not retried automatically.                              *)

Retriable == {"check", "dropped", "slot", "copying", "stream"}

StoreErrored(tb) ==
    /\ store' = [store EXCEPT ![tb] = Plain("Errored")]
    /\ prev' = [prev EXCEPT ![tb] = store[tb]]

CanRetry(tb) ==
    /\ "timed" \in Faults /\ worker[tb].phase \in Retriable
    /\ worker[tb].attempts < MaxAttempts

FailTimed(tb) ==
    /\ CanRetry(tb) /\ StoreErrored(tb)
    /\ worker' = [worker EXCEPT ![tb] =
                    [NoWorker EXCEPT !.phase = "retry", !.mem = Plain("Errored"),
                                     !.attempts = worker[tb].attempts]]
    /\ UNCHANGED <<walEnd, checkpoint, confirmed, applyVars, destVars>>

\* A manual error, or a timed one out of attempts, ends the worker.
FailManual(tb) ==
    /\ \/ "manual" \in Faults /\ worker[tb].phase \in Retriable \cup {"ending"}
       \/ /\ "timed" \in Faults /\ worker[tb].phase \in Retriable
          /\ worker[tb].attempts = MaxAttempts
    /\ StoreErrored(tb) /\ WorkerEnds(tb, Plain("Errored"))
    /\ UNCHANGED <<walEnd, checkpoint, confirmed, applyVars, destVars>>

Retried(tb, state) ==
    worker' = [worker EXCEPT ![tb] =
                 [NoWorker EXCEPT !.phase = "permit", !.mem = state,
                                  !.attempts = worker[tb].attempts + 1]]

\* The sleep outlasts the wake-up of an apply worker waiting on the table.
RetryAfterDelay(tb) ==
    /\ worker[tb].phase = "retry" /\ hook.waitOn # tb
    /\ store' = [store EXCEPT ![tb] = prev[tb]]
    /\ prev' = [prev EXCEPT ![tb] = Plain("Init")]
    /\ Retried(tb, prev[tb])
    /\ UNCHANGED <<walEnd, checkpoint, confirmed, applyVars, destVars>>

\* next_retry, computed before Errored was stored, has passed: the state lock
\* is held from Errored through the rollback.
RetryWithoutDelay(tb) ==
    /\ "delay_elapsed" \in Faults /\ CanRetry(tb)
    /\ Retried(tb, store[tb])
    /\ UNCHANGED <<walEnd, storeVars, confirmed, applyVars, destVars>>

\* set_and_store of the error fails and ends the worker.
ErrorNotPersisted(tb) ==
    /\ "error_not_persisted" \in Faults
    /\ worker[tb].phase \in Retriable \cup {"ending"}
    /\ WorkerEnds(tb, worker[tb].mem)
    /\ UNCHANGED <<walEnd, storeVars, confirmed, applyVars, destVars>>

get_start_lsn == Max2(checkpoint, confirmed)

\* A new connection: decoders and relations are per connection.
StartApply ==
    /\ apc' = "stream" /\ hook' = NoHook /\ batch' = {}
    /\ cur' = [tx |-> StartTx(get_start_lsn), k |-> 0]
    /\ received' = get_start_lsn /\ flushed' = get_start_lsn
    /\ relSent' = {} /\ decoder' = {}

\* The apply worker is retried in process; table-sync workers live on.  Any
\* StateStore may return a retriable error, so a hook can fail as well.
ApplyRetries ==
    /\ "apply" \in Faults /\ apc \in {"stream", "hook", "persist"}
    /\ StartApply
    /\ UNCHANGED <<walEnd, storeVars, confirmed, worker, destVars>>

ProcessRestarts ==
    /\ "process" \in Faults
    /\ StartApply
    /\ worker' = [tb \in Tables |-> NoWorker]
    /\ UNCHANGED <<walEnd, storeVars, confirmed, destVars>>

----------------------------------------------------------------------------

Init ==
    /\ walEnd = 0
    /\ store = [tb \in Tables |-> Plain("Init")]
    /\ prev = [tb \in Tables |-> Plain("Init")]
    /\ checkpoint = 0 /\ confirmed = 0
    /\ apc = "stream" /\ cur = [tx |-> 1, k |-> 0]
    /\ received = 0 /\ flushed = 0 /\ batch = {} /\ hook = NoHook
    /\ relSent = {} /\ decoder = {}
    /\ worker = [tb \in Tables |-> NoWorker]
    /\ byCopy = [tb \in Tables |-> {}] /\ bySync = [tb \in Tables |-> {}]
    /\ byApply = {}

ReceiveStep == handle_begin_message \/ handle_row_message
               \/ handle_commit_message

HookStep ==
    \/ \E tb \in Tables : \/ EnterCatchup(tb) \/ BecomeReady(tb)
                          \/ start_table_sync_worker(tb) \/ SkipTable(tb)
    \/ wait_for_table_sync_worker_catchup
    \/ HookEnds
    \/ persist_replication_checkpoint

ApplyStep ==
    \/ ReceiveStep \/ handle_keepalive \/ FlushBatch \/ send_status_update
    \/ process_syncing_tables_when_quiescent
    \/ HookStep

WorkerStep(tb) ==
    \/ acquire_run_permit(tb) \/ SyncNotRequired(tb) \/ drop_table_for_copy(tb)
    \/ EnterDataSync(tb) \/ create_slot_with_transaction(tb) \/ table_copy(tb)
    \/ start_logical_replication(tb) \/ SyncTransaction(tb)
    \/ SyncKeepalive(tb) \/ cleanup_resources(tb) \/ RetryAfterDelay(tb)

Fault ==
    \/ \E tb \in Tables : \/ FailTimed(tb) \/ FailManual(tb)
                          \/ RetryWithoutDelay(tb) \/ ErrorNotPersisted(tb)
    \/ ApplyRetries
    \/ ProcessRestarts

Next ==
    \/ SourceCommits
    \/ ApplyStep
    \/ \E tb \in Tables : WorkerStep(tb)
    \/ Fault

Spec == Init /\ [][Next]_vars

\* The loop keeps taking messages, flush results and preflights; a worker that
\* can run does, and gets a permit when permits keep coming free.
Fairness ==
    /\ WF_vars(HookStep)
    /\ SF_vars(ReceiveStep) /\ SF_vars(FlushBatch)
    /\ SF_vars(process_syncing_tables_when_quiescent)
    /\ \A tb \in Tables : SF_vars(WorkerStep(tb))

FairSpec == Spec /\ Fairness

----------------------------------------------------------------------------
(* Properties.                                                             *)

States == [type : {"Init", "DataSync", "FinishedCopy", "SyncWait", "Catchup",
                   "SyncDone", "Ready", "Errored"}, lsn : Lsn \cup {NoLsn}]

Durable == {s \in States : s.type \notin {"SyncWait", "Catchup"}}

Messages == UNION {{t} \X (0 .. CommitK(t)) : t \in Tx}

\* Type invariant: only the six durable states are stored, and only an active
\* worker is in a phase.
TypeOK ==
    /\ walEnd \in 0 .. NumTx
    /\ store \in [Tables -> Durable]
    /\ prev \in [Tables -> Durable]
    /\ checkpoint \in Lsn /\ confirmed \in Lsn
    /\ apc \in {"stream", "hook", "wait", "persist", "failed"}
    /\ cur.tx \in 1 .. NumTx + 1
    /\ cur.k \in 0 .. IF cur.tx \in Tx THEN CommitK(cur.tx) ELSE 0
    /\ received \in Lsn /\ flushed \in Lsn /\ batch \subseteq Messages
    /\ DOMAIN hook.todo \subseteq Tables
    /\ hook.lsn \in Lsn \cup {NoLsn} /\ hook.ckpt \in Lsn \cup {NoLsn}
    /\ hook.waitOn \in Tables \cup {NoTable}
    /\ relSent \subseteq Tables /\ decoder \subseteq Tables
    /\ worker \in [Tables ->
          [phase : Permitted \cup {"none", "permit", "retry"}, mem : States,
           snap : Lsn \cup {NoLsn}, pos : 0 .. NumTx + 1,
           attempts : 0 .. MaxAttempts]]
    /\ Cardinality(Running) <= MaxWorkers
    /\ byCopy \in [Tables -> SUBSET Tx] /\ bySync \in [Tables -> SUBSET Tx]
    /\ byApply \subseteq Messages

AppliedRows(t, tb) == {k \in RowsOf(t, tb) : <<t, k>> \in byApply}

Delivered(t, tb) ==
    \/ t \in byCopy[tb] \cup bySync[tb]
    \/ AppliedRows(t, tb) = RowsOf(t, tb)

\* No gap in the handoff: once a table is SyncDone or Ready, every change of it
\* committed before the SyncDone position, and every change that the apply
\* stream would skip when it restarts (get_start_lsn), is at the destination,
\* whichever worker brought it there.
NoGap ==
    \A tb \in Tables : store[tb].type \in {"SyncDone", "Ready"} =>
        \A t \in TxOf(tb) :
            \/ CommitLsn(t) < store[tb].lsn
            \/ CommitLsn(t) < get_start_lsn
            => Delivered(t, tb)

\* No change is replayed over a newer copy: what the initial copy or the
\* catch-up stream delivered is never delivered by another route as well
\* (should_apply_changes, can_transition_to_ready, drop_table_for_copy).
NoStaleReplay ==
    \A tb \in Tables :
        /\ byCopy[tb] \cap bySync[tb] = {}
        /\ \A t \in byCopy[tb] \cup bySync[tb] : AppliedRows(t, tb) = {}

\* The apply worker always finds a decoder for a row it owns, although
\* PostgreSQL sends RELATION once per connection and may have sent it while
\* the table-sync worker owned the table (can_transition_to_ready).
DecoderAvailable == apc # "failed"

\* A wait for catch-up ends: a worker that fails does not stall the apply worker
\* forever (wait_for_table_sync_worker_catchup).
CatchupWaitEnds == apc = "wait" ~> apc # "wait"

\* Every table's synchronisation comes to an end: SyncDone, Ready or Errored.
TableSettles ==
    \A tb \in Tables : <>(store[tb].type \in {"SyncDone", "Ready", "Errored"})
=============================================================================
