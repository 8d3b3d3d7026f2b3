----------------------------- MODULE ApplyLoop -----------------------------
(***************************************************************************)
(* The replication apply loop of crates/etl/src/replication/apply.rs: one  *)
(* worker reads a logical replication stream, batches events, hands the    *)
(* batches to an asynchronous destination and reports a checkpoint back to *)
(* PostgreSQL.                                                             *)
(*                                                                         *)
(* The same loop drives the apply worker and a table-sync worker that      *)
(* catches up to a target LSN; `catchup' tells the two apart.              *)
(*                                                                         *)
(* Abstraction.  An event is <<transaction, message number>>.  A batch is  *)
(* the set of its events; the byte size that fills it is a free choice.    *)
(* Timers are flags (armed or not) that may expire whenever they are       *)
(* armed.  The biased select of the code is a free choice among its ready  *)
(* branches, which includes every race between a branch becoming ready and *)
(* the poll that looks at it.                                              *)
(***************************************************************************)
EXTENDS Integers

CONSTANTS
    NumTx,      \* transactions in the WAL, in commit order
    Rows,       \* row messages in each transaction
    CommitLsn,  \* CommitLsn[t]: where t's commit record starts (final_lsn)
    EndLsn,     \* EndLsn[t]: where t's commit record ends (end_lsn)
    MaxLsn,     \* last position a keepalive may report
    Owned       \* row messages this worker applies (should_apply_changes)

Tx == 1 .. NumTx
Lsn == 0 .. MaxLsn
BeginK == 0
CommitK == Rows + 1

ASSUME SizeAssumption == NumTx \in Nat /\ Rows \in Nat /\ MaxLsn \in Nat

ASSUME WalAssumption ==
    /\ CommitLsn \in [Tx -> Nat]
    /\ EndLsn \in [Tx -> Nat]
    /\ \A t \in Tx : CommitLsn[t] < EndLsn[t] /\ EndLsn[t] <= MaxLsn
    /\ \A s, t \in Tx : s < t => EndLsn[s] <= CommitLsn[t]

ASSUME OwnedAssumption == Owned \subseteq (Tx \X (1 .. Rows))

VARIABLES
    pc,             \* where the worker is: see Pc
    last_commit_end_lsn,
    pending_durability_interval,
    remote_final_lsn,
    last_received_lsn,
    last_flush_lsn,
    event_batch,
    draining_for_shutdown,
    flush_deadline,         \* whether the batch deadline is armed
    pending_flush_result,
    exit_intent,
    processing_paused,
    catchup,        \* the table-sync worker's Catchup target, NoLsn for apply
    syncDone,       \* LSN of the stored SyncDone state, NoLsn before
    shutdown,       \* the shutdown watch channel as this loop sees it
    cursor,         \* next message of the walsender: [tx, k]
    reported,       \* highest flush LSN sent on this connection
    confirmed,      \* confirmed_flush_lsn of the replication slot
    checkpoint,     \* replication checkpoint row in the store
    accepted,       \* events the destination accepted without durability
    durable         \* events durable at the destination

loopVars == <<last_commit_end_lsn, pending_durability_interval,
              remote_final_lsn, last_received_lsn, last_flush_lsn,
              event_batch, draining_for_shutdown, flush_deadline,
              pending_flush_result, exit_intent, processing_paused>>
destVars == <<accepted, durable>>
envVars  == <<catchup, shutdown>>
vars == <<pc, loopVars, catchup, syncDone, shutdown, cursor, reported,
          confirmed, checkpoint, destVars>>

NoLsn == -1
Max2(a, b) == IF a >= b THEN a ELSE b

\* "top": start of an iteration; "select": waiting in select!;
\* "write": awaiting destination.write_events inside dispatch_write_events;
\* "down": the loop returned an error or the process died.
Pc == {"top", "select", "write", "down", "Paused", "Completed"}

Events(t) ==
    {<<t, BeginK>>, <<t, CommitK>>} \cup {e \in Owned : e[1] = t}
Event == UNION {Events(t) : t \in Tx}

NoFlush == [status |-> "none", events |-> {}, commit_end_lsn |-> NoLsn,
            durability |-> "MayDefer"]

----------------------------------------------------------------------------
(* State predicates of ApplyLoopState.                                     *)

handling_transaction == remote_final_lsn # NoLsn
has_pending_batch == event_batch # {}
has_pending_flush_result == pending_flush_result.status # "none"
has_unresolved_batch_work == has_pending_batch \/ has_pending_flush_result

\* Mutant: a carried commit no longer keeps the loop from being quiescent.
QuiescentIgnoresCarriedCommit ==
    ~handling_transaction /\ ~has_unresolved_batch_work

is_quiescent ==
    /\ ~handling_transaction
    /\ ~has_unresolved_batch_work
    /\ last_commit_end_lsn = NoLsn

checkpoint_lsn == IF is_quiescent THEN last_received_lsn ELSE last_flush_lsn

can_process_messages == exit_intent = "None" /\ ~processing_paused

\* Mutants: only buffered events arm the timer; draining ignores it.
DeadlineForBatchOnly == ~processing_paused /\ has_pending_batch
DeadlineWhileActiveOnly ==
    /\ ~processing_paused /\ exit_intent = "None"
    /\ has_pending_batch \/ pending_durability_interval

can_wait_for_deadline ==
    /\ ~processing_paused
    /\ \/ has_pending_batch
       \/ pending_durability_interval /\ ~has_pending_flush_result

\* ExitIntent::merge and record_exit_intent: Complete wins over Pause.
record_exit_intent(new) ==
    IF "Complete" \in {new, exit_intent} THEN "Complete"
    ELSE IF "Pause" \in {new, exit_intent} THEN "Pause"
    ELSE "None"

IsTableSync == catchup # NoLsn

\* Mutant: the target itself does not count as reached.
CatchupTargetPassed(lsn) == IsTableSync /\ syncDone = NoLsn /\ lsn > catchup

\* Whether the worker is in Catchup and lsn has reached its target.
catchup_target_reached(lsn) ==
    IsTableSync /\ syncDone = NoLsn /\ lsn >= catchup

----------------------------------------------------------------------------
(* Dispatching and flushing.                                               *)

\* dispatch_write_events: the write is pending before the destination is
\* called, so the keepalives of the "write" phase see unresolved work.
dispatch_write_events(events, commit_end, exit) ==
    /\ pending_flush_result' =
         [status |-> "inflight", events |-> events,
          commit_end_lsn |-> commit_end,
          durability |-> IF events = {} \/ exit = "Complete"
                         THEN "RequireDurable" ELSE "MayDefer"]
    /\ last_commit_end_lsn' = NoLsn
    /\ pc' = "write"

\* Mutant: a flush behind a pending result takes the batch all the same.
FlushBehindPending(batch, commit_end, exit, interval, pending) ==
    /\ dispatch_write_events(batch, commit_end, exit)
    /\ event_batch' = {}
    /\ processing_paused' = FALSE

\* flush_batch on a loop whose batch, carried commit, exit intent, open
\* durability interval and pending result are the arguments.
flush_batch(batch, commit_end, exit, interval, pending) ==
    \/ /\ batch = {} /\ interval /\ pending.status = "none"
       /\ dispatch_write_events({}, commit_end, exit)
       /\ event_batch' = {}
       /\ processing_paused' = FALSE
    \/ /\ batch = {} /\ ~(interval /\ pending.status = "none")
       /\ event_batch' = {} /\ last_commit_end_lsn' = commit_end
       /\ pending_flush_result' = pending
       /\ processing_paused' = FALSE
       /\ pc' = "top"
    \/ /\ batch # {} /\ pending.status # "none"
       /\ processing_paused' = TRUE
       /\ event_batch' = batch /\ last_commit_end_lsn' = commit_end
       /\ pending_flush_result' = pending
       /\ pc' = "top"
    \/ /\ batch # {} /\ pending.status = "none"
       /\ dispatch_write_events(batch, commit_end, exit)
       /\ event_batch' = {}
       /\ processing_paused' = FALSE

\* The loop goes on with no flush requested.
keep_batch(batch, commit_end) ==
    /\ event_batch' = batch /\ last_commit_end_lsn' = commit_end
    /\ UNCHANGED <<pending_flush_result, processing_paused>>
    /\ pc' = "top"

\* Mutant: reports the next byte instead of the last flushed one.
ReportNextByte(flush_lsn) == reported' = Max2(reported, flush_lsn + 1)

\* ReplicationMessageStream::send_status_update with the given positions:
\* the flush position sent on a connection never goes back.
send_status_update(flush_lsn) == reported' = Max2(reported, flush_lsn)

\* The loop returns an error: its in-memory state is gone.  What the
\* destination had not made durable is lost or still lands, all of it.
LoopDies ==
    /\ pc' = "down"
    /\ \E landed \in {{}, accepted \cup pending_flush_result.events} :
          durable' = durable \cup landed
    /\ accepted' = {}
    /\ UNCHANGED <<loopVars, catchup, cursor, reported>>

----------------------------------------------------------------------------
(* Start of the loop.                                                      *)

\* The walsender sends the transactions whose commit record starts at or
\* after the requested position.
StartsAt(c, lsn) ==
    /\ \A t \in Tx : t < c => CommitLsn[t] < lsn
    /\ c \in Tx => CommitLsn[c] >= lsn

\* What every transaction committed before lsn owes the destination is there.
CoveredUpTo(lsn) ==
    \A t \in Tx : CommitLsn[t] < lsn => Events(t) \subseteq durable

\* ApplyLoop::start and ApplyLoopState::new on a connection that streams
\* from start_lsn.
FreshLoop(start_lsn) ==
    /\ pc' = "top"
    /\ last_commit_end_lsn' = NoLsn
    /\ pending_durability_interval' = FALSE
    /\ remote_final_lsn' = NoLsn
    /\ last_received_lsn' = start_lsn
    /\ last_flush_lsn' = start_lsn
    /\ event_batch' = {}
    /\ draining_for_shutdown' = FALSE
    /\ flush_deadline' = FALSE
    /\ pending_flush_result' = NoFlush
    /\ exit_intent' = "None"
    /\ processing_paused' = FALSE
    /\ reported' = 0
    /\ \E c \in 1 .. NumTx + 1 :
          /\ StartsAt(c, start_lsn)
          /\ cursor' = [tx |-> c, k |-> BeginK]

\* A new slot: what committed before its consistent point is in the table
\* copies.  A table-sync worker starts streaming once it is in Catchup, with
\* a target at or after its snapshot.
Init ==
    \E start_lsn \in Lsn, c \in 1 .. NumTx + 1 :
       /\ StartsAt(c, start_lsn)
       /\ pc = "top"
       /\ last_commit_end_lsn = NoLsn
       /\ pending_durability_interval = FALSE
       /\ remote_final_lsn = NoLsn
       /\ last_received_lsn = start_lsn
       /\ last_flush_lsn = start_lsn
       /\ event_batch = {}
       /\ draining_for_shutdown = FALSE
       /\ flush_deadline = FALSE
       /\ pending_flush_result = NoFlush
       /\ exit_intent = "None"
       /\ processing_paused = FALSE
       /\ catchup \in {NoLsn} \cup {l \in Lsn : l >= start_lsn}
       /\ syncDone = NoLsn
       /\ shutdown = "none"
       /\ cursor = [tx |-> c, k |-> BeginK]
       /\ reported = 0
       /\ confirmed = start_lsn
       /\ checkpoint = NoLsn
       /\ accepted = {}
       /\ durable = UNION {Events(t) : t \in {s \in Tx : s < c}}

----------------------------------------------------------------------------
(* Table-sync hooks of the loop.                                           *)

\* try_complete_catchup: stores SyncDone at lsn and asks for completion.
TryCompleteCatchup(lsn) ==
    IF catchup_target_reached(lsn)
    THEN /\ syncDone' = lsn
         /\ exit_intent' = record_exit_intent("Complete")
    ELSE UNCHANGED <<syncDone, exit_intent>>

\* The apply worker's hooks may wait for a table-sync worker; a shutdown
\* during the wait makes them ask for a pause.
ApplyHookIntents == {"None"} \cup (IF shutdown = "none" THEN {} ELSE {"Pause"})

\* process_syncing_tables_after_commit_event, the intent it returns.
CommitHookIntents(lsn) ==
    IF IsTableSync
    THEN {IF catchup_target_reached(lsn) THEN "Complete" ELSE "None"}
    ELSE ApplyHookIntents

----------------------------------------------------------------------------
(* One iteration: maybe_process_syncing_tables_when_quiescent, then         *)
(* try_finish_active_iteration, then select!.                              *)

\* Catchup reached its target through a keepalive while a commit is only
\* accepted: Complete is recorded, then an empty required-durability write.
QuiescentBarrier ==
    /\ pc = "top" /\ ~draining_for_shutdown /\ exit_intent = "None"
    /\ ~handling_transaction /\ ~has_unresolved_batch_work
    /\ last_commit_end_lsn # NoLsn
    /\ catchup_target_reached(last_received_lsn)
    /\ exit_intent' = "Complete"
    /\ dispatch_write_events({}, last_commit_end_lsn, "Complete")
    /\ UNCHANGED <<pending_durability_interval, remote_final_lsn,
                   last_received_lsn, last_flush_lsn, event_batch,
                   draining_for_shutdown, flush_deadline, processing_paused,
                   envVars, syncDone, cursor, reported, confirmed,
                   checkpoint, destVars>>

\* process_syncing_tables_when_quiescent on a quiescent loop.
QuiescentHook ==
    IF IsTableSync THEN TryCompleteCatchup(last_received_lsn)
    ELSE /\ exit_intent' \in {record_exit_intent(i) : i \in ApplyHookIntents}
         /\ UNCHANGED syncDone

\* Mutant: the hook runs whatever is still unresolved.
HookOnBusyLoop == QuiescentHook

\* process_syncing_tables_when_quiescent returns early on a busy loop.
process_syncing_tables_when_quiescent ==
    IF is_quiescent THEN QuiescentHook ELSE UNCHANGED <<syncDone, exit_intent>>

TopOfIteration ==
    /\ pc = "top" /\ ~draining_for_shutdown
    /\ IF exit_intent # "None" THEN UNCHANGED <<syncDone, exit_intent>>
       ELSE /\ ~(/\ ~handling_transaction /\ ~has_unresolved_batch_work
                 /\ last_commit_end_lsn # NoLsn
                 /\ catchup_target_reached(last_received_lsn))
            /\ process_syncing_tables_when_quiescent
    /\ pc' = IF exit_intent' = "None" \/ has_unresolved_batch_work
             THEN "select"
             ELSE IF exit_intent' = "Complete" THEN "Completed" ELSE "Paused"
    /\ UNCHANGED <<last_commit_end_lsn, pending_durability_interval,
                   remote_final_lsn, last_received_lsn, last_flush_lsn,
                   event_batch, draining_for_shutdown, flush_deadline,
                   pending_flush_result, processing_paused, envVars, cursor,
                   reported, confirmed, checkpoint, destVars>>

\* run_draining_shutdown_iteration: with nothing unresolved, the final status
\* update and the result.
DrainTop ==
    /\ pc = "top" /\ draining_for_shutdown
    /\ IF has_unresolved_batch_work
       THEN pc' = "select" /\ UNCHANGED reported
       ELSE /\ send_status_update(checkpoint_lsn)
            /\ pc' = IF exit_intent = "Complete" THEN "Completed" ELSE "Paused"
    /\ UNCHANGED <<loopVars, envVars, syncDone, cursor, confirmed, checkpoint,
                   destVars>>

handle_shutdown_signal ==
    /\ pc = "select" /\ ~draining_for_shutdown /\ shutdown = "signalled"
    /\ shutdown' = "seen"
    /\ exit_intent' = record_exit_intent("Pause")
    /\ IF has_unresolved_batch_work
       THEN draining_for_shutdown' = TRUE /\ UNCHANGED reported
       ELSE send_status_update(checkpoint_lsn) /\ UNCHANGED draining_for_shutdown
    /\ pc' = "top"
    /\ UNCHANGED <<last_commit_end_lsn, pending_durability_interval,
                   remote_final_lsn, last_received_lsn, last_flush_lsn,
                   event_batch, flush_deadline, pending_flush_result,
                   processing_paused, catchup, syncDone, cursor, confirmed,
                   checkpoint, destVars>>

----------------------------------------------------------------------------
(* handle_flush_result, by outcome.                                        *)

\* A failed write, or an accepted one where durability was required.
FlushFailed ==
    /\ pc = "select"
    /\ \/ pending_flush_result.status = "failed"
       \/ /\ pending_flush_result.status = "accepted"
          /\ pending_flush_result.durability = "RequireDurable"
    /\ LoopDies
    /\ UNCHANGED <<syncDone, shutdown, confirmed, checkpoint>>

\* The tail of handle_flush_result: a batch that waited behind the result
\* is flushed now.
ResumeWith(commit_end, exit, interval) ==
    IF processing_paused
    THEN flush_batch(event_batch, commit_end, exit, interval, NoFlush)
    ELSE /\ event_batch' = event_batch /\ last_commit_end_lsn' = commit_end
         /\ pending_flush_result' = NoFlush
         /\ processing_paused' = FALSE
         /\ pc' = "top"

\* Mutant: an accepted write does not open a durability interval.
NoIntervalOpened == pending_durability_interval

\* The first accepted write with events opens the durability interval.
IntervalAfterAccept ==
    pending_durability_interval \/ pending_flush_result.events # {}

FlushAccepted ==
    /\ pc = "select"
    /\ pending_flush_result.status = "accepted"
    /\ pending_flush_result.durability = "MayDefer"
    /\ pending_durability_interval' = IntervalAfterAccept
    /\ ResumeWith(Max2(last_commit_end_lsn, pending_flush_result.commit_end_lsn),
                  exit_intent, IntervalAfterAccept)
    /\ flush_deadline' = TRUE
    /\ UNCHANGED <<remote_final_lsn, last_received_lsn, last_flush_lsn,
                   draining_for_shutdown, exit_intent, envVars, syncDone,
                   cursor, reported, confirmed, checkpoint, destVars>>

\* Durable with a commit: process_syncing_tables_after_flush records the
\* flush, runs the table-sync hook, then persists the checkpoint.  An empty
\* barrier of a completing loop also runs the quiescent hook.
FlushDurable ==
    /\ pc = "select"
    /\ pending_flush_result.status = "durable"
    /\ LET commit_end == pending_flush_result.commit_end_lsn
           barrier == /\ pending_flush_result.events = {}
                      /\ pending_flush_result.durability = "RequireDurable"
           quiescent == /\ ~handling_transaction /\ event_batch = {}
                        /\ last_commit_end_lsn = NoLsn
           hook == IF commit_end # NoLsn /\ catchup_target_reached(commit_end)
                   THEN commit_end
                   ELSE IF /\ barrier /\ exit_intent = "Complete" /\ quiescent
                           /\ catchup_target_reached(last_received_lsn)
                   THEN last_received_lsn ELSE NoLsn
       IN /\ last_flush_lsn' = Max2(last_flush_lsn, commit_end)
          /\ syncDone' = Max2(syncDone, hook)
          /\ exit_intent' = IF hook # NoLsn THEN "Complete" ELSE exit_intent
          /\ checkpoint' = Max2(checkpoint, commit_end)
          /\ ResumeWith(last_commit_end_lsn, exit_intent', FALSE)
    /\ pending_durability_interval' = FALSE
    /\ UNCHANGED <<remote_final_lsn, last_received_lsn, draining_for_shutdown,
                   flush_deadline, envVars, cursor, reported, confirmed,
                   destVars>>

\* The same, when the SyncDone or the checkpoint write fails.
FlushDurablePersistFails ==
    /\ pc = "select"
    /\ pending_flush_result.status = "durable"
    /\ pending_flush_result.commit_end_lsn # NoLsn
    /\ \/ UNCHANGED syncDone
       \/ /\ catchup_target_reached(pending_flush_result.commit_end_lsn)
          /\ syncDone' = pending_flush_result.commit_end_lsn
    /\ LoopDies
    /\ UNCHANGED <<shutdown, confirmed, checkpoint>>

----------------------------------------------------------------------------
(* Deadlines, memory pressure and status updates.                          *)

FlushNow ==
    /\ flush_batch(event_batch, last_commit_end_lsn, exit_intent,
                   pending_durability_interval, pending_flush_result)
    /\ UNCHANGED <<pending_durability_interval, remote_final_lsn,
                   last_received_lsn, last_flush_lsn, draining_for_shutdown,
                   flush_deadline, exit_intent, envVars, syncDone, cursor,
                   reported, confirmed, checkpoint, destVars>>

DeadlineExpires ==
    pc = "select" /\ flush_deadline /\ can_wait_for_deadline /\ FlushNow

\* flush_batch on an empty batch resets nothing: only an effective flush is
\* a step of its own.
MemoryPressure ==
    /\ pc = "select"
    /\ \/ has_pending_batch
       \/ pending_durability_interval /\ ~has_pending_flush_result
    /\ FlushNow

\* Keepalive deadline, in select! or while the destination call is blocked.
PeriodicKeepAlive ==
    /\ pc \in {"select", "write"}
    /\ send_status_update(checkpoint_lsn)
    /\ UNCHANGED <<pc, loopVars, envVars, syncDone, cursor, confirmed,
                   checkpoint, destVars>>

----------------------------------------------------------------------------
(* handle_replication_message_and_flush.                                   *)

\* Mutant: buffering events does not arm the deadline.
PushWithoutDeadline(events, commit_end, exit, end_batch) ==
    LET batch == event_batch \cup events
        carried == Max2(last_commit_end_lsn, commit_end)
    IN /\ UNCHANGED flush_deadline
       /\ \/ /\ end_batch \/ batch # {}
             /\ flush_batch(batch, carried, exit, pending_durability_interval,
                            pending_flush_result)
          \/ ~end_batch /\ keep_batch(batch, carried)

\* Pushes events, then flushes if the batch is full (a free choice once it
\* holds something) or if an early flush is requested.
PushAndMaybeFlush(events, commit_end, exit, end_batch) ==
    LET batch == event_batch \cup events
        carried == Max2(last_commit_end_lsn, commit_end)
    IN /\ flush_deadline' = (flush_deadline \/ events # {})
       /\ \/ /\ end_batch \/ batch # {}
             /\ flush_batch(batch, carried, exit, pending_durability_interval,
                            pending_flush_result)
          \/ ~end_batch /\ keep_batch(batch, carried)

CanReceive == pc = "select" /\ ~draining_for_shutdown /\ can_process_messages

\* Positions of the BEGIN and row messages of transaction t: change LSNs
\* before its commit record, zero for auxiliary messages.
ChangeLsn(t) == 0 .. CommitLsn[t] - 1

handle_begin_message ==
    /\ CanReceive /\ cursor.tx \in Tx /\ cursor.k = BeginK
    /\ \E lsn \in ChangeLsn(cursor.tx) \cup {0} :
          last_received_lsn' = Max2(last_received_lsn, lsn)
    /\ remote_final_lsn' = CommitLsn[cursor.tx]
    /\ PushAndMaybeFlush({<<cursor.tx, BeginK>>}, NoLsn, exit_intent, FALSE)
    /\ cursor' = [cursor EXCEPT !.k = BeginK + 1]
    /\ UNCHANGED <<pending_durability_interval, last_flush_lsn,
                   draining_for_shutdown, exit_intent, envVars, syncDone,
                   reported, confirmed, checkpoint, destVars>>

\* INSERT, UPDATE, DELETE and TRUNCATE: a row of a table that another worker
\* owns yields no event.
handle_row_message ==
    /\ CanReceive /\ cursor.tx \in Tx /\ cursor.k \in 1 .. Rows
    /\ \E lsn \in ChangeLsn(cursor.tx) \cup {0} :
          last_received_lsn' = Max2(last_received_lsn, lsn)
    /\ PushAndMaybeFlush({<<cursor.tx, cursor.k>>} \cap Owned, NoLsn,
                         exit_intent, FALSE)
    /\ cursor' = [cursor EXCEPT !.k = cursor.k + 1]
    /\ UNCHANGED <<pending_durability_interval, remote_final_lsn,
                   last_flush_lsn, draining_for_shutdown, exit_intent,
                   envVars, syncDone, reported, confirmed, checkpoint,
                   destVars>>

handle_commit_message ==
    /\ CanReceive /\ cursor.tx \in Tx /\ cursor.k = CommitK
    /\ handling_transaction
    /\ last_received_lsn' = Max2(last_received_lsn, EndLsn[cursor.tx])
    /\ remote_final_lsn' = NoLsn
    /\ \E intent \in CommitHookIntents(EndLsn[cursor.tx]) :
          /\ exit_intent' = record_exit_intent(intent)
          /\ PushAndMaybeFlush({<<cursor.tx, CommitK>>}, EndLsn[cursor.tx],
                               exit_intent', intent # "None")
    /\ cursor' = [tx |-> cursor.tx + 1, k |-> BeginK]
    /\ UNCHANGED <<pending_durability_interval, last_flush_lsn,
                   draining_for_shutdown, envVars, syncDone, reported,
                   confirmed, checkpoint, destVars>>

\* A primary keepalive reports the decoded WAL frontier: it may cross
\* transactions that have not committed, never an unsent commit record.
KeepAliveLsn ==
    IF cursor.tx \in Tx THEN 0 .. CommitLsn[cursor.tx] ELSE Lsn

handle_keepalive ==
    /\ CanReceive
    /\ \E lsn \in KeepAliveLsn :
          /\ last_received_lsn' = Max2(last_received_lsn, lsn)
          /\ send_status_update(IF is_quiescent
                                THEN Max2(last_received_lsn, lsn)
                                ELSE last_flush_lsn)
    /\ PushAndMaybeFlush({}, NoLsn, exit_intent, FALSE)
    /\ UNCHANGED <<pending_durability_interval, remote_final_lsn,
                   last_flush_lsn, draining_for_shutdown, exit_intent,
                   envVars, syncDone, cursor, confirmed, checkpoint, destVars>>

----------------------------------------------------------------------------
(* The destination, the walsender and failures.                            *)

\* destination.write_events returns Ok: the deadline is reset.
WriteEventsReturns ==
    /\ pc = "write"
    /\ pc' = "top"
    /\ flush_deadline' = FALSE
    /\ UNCHANGED <<last_commit_end_lsn, pending_durability_interval,
                   remote_final_lsn, last_received_lsn, last_flush_lsn,
                   event_batch, draining_for_shutdown, pending_flush_result,
                   exit_intent, processing_paused, envVars, syncDone, cursor,
                   reported, confirmed, checkpoint, destVars>>

\* The destination resolves the write.  A durable result also covers every
\* earlier accepted write of the stream.
DestinationResolves(status) ==
    /\ pc \in {"top", "select", "write"}
    /\ pending_flush_result.status = "inflight"
    /\ pending_flush_result' = [pending_flush_result EXCEPT !.status = status]
    /\ CASE status = "durable" ->
              /\ durable' = durable \cup accepted \cup pending_flush_result.events
              /\ accepted' = {}
         [] status = "accepted" ->
              /\ accepted' = accepted \cup pending_flush_result.events
              /\ UNCHANGED durable
         [] status = "failed" -> UNCHANGED destVars
    /\ UNCHANGED <<pc, last_commit_end_lsn, pending_durability_interval,
                   remote_final_lsn, last_received_lsn, last_flush_lsn,
                   event_batch, draining_for_shutdown, flush_deadline,
                   exit_intent, processing_paused, envVars, syncDone, cursor,
                   reported, confirmed, checkpoint>>

\* The walsender applies the status update it received last.
WalsenderConfirms ==
    /\ reported > confirmed
    /\ confirmed' = reported
    /\ UNCHANGED <<pc, loopVars, envVars, syncDone, cursor, reported,
                   checkpoint, destVars>>

RequestShutdown ==
    /\ pc \in {"top", "select", "write"} /\ shutdown = "none"
    /\ shutdown' = "signalled"
    /\ UNCHANGED <<pc, loopVars, catchup, syncDone, cursor, reported,
                   confirmed, checkpoint, destVars>>

\* The connection ends, write_events fails, or the process dies.
Crash ==
    /\ pc \in {"top", "select", "write"}
    /\ LoopDies
    /\ UNCHANGED <<syncDone, shutdown, confirmed, checkpoint>>

\* get_start_lsn of the apply worker: the later of the persisted checkpoint
\* and the slot's confirmed position.  A table-sync worker that fails copies
\* its table again instead.
Restart ==
    /\ pc \in {"down", "Paused"} /\ ~IsTableSync
    /\ FreshLoop(Max2(checkpoint, confirmed))
    /\ shutdown' = "none"
    /\ accepted' = {}
    /\ UNCHANGED <<catchup, syncDone, confirmed, checkpoint, durable>>

\* A finished table-sync invocation.
Finished ==
    /\ pc \in {"Completed", "Paused", "down"} /\ IsTableSync
    /\ UNCHANGED vars

StartIteration == QuiescentBarrier \/ TopOfIteration \/ DrainTop
handle_flush_result == FlushFailed \/ FlushAccepted \/ FlushDurable

Next ==
    \/ StartIteration
    \/ handle_shutdown_signal
    \/ handle_flush_result \/ FlushDurablePersistFails
    \/ DeadlineExpires \/ MemoryPressure \/ PeriodicKeepAlive
    \/ handle_begin_message \/ handle_row_message
    \/ handle_commit_message \/ handle_keepalive
    \/ WriteEventsReturns
    \/ \E status \in {"accepted", "durable", "failed"} :
          DestinationResolves(status)
    \/ WalsenderConfirms \/ RequestShutdown \/ Crash \/ Restart \/ Finished

Spec == Init /\ [][Next]_vars

\* The loop keeps polling its higher-priority branches before it reads more
\* WAL (biased select!), so they are not starved; the destination resolves
\* every write it is handed; PostgreSQL keeps sending.
Fairness ==
    /\ WF_vars(StartIteration)
    /\ SF_vars(handle_shutdown_signal) /\ SF_vars(handle_flush_result)
    /\ SF_vars(DeadlineExpires)
    /\ WF_vars(WriteEventsReturns)
    /\ WF_vars(\E s \in {"accepted", "durable", "failed"} :
                  DestinationResolves(s))
    /\ SF_vars(handle_begin_message \/ handle_row_message
               \/ handle_commit_message)
    /\ SF_vars(handle_keepalive /\ cursor.tx = NumTx + 1
               /\ last_received_lsn' = MaxLsn)

FairSpec == Spec /\ Fairness

----------------------------------------------------------------------------
(* Properties.                                                             *)

Flush ==
    [status : {"none", "inflight", "accepted", "durable", "failed"},
     events : SUBSET Event,
     commit_end_lsn : {NoLsn} \cup Lsn,
     durability : {"MayDefer", "RequireDurable"}]

\* Every variable of the loop, the slot, the store and the destination keeps
\* its type.
TypeOK ==
    /\ pc \in Pc
    /\ last_commit_end_lsn \in {NoLsn} \cup Lsn
    /\ pending_durability_interval \in BOOLEAN
    /\ remote_final_lsn \in {NoLsn} \cup Lsn
    /\ last_received_lsn \in Lsn
    /\ last_flush_lsn \in Lsn
    /\ event_batch \subseteq Event
    /\ draining_for_shutdown \in BOOLEAN
    /\ flush_deadline \in BOOLEAN
    /\ pending_flush_result \in Flush
    /\ exit_intent \in {"None", "Pause", "Complete"}
    /\ processing_paused \in BOOLEAN
    /\ catchup \in {NoLsn} \cup Lsn
    /\ syncDone \in {NoLsn} \cup Lsn
    /\ shutdown \in {"none", "signalled", "seen"}
    /\ cursor \in [tx : 1 .. NumTx + 1, k : 0 .. CommitK]
    /\ reported \in Lsn
    /\ confirmed \in Lsn
    /\ checkpoint \in {NoLsn} \cup Lsn
    /\ accepted \subseteq Event
    /\ durable \subseteq Event

Running == pc \in {"top", "select", "write"}

\* Every owned message received on this connection is durable, accepted, in
\* flight or buffered: no path through flush_batch, a paused batch, an early
\* flush or a flush result loses the batch it took.
NothingDropped ==
    Running =>
       \A t \in Tx : \A e \in Events(t) :
          t < cursor.tx \/ (t = cursor.tx /\ e[2] < cursor.k)
             => e \in durable \cup accepted \cup pending_flush_result.events
                      \cup event_batch

\* Wherever the worker restarts (the later of the persisted checkpoint and the
\* slot's confirmed position), every transaction that PostgreSQL will not send
\* again is durable at the destination: get_start_lsn never skips a commit
\* that was only received, buffered, in flight or accepted.
NoLoss == CoveredUpTo(Max2(checkpoint, confirmed))

\* The LSN of a stored SyncDone is a gap-free handover boundary: every owned
\* event of a transaction committed before it is durable, since the apply
\* worker will skip those transactions for this table.
SyncDoneIsGapFree == syncDone # NoLsn => CoveredUpTo(syncDone)

\* Buffered events and an open durability interval always have an armed
\* deadline in front of them (or a write in flight that will arm it), so
\* neither waits for traffic that may never come.
WaitingWorkIsArmed ==
    pc \in {"top", "select"} /\ can_wait_for_deadline => flush_deadline

\* A carried commit LSN keeps the loop from being quiescent, so it always has
\* something that will settle it: a buffered batch or an open durability
\* interval.  Without either, status feedback would be stuck for good.
CarriedCommitSettles ==
    Running /\ last_commit_end_lsn # NoLsn =>
       has_pending_batch \/ pending_durability_interval

\* What the destination has accepted without durability is made durable, or
\* the loop ends and replays it; an idle tail is settled by an empty barrier.
AcceptedSettles == accepted # {} ~> accepted = {} \/ ~Running

\* A shutdown request ends the invocation, whatever is buffered or in flight.
ShutdownEnds == shutdown = "signalled" ~> ~Running

\* A table-sync worker in Catchup finishes (or stops for shutdown or an
\* error): the apply worker blocks on it without reading WAL.
CatchupEnds == IsTableSync ~> ~Running
=============================================================================
