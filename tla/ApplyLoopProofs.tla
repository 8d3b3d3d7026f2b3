-------------------------- MODULE ApplyLoopProofs --------------------------
(***************************************************************************)
(* TLAPS proofs about ApplyLoop, for every number of transactions and rows *)
(* and every placement of their commit records in the WAL.                 *)
(***************************************************************************)
EXTENDS ApplyLoop, TLAPS

USE DEF NoLsn, BeginK

----------------------------------------------------------------------------
(* Facts about the constants and the operators.                            *)

\* Commit records lie within the modelled positions.
LEMMA WalFacts ==
    /\ NumTx \in Nat /\ Rows \in Nat /\ MaxLsn \in Nat
    /\ \A t \in Tx : /\ t \in Nat
                     /\ CommitLsn[t] \in Lsn /\ EndLsn[t] \in Lsn
                     /\ CommitLsn[t] < EndLsn[t]
    /\ \A s, t \in Tx : s < t => EndLsn[s] <= CommitLsn[t]
BY SizeAssumption, WalAssumption DEF Tx, Lsn

\* The messages of a transaction are events.
LEMMA EventFacts ==
    /\ \A t \in Tx : Events(t) \subseteq Event
    /\ \A t \in Tx : <<t, BeginK>> \in Event /\ <<t, CommitK>> \in Event
    /\ \A t \in Tx, k \in 1 .. Rows : {<<t, k>>} \cap Owned \subseteq Event
<1>1. \A t \in Tx : Events(t) \subseteq Event
  BY DEF Event
<1>2. \A t \in Tx : <<t, BeginK>> \in Events(t) /\ <<t, CommitK>> \in Events(t)
  BY DEF Events
<1>3. \A t \in Tx, k \in 1 .. Rows : <<t, k>> \in Owned => <<t, k>> \in Events(t)
  BY DEF Events
<1>. QED
  BY <1>1, <1>2, <1>3

\* The maximum of two positions, one of which may be absent, is one of them.
LEMMA MaxFacts ==
    ASSUME NEW a \in Int, NEW b \in Int
    PROVE  /\ Max2(a, b) \in {a, b}
           /\ Max2(a, b) >= a /\ Max2(a, b) >= b
BY DEF Max2

\* A pending result built by dispatch_write_events is well typed.
LEMMA DispatchType ==
    ASSUME NEW events \in SUBSET Event, NEW commit_end \in {NoLsn} \cup Lsn,
           NEW exit, dispatch_write_events(events, commit_end, exit)
    PROVE  /\ pending_flush_result' \in Flush
           /\ last_commit_end_lsn' \in {NoLsn} \cup Lsn
           /\ pc' \in Pc
BY DEF dispatch_write_events, Flush, Pc

\* NoFlush is a well-typed flush record.
LEMMA NoFlushType == NoFlush \in Flush
BY DEF NoFlush, Flush

\* flush_batch preserves the types of the variables it assigns.
LEMMA FlushBatchType ==
    ASSUME NEW batch \in SUBSET Event, NEW commit_end \in {NoLsn} \cup Lsn,
           NEW exit, NEW interval, NEW pending \in Flush,
           flush_batch(batch, commit_end, exit, interval, pending)
    PROVE  /\ pending_flush_result' \in Flush
           /\ last_commit_end_lsn' \in {NoLsn} \cup Lsn
           /\ event_batch' \subseteq Event
           /\ processing_paused' \in BOOLEAN
           /\ pc' \in Pc
<1>1. CASE dispatch_write_events({}, commit_end, exit) /\ event_batch' = {}
           /\ processing_paused' = FALSE
  BY <1>1, DispatchType
<1>2. CASE dispatch_write_events(batch, commit_end, exit) /\ event_batch' = {}
           /\ processing_paused' = FALSE
  BY <1>2, DispatchType
<1>3. CASE /\ event_batch' = batch /\ last_commit_end_lsn' = commit_end
           /\ pending_flush_result' = pending
           /\ processing_paused' \in BOOLEAN /\ pc' = "top"
  BY <1>3 DEF Pc
<1>. QED
  BY <1>1, <1>2, <1>3 DEF flush_batch

\* ResumeWith preserves the types of the variables it assigns.
LEMMA ResumeType ==
    ASSUME TypeOK, NEW commit_end \in {NoLsn} \cup Lsn, NEW exit, NEW interval,
           ResumeWith(commit_end, exit, interval)
    PROVE  /\ pending_flush_result' \in Flush
           /\ last_commit_end_lsn' \in {NoLsn} \cup Lsn
           /\ event_batch' \subseteq Event
           /\ processing_paused' \in BOOLEAN
           /\ pc' \in Pc
<1>1. CASE flush_batch(event_batch, commit_end, exit, interval, NoFlush)
  <2>1. event_batch \in SUBSET Event
    BY DEF TypeOK
  <2>. QED
    BY <1>1, <2>1, FlushBatchType, NoFlushType
<1>2. CASE /\ event_batch' = event_batch /\ last_commit_end_lsn' = commit_end
           /\ pending_flush_result' = NoFlush
           /\ processing_paused' = FALSE /\ pc' = "top"
  BY <1>2, NoFlushType DEF TypeOK, Pc
<1>. QED
  BY <1>1, <1>2 DEF ResumeWith

\* PushAndMaybeFlush preserves the types of the variables it assigns.
LEMMA PushType ==
    ASSUME TypeOK, NEW events \in SUBSET Event,
           NEW commit_end \in {NoLsn} \cup Lsn, NEW exit,
           NEW end_batch \in BOOLEAN,
           PushAndMaybeFlush(events, commit_end, exit, end_batch)
    PROVE  /\ pending_flush_result' \in Flush
           /\ last_commit_end_lsn' \in {NoLsn} \cup Lsn
           /\ event_batch' \subseteq Event
           /\ processing_paused' \in BOOLEAN
           /\ flush_deadline' \in BOOLEAN
           /\ pc' \in Pc
<1>. DEFINE batch == event_batch \cup events
            carried == Max2(last_commit_end_lsn, commit_end)
<1>1. batch \in SUBSET Event /\ carried \in {NoLsn} \cup Lsn
  BY DEF TypeOK, Max2
<1>2. pending_flush_result \in Flush /\ processing_paused \in BOOLEAN
      /\ flush_deadline \in BOOLEAN
  BY DEF TypeOK
<1>3. flush_deadline' \in BOOLEAN
  BY <1>2 DEF PushAndMaybeFlush
<1>4. CASE flush_batch(batch, carried, exit, pending_durability_interval,
                       pending_flush_result)
  <2>. HIDE DEF batch, carried
  <2>. QED
    BY <1>1, <1>2, <1>3, <1>4, FlushBatchType
<1>5. CASE keep_batch(batch, carried)
  BY <1>1, <1>2, <1>3, <1>5 DEF keep_batch, Pc
<1>. QED
  BY <1>4, <1>5 DEF PushAndMaybeFlush

----------------------------------------------------------------------------
(* Type correctness.                                                       *)

\* What LoopDies leaves is well typed.
LEMMA LoopDiesType ==
    ASSUME TypeOK, LoopDies
    PROVE  /\ pc' \in Pc /\ durable' \subseteq Event /\ accepted' \subseteq Event
           /\ UNCHANGED <<loopVars, catchup, cursor, reported>>
BY DEF TypeOK, LoopDies, Pc, Flush

\* Init establishes the types.
LEMMA InitType == Init => TypeOK
<1>. SUFFICES ASSUME Init PROVE TypeOK
  OBVIOUS
<1>1. PICK start_lsn \in Lsn, c \in 1 .. NumTx + 1 :
         /\ cursor = [tx |-> c, k |-> BeginK]
         /\ last_received_lsn = start_lsn /\ last_flush_lsn = start_lsn
         /\ confirmed = start_lsn
         /\ durable = UNION {Events(t) : t \in {s \in Tx : s < c}}
         /\ catchup \in {NoLsn} \cup {l \in Lsn : l >= start_lsn}
  BY DEF Init
<1>2. durable \subseteq Event
  BY <1>1 DEF Event
<1>3. cursor \in [tx : 1 .. NumTx + 1, k : 0 .. CommitK]
  BY <1>1, WalFacts DEF CommitK
<1>4. /\ pc = "top" /\ last_commit_end_lsn = NoLsn
      /\ pending_durability_interval = FALSE /\ remote_final_lsn = NoLsn
      /\ event_batch = {} /\ draining_for_shutdown = FALSE
      /\ flush_deadline = FALSE /\ pending_flush_result = NoFlush
      /\ exit_intent = "None" /\ processing_paused = FALSE
      /\ syncDone = NoLsn /\ shutdown = "none" /\ reported = 0
      /\ checkpoint = NoLsn /\ accepted = {}
  BY DEF Init
<1>5. 0 \in Lsn
  BY WalFacts DEF Lsn
<1>. QED
  BY <1>1, <1>2, <1>3, <1>4, <1>5, NoFlushType DEF TypeOK, Pc

\* Every step preserves the types.
LEMMA NextType == TypeOK /\ [Next]_vars => TypeOK'
<1>. SUFFICES ASSUME TypeOK, [Next]_vars PROVE TypeOK'
  OBVIOUS
<1>. USE DEF envVars, loopVars, destVars
<1>0. CASE UNCHANGED vars
  BY <1>0 DEF vars, TypeOK
<1>1. CASE QuiescentBarrier
  <2>1. {} \in SUBSET Event /\ last_commit_end_lsn \in {NoLsn} \cup Lsn
    BY DEF TypeOK
  <2>2. dispatch_write_events({}, last_commit_end_lsn, "Complete")
    BY <1>1 DEF QuiescentBarrier
  <2>3. /\ pending_flush_result' \in Flush
        /\ last_commit_end_lsn' \in {NoLsn} \cup Lsn /\ pc' \in Pc
    BY <2>1, <2>2, DispatchType
  <2>. QED
    BY <1>1, <2>3 DEF QuiescentBarrier, TypeOK
<1>2. CASE TopOfIteration
  BY <1>2 DEF TopOfIteration, process_syncing_tables_when_quiescent,
       QuiescentHook, TryCompleteCatchup, ApplyHookIntents,
       record_exit_intent, TypeOK, Pc
<1>3. CASE DrainTop
  <2>1. reported' \in Lsn
    BY <1>3 DEF DrainTop, send_status_update, checkpoint_lsn, Max2, TypeOK
  <2>. QED
    BY <1>3, <2>1 DEF DrainTop, TypeOK, Pc
<1>4. CASE handle_shutdown_signal
  <2>1. reported' \in Lsn
    BY <1>4 DEF handle_shutdown_signal, send_status_update, checkpoint_lsn,
         Max2, TypeOK
  <2>. QED
    BY <1>4, <2>1 DEF handle_shutdown_signal, record_exit_intent, TypeOK, Pc
<1>5. CASE FlushFailed
  BY <1>5, LoopDiesType DEF FlushFailed, TypeOK
<1>6. CASE FlushAccepted
  <2>. DEFINE commit_end == Max2(last_commit_end_lsn,
                                 pending_flush_result.commit_end_lsn)
  <2>1. commit_end \in {NoLsn} \cup Lsn
    BY DEF TypeOK, Flush, Max2
  <2>2. ResumeWith(commit_end, exit_intent, IntervalAfterAccept)
    BY <1>6 DEF FlushAccepted
  <2>. HIDE DEF commit_end
  <2>3. /\ pending_flush_result' \in Flush /\ event_batch' \subseteq Event
        /\ last_commit_end_lsn' \in {NoLsn} \cup Lsn
        /\ processing_paused' \in BOOLEAN /\ pc' \in Pc
    BY <2>1, <2>2, ResumeType
  <2>4. pending_durability_interval' \in BOOLEAN
    BY <1>6 DEF FlushAccepted, IntervalAfterAccept, TypeOK
  <2>. QED
    BY <1>6, <2>3, <2>4 DEF FlushAccepted, TypeOK
<1>7. CASE FlushDurable
  <2>1. last_commit_end_lsn \in {NoLsn} \cup Lsn
        /\ ResumeWith(last_commit_end_lsn, exit_intent', FALSE)
    BY <1>7 DEF FlushDurable, TypeOK
  <2>2. /\ pending_flush_result' \in Flush /\ event_batch' \subseteq Event
        /\ last_commit_end_lsn' \in {NoLsn} \cup Lsn
        /\ processing_paused' \in BOOLEAN /\ pc' \in Pc
    BY <2>1, ResumeType
  <2>3. /\ pending_flush_result.commit_end_lsn \in {NoLsn} \cup Lsn
        /\ last_received_lsn \in Lsn /\ last_flush_lsn \in Lsn
        /\ syncDone \in {NoLsn} \cup Lsn /\ checkpoint \in {NoLsn} \cup Lsn
        /\ exit_intent \in {"None", "Pause", "Complete"}
    BY DEF TypeOK, Flush
  <2>4. /\ last_flush_lsn' \in Lsn /\ syncDone' \in {NoLsn} \cup Lsn
        /\ checkpoint' \in {NoLsn} \cup Lsn
        /\ exit_intent' \in {"None", "Pause", "Complete"}
    BY <1>7, <2>3, WalFacts DEF FlushDurable, Max2, Lsn
  <2>. QED
    BY <1>7, <2>2, <2>4 DEF FlushDurable, TypeOK
<1>8. CASE FlushDurablePersistFails
  <2>1. syncDone' \in {NoLsn} \cup Lsn
    BY <1>8 DEF FlushDurablePersistFails, TypeOK, Flush
  <2>. QED
    BY <1>8, <2>1, LoopDiesType DEF FlushDurablePersistFails, TypeOK
<1>9. CASE FlushNow
  <2>1. /\ event_batch \in SUBSET Event
        /\ last_commit_end_lsn \in {NoLsn} \cup Lsn
        /\ pending_flush_result \in Flush
    BY DEF TypeOK
  <2>2. /\ pending_flush_result' \in Flush /\ event_batch' \subseteq Event
        /\ last_commit_end_lsn' \in {NoLsn} \cup Lsn
        /\ processing_paused' \in BOOLEAN /\ pc' \in Pc
    BY <1>9, <2>1, FlushBatchType DEF FlushNow
  <2>. QED
    BY <1>9, <2>2 DEF FlushNow, TypeOK
<1>10. CASE PeriodicKeepAlive
  <2>1. reported' \in Lsn
    BY <1>10 DEF PeriodicKeepAlive, send_status_update, checkpoint_lsn, Max2,
         TypeOK
  <2>. QED
    BY <1>10, <2>1 DEF PeriodicKeepAlive, TypeOK
<1>11. CASE handle_begin_message
  <2>. DEFINE events == {<<cursor.tx, BeginK>>}
  <2>1. events \in SUBSET Event /\ NoLsn \in {NoLsn} \cup Lsn
    BY <1>11, EventFacts DEF handle_begin_message
  <2>2. PushAndMaybeFlush(events, NoLsn, exit_intent, FALSE)
    BY <1>11 DEF handle_begin_message
  <2>. HIDE DEF events
  <2>3. /\ pending_flush_result' \in Flush /\ event_batch' \subseteq Event
        /\ last_commit_end_lsn' \in {NoLsn} \cup Lsn
        /\ processing_paused' \in BOOLEAN /\ flush_deadline' \in BOOLEAN
        /\ pc' \in Pc
    BY <2>1, <2>2, PushType
  <2>4. /\ last_received_lsn' \in Lsn /\ remote_final_lsn' \in Lsn
    BY <1>11, WalFacts DEF handle_begin_message, ChangeLsn, Max2, TypeOK, Lsn
  <2>5. cursor' \in [tx : 1 .. NumTx + 1, k : 0 .. CommitK]
    BY <1>11, WalFacts DEF handle_begin_message, TypeOK, CommitK
  <2>. QED
    BY <1>11, <2>3, <2>4, <2>5 DEF handle_begin_message, TypeOK
<1>12. CASE handle_row_message
  <2>. DEFINE events == {<<cursor.tx, cursor.k>>} \cap Owned
  <2>1. events \in SUBSET Event /\ NoLsn \in {NoLsn} \cup Lsn
    BY <1>12, EventFacts DEF handle_row_message
  <2>2. PushAndMaybeFlush(events, NoLsn, exit_intent, FALSE)
    BY <1>12 DEF handle_row_message
  <2>. HIDE DEF events
  <2>3. /\ pending_flush_result' \in Flush /\ event_batch' \subseteq Event
        /\ last_commit_end_lsn' \in {NoLsn} \cup Lsn
        /\ processing_paused' \in BOOLEAN /\ flush_deadline' \in BOOLEAN
        /\ pc' \in Pc
    BY <2>1, <2>2, PushType
  <2>4. last_received_lsn' \in Lsn
    BY <1>12, WalFacts DEF handle_row_message, ChangeLsn, Max2, TypeOK, Lsn
  <2>5. cursor' \in [tx : 1 .. NumTx + 1, k : 0 .. CommitK]
    BY <1>12, WalFacts DEF handle_row_message, TypeOK, CommitK
  <2>. QED
    BY <1>12, <2>3, <2>4, <2>5 DEF handle_row_message, TypeOK
<1>13. CASE handle_commit_message
  <2>. DEFINE events == {<<cursor.tx, CommitK>>}
  <2>1. PICK intent \in CommitHookIntents(EndLsn[cursor.tx]) :
          /\ exit_intent' = record_exit_intent(intent)
          /\ PushAndMaybeFlush(events, EndLsn[cursor.tx], exit_intent',
                               intent # "None")
    BY <1>13 DEF handle_commit_message
  <2>2. /\ events \in SUBSET Event
        /\ EndLsn[cursor.tx] \in {NoLsn} \cup Lsn
        /\ (intent # "None") \in BOOLEAN
    BY <1>13, EventFacts, WalFacts DEF handle_commit_message
  <2>. HIDE DEF events
  <2>3. /\ pending_flush_result' \in Flush /\ event_batch' \subseteq Event
        /\ last_commit_end_lsn' \in {NoLsn} \cup Lsn
        /\ processing_paused' \in BOOLEAN /\ flush_deadline' \in BOOLEAN
        /\ pc' \in Pc
    BY <2>1, <2>2, PushType
  <2>4. last_received_lsn' \in Lsn
    BY <1>13, WalFacts DEF handle_commit_message, Max2, TypeOK
  <2>5. cursor' \in [tx : 1 .. NumTx + 1, k : 0 .. CommitK]
    BY <1>13, WalFacts DEF handle_commit_message, TypeOK, CommitK, Tx
  <2>6. exit_intent' \in {"None", "Pause", "Complete"}
    BY <2>1 DEF record_exit_intent
  <2>. QED
    BY <1>13, <2>3, <2>4, <2>5, <2>6 DEF handle_commit_message, TypeOK
<1>14. CASE handle_keepalive
  <2>1. {} \in SUBSET Event /\ NoLsn \in {NoLsn} \cup Lsn
    OBVIOUS
  <2>2. PushAndMaybeFlush({}, NoLsn, exit_intent, FALSE)
    BY <1>14 DEF handle_keepalive
  <2>3. /\ pending_flush_result' \in Flush /\ event_batch' \subseteq Event
        /\ last_commit_end_lsn' \in {NoLsn} \cup Lsn
        /\ processing_paused' \in BOOLEAN /\ flush_deadline' \in BOOLEAN
        /\ pc' \in Pc
    BY <2>1, <2>2, PushType
  <2>4. /\ last_received_lsn' \in Lsn /\ reported' \in Lsn
    BY <1>14, WalFacts DEF handle_keepalive, KeepAliveLsn, send_status_update,
         Max2, TypeOK, Lsn
  <2>. QED
    BY <1>14, <2>3, <2>4 DEF handle_keepalive, TypeOK
<1>15. CASE WriteEventsReturns
  BY <1>15 DEF WriteEventsReturns, TypeOK, Pc
<1>16. ASSUME NEW status \in {"accepted", "durable", "failed"},
              DestinationResolves(status)
       PROVE  TypeOK'
  <2>1. pending_flush_result' \in Flush
    BY <1>16 DEF DestinationResolves, TypeOK, Flush
  <2>2. accepted' \subseteq Event /\ durable' \subseteq Event
    BY <1>16 DEF DestinationResolves, TypeOK, Flush
  <2>. QED
    BY <1>16, <2>1, <2>2 DEF DestinationResolves, TypeOK
<1>17. CASE WalsenderConfirms
  BY <1>17 DEF WalsenderConfirms, TypeOK
<1>18. CASE RequestShutdown
  BY <1>18 DEF RequestShutdown, TypeOK
<1>19. CASE Crash
  BY <1>19, LoopDiesType DEF Crash, TypeOK
<1>20. CASE Restart
  <2>1. Max2(checkpoint, confirmed) \in Lsn
    BY WalFacts DEF Max2, TypeOK, Lsn
  <2>2. cursor' \in [tx : 1 .. NumTx + 1, k : 0 .. CommitK]
    BY <1>20, WalFacts DEF Restart, FreshLoop, CommitK
  <2>3. /\ pc' = "top" /\ last_commit_end_lsn' = NoLsn
        /\ pending_durability_interval' = FALSE /\ remote_final_lsn' = NoLsn
        /\ last_received_lsn' \in Lsn /\ last_flush_lsn' \in Lsn
        /\ event_batch' = {} /\ draining_for_shutdown' = FALSE
        /\ flush_deadline' = FALSE /\ pending_flush_result' = NoFlush
        /\ exit_intent' = "None" /\ processing_paused' = FALSE
        /\ shutdown' = "none" /\ reported' = 0 /\ accepted' = {}
        /\ UNCHANGED <<catchup, syncDone, confirmed, checkpoint, durable>>
    BY <1>20, <2>1 DEF Restart, FreshLoop
  <2>4. 0 \in Lsn
    BY WalFacts DEF Lsn
  <2>. QED
    BY <2>2, <2>3, <2>4, NoFlushType DEF TypeOK, Pc
<1>21. CASE Finished
  BY <1>21 DEF Finished, vars, TypeOK
<1>. QED
  BY <1>0, <1>1, <1>2, <1>3, <1>4, <1>5, <1>6, <1>7, <1>8, <1>9, <1>10, <1>11,
     <1>12, <1>13, <1>14, <1>15, <1>16, <1>17, <1>18, <1>19, <1>20, <1>21
     DEF Next, StartIteration, handle_flush_result, DeadlineExpires,
         MemoryPressure

\* The variables of the loop, the slot, the store and the destination keep
\* their types, whatever the WAL looks like.
THEOREM TypeCorrect == Spec => []TypeOK
BY InitType, NextType, PTL DEF Spec

----------------------------------------------------------------------------
(* The inductive invariant of the durability argument.                     *)

\* Everything the slot, the store and this connection claim is durable.
Claims ==
    /\ CoveredUpTo(confirmed) /\ CoveredUpTo(checkpoint)
    /\ CoveredUpTo(reported) /\ CoveredUpTo(syncDone)

\* The received position stays at or before the next commit record.
Frontier ==
    /\ handling_transaction <=> cursor.k # BeginK
    /\ cursor.k # BeginK => cursor.tx \in Tx
    /\ cursor.tx \in Tx => last_received_lsn <= CommitLsn[cursor.tx]
    /\ CoveredUpTo(last_flush_lsn)

\* Every owned message before `cur' is held somewhere.
Held(batch, pend, cur) ==
    \A t \in Tx : \A e \in Events(t) :
       t < cur.tx \/ (t = cur.tx /\ e[2] < cur.k)
          => e \in durable \cup accepted \cup pend.events \cup batch

\* Transactions whose commit record starts before lsn precede `cur'.
Received(lsn, cur) == \A t \in Tx : CommitLsn[t] < lsn => t < cur.tx

\* The write in flight holds whatever its commit position still lacks.
PendingCovers(pend) ==
    \A t \in Tx : CommitLsn[t] < pend.commit_end_lsn =>
       Events(t) \subseteq durable \cup accepted \cup pend.events

\* What the destination's answer says about the events of the write.
Answered(pend) ==
    /\ pend.status = "none" => pend = NoFlush
    /\ pend.status = "accepted" => pend.events \subseteq accepted
    /\ pend.status = "durable" => accepted = {} /\ pend.events \subseteq durable

\* Between transactions, whatever is not durable has a commit position that
\* keeps the loop from looking quiescent.
Tail(batch, commit_end, pend, open) ==
    ~open =>
       /\ batch # {} => commit_end # NoLsn
       /\ accepted \cup pend.events # {} =>
             commit_end # NoLsn \/ pend.commit_end_lsn # NoLsn

\* The batch, carried commit position, pending write, stream position and
\* transaction status of a loop fit together.
Work(batch, commit_end, pend, cur, open) ==
    /\ Held(batch, pend, cur)
    /\ Received(commit_end, cur) /\ Received(pend.commit_end_lsn, cur)
    /\ PendingCovers(pend)
    /\ Answered(pend)
    /\ Tail(batch, commit_end, pend, open)

LoopWork ==
    Work(event_batch, last_commit_end_lsn, pending_flush_result, cursor,
         handling_transaction)

IInv == TypeOK /\ Claims /\ (Running => Frontier /\ LoopWork)

----------------------------------------------------------------------------
(* What the invariant gives, and how a flush preserves it.                 *)

\* A quiescent loop has everything durable up to its received position: the
\* fact that lets checkpoint_lsn report last_received_lsn.
LEMMA QuiescentCovers ==
    ASSUME IInv, Running, ~handling_transaction, event_batch = {},
           last_commit_end_lsn = NoLsn,
           pending_flush_result.status \in {"none", "durable"},
           NEW l \in Int, cursor.tx \in Tx => l <= CommitLsn[cursor.tx]
    PROVE  CoveredUpTo(l)
<1>1. accepted = {} /\ pending_flush_result.events \subseteq durable
  BY DEF IInv, LoopWork, Work, Answered, Tail, NoFlush
<1>2. ASSUME NEW t \in Tx, CommitLsn[t] < l PROVE t < cursor.tx
  <2>1. cursor.tx \in 1 .. NumTx + 1 /\ t \in 1 .. NumTx /\ NumTx \in Nat
    BY WalFacts DEF IInv, TypeOK, Tx
  <2>2. CASE cursor.tx \in Tx
    <3>1. l <= CommitLsn[cursor.tx]
      BY <2>2
    <3>2. ASSUME cursor.tx < t PROVE FALSE
      BY <1>2, <2>2, <3>1, <3>2, WalFacts DEF Lsn
    <3>3. t # cursor.tx
      BY <1>2, <2>2, <3>1, WalFacts DEF Lsn
    <3>. QED
      BY <2>1, <3>2, <3>3
  <2>3. CASE cursor.tx \notin Tx
    BY <2>1, <2>3 DEF Tx
  <2>. QED
    BY <2>2, <2>3
<1>. QED
  BY <1>1, <1>2 DEF IInv, LoopWork, Work, Held, CoveredUpTo

\* A durable answer covers the commit position of its write.
LEMMA DurableCovers ==
    ASSUME IInv, Running, pending_flush_result.status = "durable"
    PROVE  CoveredUpTo(pending_flush_result.commit_end_lsn)
BY DEF IInv, LoopWork, Work, Answered, PendingCovers, CoveredUpTo

\* The two things a flush may do with a batch: keep it, or hand all of it to
\* the destination when nothing is pending.
Shape(batch, commit_end, pend) ==
    \/ /\ event_batch' = batch /\ last_commit_end_lsn' = commit_end
       /\ pending_flush_result' = pend
    \/ /\ pend.status = "none" /\ event_batch' = {}
       /\ last_commit_end_lsn' = NoLsn
       /\ pending_flush_result'.events = batch
       /\ pending_flush_result'.commit_end_lsn = commit_end
       /\ pending_flush_result'.status = "inflight"

\* flush_batch has one of the two shapes.
LEMMA FlushShape ==
    ASSUME NEW batch, NEW commit_end, NEW exit, NEW interval, NEW pend,
           flush_batch(batch, commit_end, exit, interval, pend)
    PROVE  Shape(batch, commit_end, pend) /\ pc' \in {"top", "write"}
BY DEF flush_batch, dispatch_write_events, Shape

\* So has handling a message.
LEMMA PushShape ==
    ASSUME NEW events, NEW commit_end, NEW exit, NEW end_batch,
           PushAndMaybeFlush(events, commit_end, exit, end_batch)
    PROVE  /\ Shape(event_batch \cup events,
                    Max2(last_commit_end_lsn, commit_end),
                    pending_flush_result)
           /\ pc' \in {"top", "write"}
<1>. DEFINE batch == event_batch \cup events
            carried == Max2(last_commit_end_lsn, commit_end)
<1>1. CASE flush_batch(batch, carried, exit, pending_durability_interval,
                       pending_flush_result)
  <2>. HIDE DEF batch, carried
  <2>1. Shape(batch, carried, pending_flush_result) /\ pc' \in {"top", "write"}
    BY <1>1, FlushShape
  <2>. QED
    BY <2>1 DEF batch, carried
<1>2. CASE keep_batch(batch, carried)
  BY <1>2 DEF keep_batch, Shape
<1>. QED
  BY <1>1, <1>2 DEF PushAndMaybeFlush

\* And the tail of handle_flush_result, once the result is cleared.
LEMMA ResumeShape ==
    ASSUME NEW commit_end, NEW exit, NEW interval,
           ResumeWith(commit_end, exit, interval)
    PROVE  Shape(event_batch, commit_end, NoFlush) /\ pc' \in {"top", "write"}
<1>1. CASE flush_batch(event_batch, commit_end, exit, interval, NoFlush)
  BY <1>1, FlushShape
<1>2. CASE ~flush_batch(event_batch, commit_end, exit, interval, NoFlush)
  BY <1>2 DEF ResumeWith, Shape
<1>. QED
  BY <1>1, <1>2

\* Either shape preserves the fit of the loop's parts.
LEMMA ShapePreserves ==
    ASSUME NEW batch, NEW commit_end, NEW pend, NEW open,
           Work(batch, commit_end, pend, cursor', open),
           Shape(batch, commit_end, pend),
           UNCHANGED destVars, handling_transaction' <=> open
    PROVE  LoopWork'
<1>. USE DEF destVars
<1>1. CASE /\ event_batch' = batch /\ last_commit_end_lsn' = commit_end
           /\ pending_flush_result' = pend
  BY <1>1 DEF LoopWork, Work, Held, Received, PendingCovers, Answered, Tail
<1>2. CASE /\ pend.status = "none" /\ event_batch' = {}
           /\ last_commit_end_lsn' = NoLsn
           /\ pending_flush_result'.events = batch
           /\ pending_flush_result'.commit_end_lsn = commit_end
           /\ pending_flush_result'.status = "inflight"
  <2>1. pend.events = {} /\ pend.commit_end_lsn = NoLsn
    BY <1>2 DEF Work, Answered, NoFlush
  <2>2. Held(event_batch, pending_flush_result, cursor)'
    BY <1>2, <2>1 DEF Work, Held
  <2>3. Received(last_commit_end_lsn, cursor)'
    BY <1>2, WalFacts DEF Received, Lsn
  <2>4. Received(pending_flush_result.commit_end_lsn, cursor)'
    BY <1>2 DEF Work, Received
  <2>5. PendingCovers(pending_flush_result)'
    <3>1. ASSUME NEW t \in Tx, CommitLsn[t] < commit_end
          PROVE  Events(t) \subseteq durable \cup accepted \cup batch
      BY <3>1, <2>1 DEF Work, Held, Received
    <3>. QED
      BY <1>2, <3>1 DEF PendingCovers
  <2>6. Answered(pending_flush_result)'
    BY <1>2 DEF Answered
  <2>7. Tail(event_batch, last_commit_end_lsn, pending_flush_result,
             handling_transaction)'
    BY <1>2, <2>1 DEF Work, Tail
  <2>. QED
    BY <2>2, <2>3, <2>4, <2>5, <2>6, <2>7 DEF LoopWork, Work
<1>. QED
  BY <1>1, <1>2 DEF Shape

----------------------------------------------------------------------------
(* The invariant is inductive.                                             *)

\* Steps that leave the loop's parts alone preserve their fit.
LEMMA WorkUnchanged ==
    ASSUME LoopWork, UNCHANGED destVars,
           UNCHANGED <<event_batch, last_commit_end_lsn, pending_flush_result,
                       cursor, remote_final_lsn>>
    PROVE  LoopWork'
BY DEF LoopWork, Work, Held, Received, PendingCovers, Answered, Tail, destVars,
   handling_transaction

\* Durability only grows, so positions that do not move stay covered.
LEMMA FrontierUnchanged ==
    ASSUME Frontier, durable \subseteq durable',
           UNCHANGED <<cursor, remote_final_lsn, last_received_lsn,
                       last_flush_lsn>>
    PROVE  Frontier'
BY DEF Frontier, CoveredUpTo, handling_transaction

\* The same for the claims of the slot, the store and the connection.
LEMMA ClaimsUnchanged ==
    ASSUME Claims, durable \subseteq durable',
           UNCHANGED <<confirmed, checkpoint, reported, syncDone>>
    PROVE  Claims'
BY DEF Claims, CoveredUpTo

\* The position a status update reports is covered.
LEMMA ReportCovers ==
    ASSUME IInv, Running PROVE CoveredUpTo(checkpoint_lsn)
<1>1. CASE is_quiescent
  <2>1. /\ ~handling_transaction /\ event_batch = {}
        /\ last_commit_end_lsn = NoLsn /\ pending_flush_result.status = "none"
    BY <1>1 DEF is_quiescent, has_unresolved_batch_work, has_pending_batch,
         has_pending_flush_result
  <2>2. last_received_lsn \in Int
        /\ (cursor.tx \in Tx => last_received_lsn <= CommitLsn[cursor.tx])
    BY WalFacts DEF IInv, TypeOK, Frontier, Lsn
  <2>3. CoveredUpTo(last_received_lsn)
    BY <2>1, <2>2, QuiescentCovers
  <2>. QED
    BY <1>1, <2>3 DEF checkpoint_lsn
<1>2. CASE ~is_quiescent
  BY <1>2 DEF checkpoint_lsn, IInv, Frontier
<1>. QED
  BY <1>1, <1>2

\* A status update at a covered position keeps the claims.
LEMMA ReportKeepsClaims ==
    ASSUME TypeOK, Claims, NEW l \in Int, CoveredUpTo(l),
           send_status_update(l),
           UNCHANGED <<confirmed, checkpoint, syncDone, durable>>
    PROVE  Claims'
<1>1. reported' \in {reported, l}
  BY DEF send_status_update, Max2
<1>. QED
  BY <1>1 DEF Claims, CoveredUpTo

\* A loop that dies keeps its claims: nothing durable is lost.
LEMMA LoopDiesInv ==
    ASSUME IInv, LoopDies, TypeOK', CoveredUpTo(syncDone)',
           UNCHANGED <<confirmed, checkpoint>>
    PROVE  IInv'
<1>1. durable \subseteq durable' /\ ~Running' /\ reported' = reported
  BY DEF LoopDies, Running
<1>2. Claims'
  BY <1>1 DEF IInv, Claims, CoveredUpTo
<1>. QED
  BY <1>1, <1>2 DEF IInv

\* Init establishes the invariant: what a new slot will not stream is in the
\* initial copies.
LEMMA InitInv == Init => IInv
<1>. SUFFICES ASSUME Init PROVE IInv
  OBVIOUS
<1>1. TypeOK
  BY InitType
<1>2. PICK start_lsn \in Lsn, c \in 1 .. NumTx + 1 :
         /\ StartsAt(c, start_lsn)
         /\ cursor = [tx |-> c, k |-> BeginK]
         /\ last_received_lsn = start_lsn /\ last_flush_lsn = start_lsn
         /\ confirmed = start_lsn
         /\ durable = UNION {Events(t) : t \in {s \in Tx : s < c}}
  BY DEF Init
<1>3. /\ last_commit_end_lsn = NoLsn /\ remote_final_lsn = NoLsn
      /\ event_batch = {} /\ pending_flush_result = NoFlush
      /\ syncDone = NoLsn /\ reported = 0 /\ checkpoint = NoLsn
      /\ accepted = {}
  BY DEF Init
<1>4. ASSUME NEW t \in Tx, CommitLsn[t] < start_lsn PROVE t < c
  BY <1>2, <1>4, WalFacts DEF StartsAt, Tx, Lsn
<1>5. CoveredUpTo(start_lsn)
  BY <1>2, <1>4 DEF CoveredUpTo
<1>6. Claims
  BY <1>2, <1>3, <1>5, WalFacts DEF Claims, CoveredUpTo, Lsn
<1>7. Frontier
  BY <1>2, <1>3, <1>5 DEF Frontier, handling_transaction, StartsAt
<1>8. ASSUME NEW t \in Tx, NEW e \in Events(t) PROVE ~(e[2] < 0)
  <2>1. CASE e = <<t, BeginK>>
    BY <2>1
  <2>2. CASE e = <<t, CommitK>>
    BY <2>2, WalFacts DEF CommitK
  <2>3. CASE e \in Owned
    BY <2>3, OwnedAssumption, WalFacts
  <2>. QED
    BY <1>8, <2>1, <2>2, <2>3 DEF Events
<1>9. Held(event_batch, pending_flush_result, cursor)
  BY <1>2, <1>8 DEF Held
<1>10. LoopWork
  BY <1>3, <1>9, WalFacts DEF LoopWork, Work, Received, PendingCovers,
     Answered, Tail, NoFlush, Lsn
<1>. QED
  BY <1>1, <1>6, <1>7, <1>10 DEF IInv

\* Adding the events of a message to the batch keeps the fit when they are
\* what the stream position passed, and a commit closes the transaction.
LEMMA PushWork ==
    ASSUME IInv, Running, NEW events, NEW commit_end \in {NoLsn} \cup Lsn,
           NEW open \in BOOLEAN,
           cursor.tx <= cursor'.tx, cursor'.tx \in Int,
           \A t \in Tx : \A e \in Events(t) :
              t < cursor'.tx \/ (t = cursor'.tx /\ e[2] < cursor'.k) =>
                 \/ t < cursor.tx \/ (t = cursor.tx /\ e[2] < cursor.k)
                 \/ e \in events,
           Received(commit_end, cursor'),
           ~open => \/ commit_end # NoLsn
                    \/ events = {} /\ ~handling_transaction
    PROVE  Work(event_batch \cup events, Max2(last_commit_end_lsn, commit_end),
                pending_flush_result, cursor', open)
<1>. DEFINE carried == Max2(last_commit_end_lsn, commit_end)
<1>1. /\ last_commit_end_lsn \in {NoLsn} \cup Lsn /\ MaxLsn \in Nat
      /\ cursor.tx \in Int
    BY WalFacts DEF IInv, TypeOK
<1>2. /\ carried \in {last_commit_end_lsn, commit_end}
      /\ last_commit_end_lsn # NoLsn \/ commit_end # NoLsn => carried # NoLsn
  BY <1>1 DEF Max2, Lsn
<1>3. \A t \in Tx : t < cursor.tx => t < cursor'.tx
  BY <1>1, WalFacts
<1>4. Held(event_batch \cup events, pending_flush_result, cursor')
  BY DEF IInv, LoopWork, Work, Held
<1>5. Received(carried, cursor')
  BY <1>2, <1>3 DEF IInv, LoopWork, Work, Received
<1>6. Received(pending_flush_result.commit_end_lsn, cursor')
  BY <1>3 DEF IInv, LoopWork, Work, Received
<1>7. Tail(event_batch \cup events, carried, pending_flush_result, open)
  BY <1>2 DEF IInv, LoopWork, Work, Tail
<1>. QED
  BY <1>4, <1>5, <1>6, <1>7 DEF IInv, LoopWork, Work

\* Handling a message preserves the fit under the same conditions.
LEMMA PushInv ==
    ASSUME IInv, Running, NEW events, NEW commit_end \in {NoLsn} \cup Lsn,
           NEW exit, NEW end_batch,
           PushAndMaybeFlush(events, commit_end, exit, end_batch),
           cursor.tx <= cursor'.tx, cursor'.tx \in Int,
           \A t \in Tx : \A e \in Events(t) :
              t < cursor'.tx \/ (t = cursor'.tx /\ e[2] < cursor'.k) =>
                 \/ t < cursor.tx \/ (t = cursor.tx /\ e[2] < cursor.k)
                 \/ e \in events,
           Received(commit_end, cursor'),
           ~handling_transaction' => \/ commit_end # NoLsn
                                     \/ events = {} /\ ~handling_transaction,
           UNCHANGED destVars
    PROVE  LoopWork' /\ pc' \in {"top", "write"}
<1>. DEFINE open == handling_transaction'
            batch == event_batch \cup events
            carried == Max2(last_commit_end_lsn, commit_end)
<1>1. open \in BOOLEAN
  BY DEF handling_transaction
<1>2. Work(batch, carried, pending_flush_result, cursor', open)
  BY <1>1, PushWork
<1>3. Shape(batch, carried, pending_flush_result) /\ pc' \in {"top", "write"}
  BY PushShape
<1>. HIDE DEF open, batch, carried
<1>4. handling_transaction' <=> open
  BY DEF open
<1>. QED
  BY <1>2, <1>3, <1>4, ShapePreserves

\* Which message of a transaction an event is.
LEMMA EventKinds ==
    ASSUME NEW t \in Tx, NEW e \in Events(t)
    PROVE  \/ e = <<t, BeginK>> /\ e[2] = 0
           \/ e = <<t, CommitK>> /\ e[2] = Rows + 1
           \/ e \in Owned /\ e[2] \in 1 .. Rows /\ e = <<t, e[2]>>
<1>1. CASE e = <<t, BeginK>>
  BY <1>1
<1>2. CASE e = <<t, CommitK>>
  BY <1>2 DEF CommitK
<1>3. CASE e \in Owned /\ e[1] = t
  BY <1>3, OwnedAssumption
<1>. QED
  BY <1>1, <1>2, <1>3 DEF Events

\* Receiving BEGIN, a row, COMMIT or a keepalive preserves the invariant.
LEMMA BeginInv == IInv /\ TypeOK' /\ handle_begin_message => IInv'
<1>. SUFFICES ASSUME IInv, TypeOK', handle_begin_message PROVE IInv'
  OBVIOUS
<1>. USE DEF envVars, loopVars, destVars
<1>0. PICK t \in Tx : t = cursor.tx
  BY DEF handle_begin_message
<1>1. /\ Running /\ ~handling_transaction /\ cursor.k = 0
      /\ cursor \in [tx : 1 .. NumTx + 1, k : 0 .. CommitK]
  BY DEF handle_begin_message, CanReceive, Running, IInv, Frontier, TypeOK
<1>2. cursor'.tx = t /\ cursor'.k = 1
  BY <1>0, <1>1 DEF handle_begin_message
<1>3. ASSUME NEW s \in Tx, NEW e \in Events(s),
             s < cursor'.tx \/ (s = cursor'.tx /\ e[2] < cursor'.k)
      PROVE  s < cursor.tx \/ e \in {<<cursor.tx, BeginK>>}
  BY <1>0, <1>2, <1>3, EventKinds, WalFacts
<1>4. PushAndMaybeFlush({<<cursor.tx, BeginK>>}, NoLsn, exit_intent, FALSE)
  BY DEF handle_begin_message
<1>5. handling_transaction' /\ Received(NoLsn, cursor')
  BY <1>0, WalFacts DEF handle_begin_message, handling_transaction, Received, Lsn
<1>6. LoopWork' /\ pc' \in {"top", "write"}
  <2>. DEFINE events == {<<cursor.tx, BeginK>>}
  <2>1. cursor.tx <= cursor'.tx /\ cursor'.tx \in Int
    BY <1>0, <1>2, WalFacts
  <2>2. NoLsn \in {NoLsn} \cup Lsn /\ UNCHANGED destVars
    BY DEF handle_begin_message
  <2>. HIDE DEF events
  <2>. QED
    BY <1>1, <1>3, <1>4, <1>5, <2>1, <2>2, PushInv DEF events
<1>7. Frontier'
  <2>1. last_received_lsn' <= CommitLsn[t]
    BY <1>0, WalFacts DEF handle_begin_message, ChangeLsn, Max2, IInv, TypeOK,
         Frontier, Running, CanReceive, Lsn
  <2>2. CoveredUpTo(last_flush_lsn)'
    BY <1>1 DEF handle_begin_message, IInv, Frontier, CoveredUpTo
  <2>. QED
    BY <1>2, <1>5, <2>1, <2>2 DEF Frontier
<1>8. Claims'
  BY ClaimsUnchanged DEF handle_begin_message, IInv
<1>. QED
  BY <1>6, <1>7, <1>8 DEF IInv

\* The same for a row message.
LEMMA RowInv == IInv /\ TypeOK' /\ handle_row_message => IInv'
<1>. SUFFICES ASSUME IInv, TypeOK', handle_row_message PROVE IInv'
  OBVIOUS
<1>. USE DEF envVars, loopVars, destVars
<1>0. PICK t \in Tx, k \in 1 .. Rows : t = cursor.tx /\ k = cursor.k
  BY DEF handle_row_message
<1>1. /\ Running /\ handling_transaction
      /\ cursor \in [tx : 1 .. NumTx + 1, k : 0 .. CommitK]
  BY <1>0 DEF handle_row_message, CanReceive, Running, IInv, Frontier, TypeOK
<1>2. cursor'.tx = t /\ cursor'.k = k + 1
  BY <1>0, <1>1 DEF handle_row_message
<1>. DEFINE events == {<<cursor.tx, cursor.k>>} \cap Owned
<1>3. ASSUME NEW s \in Tx, NEW e \in Events(s),
             s < cursor'.tx \/ (s = cursor'.tx /\ e[2] < cursor'.k)
      PROVE  s < cursor.tx \/ (s = cursor.tx /\ e[2] < cursor.k) \/ e \in events
  BY <1>0, <1>2, <1>3, EventKinds, WalFacts
<1>4. PushAndMaybeFlush(events, NoLsn, exit_intent, FALSE)
  BY DEF handle_row_message
<1>5. handling_transaction' /\ Received(NoLsn, cursor')
  BY <1>1, WalFacts DEF handle_row_message, handling_transaction, Received, Lsn
<1>6. LoopWork' /\ pc' \in {"top", "write"}
  <2>1. cursor.tx <= cursor'.tx /\ cursor'.tx \in Int
    BY <1>0, <1>2, WalFacts
  <2>2. NoLsn \in {NoLsn} \cup Lsn /\ UNCHANGED destVars
    BY DEF handle_row_message
  <2>. HIDE DEF events
  <2>. QED
    BY <1>1, <1>3, <1>4, <1>5, <2>1, <2>2, PushInv
<1>7. Frontier'
  <2>1. last_received_lsn' <= CommitLsn[t]
    BY <1>0, WalFacts DEF handle_row_message, ChangeLsn, Max2, IInv, TypeOK,
         Frontier, Running, CanReceive, Lsn
  <2>2. CoveredUpTo(last_flush_lsn)'
    BY <1>1 DEF handle_row_message, IInv, Frontier, CoveredUpTo
  <2>. QED
    BY <1>2, <1>5, <2>1, <2>2, WalFacts DEF Frontier
<1>8. Claims'
  BY ClaimsUnchanged DEF handle_row_message, IInv
<1>. QED
  BY <1>6, <1>7, <1>8 DEF IInv

\* The same for COMMIT, which carries its end position with the batch.
LEMMA CommitInv == IInv /\ TypeOK' /\ handle_commit_message => IInv'
<1>. SUFFICES ASSUME IInv, TypeOK', handle_commit_message PROVE IInv'
  OBVIOUS
<1>. USE DEF envVars, loopVars, destVars
<1>0. PICK t \in Tx : t = cursor.tx
  BY DEF handle_commit_message
<1>1. /\ Running /\ cursor.k = Rows + 1
      /\ cursor \in [tx : 1 .. NumTx + 1, k : 0 .. CommitK]
  BY DEF handle_commit_message, CanReceive, Running, IInv, TypeOK, CommitK
<1>2. cursor'.tx = t + 1 /\ cursor'.k = 0
  BY <1>0 DEF handle_commit_message
<1>. DEFINE events == {<<cursor.tx, CommitK>>}
<1>3. ASSUME NEW s \in Tx, NEW e \in Events(s),
             s < cursor'.tx \/ (s = cursor'.tx /\ e[2] < cursor'.k)
      PROVE  s < cursor.tx \/ (s = cursor.tx /\ e[2] < cursor.k) \/ e \in events
  <2>1. e[2] \in Nat /\ e[2] <= Rows + 1
    BY EventKinds, WalFacts
  <2>2. s < t \/ s = t
    BY <1>2, <1>3, <2>1, WalFacts
  <2>3. e[2] = Rows + 1 => e = <<s, CommitK>>
    BY EventKinds, WalFacts
  <2>. QED
    BY <1>0, <1>1, <2>1, <2>2, <2>3, WalFacts
<1>4. PICK intent \in CommitHookIntents(EndLsn[cursor.tx]) :
        PushAndMaybeFlush(events, EndLsn[cursor.tx], exit_intent',
                          intent # "None")
  BY DEF handle_commit_message
<1>5. EndLsn[t] \in Lsn /\ EndLsn[t] # NoLsn
  BY WalFacts DEF Lsn
<1>6. Received(EndLsn[t], cursor')
  BY <1>2, WalFacts DEF Received, Lsn
<1>7. LoopWork' /\ pc' \in {"top", "write"}
  <2>1. cursor.tx <= cursor'.tx /\ cursor'.tx \in Int
    BY <1>0, <1>2, WalFacts
  <2>2. UNCHANGED destVars
    BY DEF handle_commit_message
  <2>. HIDE DEF events
  <2>. QED
    BY <1>0, <1>1, <1>3, <1>4, <1>5, <1>6, <2>1, <2>2, PushInv
<1>8. Frontier'
  <2>1. last_received_lsn' <= EndLsn[t]
    BY <1>0, <1>1, WalFacts DEF handle_commit_message, Max2, IInv, TypeOK,
         Frontier, Lsn
  <2>2. CoveredUpTo(last_flush_lsn)'
    BY <1>1 DEF handle_commit_message, IInv, Frontier, CoveredUpTo
  <2>3. ~handling_transaction'
    BY DEF handle_commit_message, handling_transaction
  <2>4. cursor'.tx \in Tx => EndLsn[t] <= CommitLsn[cursor'.tx]
    BY <1>2, WalFacts
  <2>5. cursor'.tx \in Tx => last_received_lsn' <= CommitLsn[cursor'.tx]
    BY <2>1, <2>4, <1>5, WalFacts DEF TypeOK, Lsn
  <2>. QED
    BY <1>2, <2>2, <2>3, <2>5 DEF Frontier
<1>9. Claims'
  BY ClaimsUnchanged DEF handle_commit_message, IInv
<1>. QED
  BY <1>7, <1>8, <1>9 DEF IInv

\* The same for a keepalive, which may advance the received position to the
\* next commit record and report it at once.
LEMMA KeepAliveInv == IInv /\ TypeOK' /\ handle_keepalive => IInv'
<1>. SUFFICES ASSUME IInv, TypeOK', handle_keepalive PROVE IInv'
  OBVIOUS
<1>. USE DEF envVars, loopVars, destVars
<1>1. /\ Running /\ cursor' = cursor /\ remote_final_lsn' = remote_final_lsn
      /\ UNCHANGED destVars /\ last_flush_lsn' = last_flush_lsn
  BY DEF handle_keepalive, CanReceive, Running
<1>2. PICK lsn \in KeepAliveLsn :
        /\ last_received_lsn' = Max2(last_received_lsn, lsn)
        /\ send_status_update(IF is_quiescent
                              THEN Max2(last_received_lsn, lsn)
                              ELSE last_flush_lsn)
  BY DEF handle_keepalive
<1>3. /\ lsn \in Int /\ (cursor.tx \in Tx => lsn <= CommitLsn[cursor.tx])
      /\ last_received_lsn \in Int /\ last_flush_lsn \in Int
      /\ (cursor.tx \in Tx => last_received_lsn <= CommitLsn[cursor.tx])
  BY <1>1, WalFacts DEF KeepAliveLsn, IInv, TypeOK, Frontier, Lsn
<1>. DEFINE frontier == Max2(last_received_lsn, lsn)
<1>4. frontier \in Int /\ (cursor.tx \in Tx => frontier <= CommitLsn[cursor.tx])
  BY <1>3, WalFacts DEF Max2, Lsn
<1>. HIDE DEF frontier
<1>5. Claims'
  <2>1. CASE is_quiescent
    <3>1. /\ ~handling_transaction /\ event_batch = {}
          /\ last_commit_end_lsn = NoLsn /\ pending_flush_result.status = "none"
      BY <2>1 DEF is_quiescent, has_unresolved_batch_work, has_pending_batch,
           has_pending_flush_result
    <3>2. CoveredUpTo(frontier)
      BY <1>1, <1>4, <3>1, QuiescentCovers
    <3>3. send_status_update(frontier)
      BY <1>2, <2>1 DEF frontier
    <3>. QED
      BY <1>4, <3>2, <3>3, ReportKeepsClaims DEF handle_keepalive, IInv
  <2>2. CASE ~is_quiescent
    BY <1>1, <1>2, <1>3, <2>2, ReportKeepsClaims
       DEF handle_keepalive, IInv, Frontier
  <2>. QED
    BY <2>1, <2>2
<1>6. Frontier'
  BY <1>1, <1>2, <1>4 DEF Frontier, IInv, CoveredUpTo, handling_transaction,
     frontier
<1>7. LoopWork' /\ pc' \in {"top", "write"}
  <2>1. PushAndMaybeFlush({}, NoLsn, exit_intent, FALSE)
    BY DEF handle_keepalive
  <2>2. /\ cursor.tx <= cursor'.tx /\ cursor'.tx \in Int
        /\ NoLsn \in {NoLsn} \cup Lsn
    BY <1>1 DEF IInv, TypeOK
  <2>3. \A t \in Tx : \A e \in Events(t) :
           t < cursor'.tx \/ (t = cursor'.tx /\ e[2] < cursor'.k) =>
              t < cursor.tx \/ (t = cursor.tx /\ e[2] < cursor.k)
    BY <1>1
  <2>4. Received(NoLsn, cursor')
    BY WalFacts DEF Received, Lsn
  <2>5. ~handling_transaction' => ~handling_transaction
    BY <1>1 DEF handling_transaction
  <2>. QED
    BY <1>1, <2>1, <2>2, <2>3, <2>4, <2>5, PushInv
<1>. QED
  BY <1>5, <1>6, <1>7 DEF IInv

\* An accepted answer puts its commit position back on the loop.
LEMMA FlushAcceptedInv == IInv /\ TypeOK' /\ FlushAccepted => IInv'
<1>. SUFFICES ASSUME IInv, TypeOK', FlushAccepted PROVE IInv'
  OBVIOUS
<1>. USE DEF envVars, loopVars, destVars
<1>. DEFINE carried == Max2(last_commit_end_lsn,
                            pending_flush_result.commit_end_lsn)
<1>1. /\ Running /\ UNCHANGED <<cursor, remote_final_lsn, accepted, durable>>
      /\ pending_flush_result.status = "accepted"
      /\ ResumeWith(carried, exit_intent, IntervalAfterAccept)
  BY DEF FlushAccepted, Running
<1>2. /\ last_commit_end_lsn \in {NoLsn} \cup Lsn
      /\ pending_flush_result.commit_end_lsn \in {NoLsn} \cup Lsn
  BY DEF IInv, TypeOK, Flush
<1>3. /\ carried \in {last_commit_end_lsn, pending_flush_result.commit_end_lsn}
      /\ \/ last_commit_end_lsn # NoLsn
         \/ pending_flush_result.commit_end_lsn # NoLsn
         => carried # NoLsn
  BY <1>2, WalFacts DEF Max2, Lsn
<1>. HIDE DEF carried
<1>4. pending_flush_result.events \subseteq accepted
  BY <1>1 DEF IInv, LoopWork, Work, Answered
<1>5. Work(event_batch, carried, NoFlush, cursor', handling_transaction)
  <2>1. Held(event_batch, NoFlush, cursor')
    BY <1>1, <1>4 DEF IInv, LoopWork, Work, Held
  <2>2. Received(carried, cursor') /\ Received(NoFlush.commit_end_lsn, cursor')
    BY <1>1, <1>3, WalFacts DEF IInv, LoopWork, Work, Received, NoFlush, Lsn
  <2>3. PendingCovers(NoFlush) /\ Answered(NoFlush)
    BY WalFacts DEF PendingCovers, Answered, NoFlush, Lsn
  <2>4. Tail(event_batch, carried, NoFlush, handling_transaction)
    BY <1>1, <1>3 DEF IInv, LoopWork, Work, Tail, NoFlush
  <2>. QED
    BY <2>1, <2>2, <2>3, <2>4 DEF Work
<1>6. Shape(event_batch, carried, NoFlush) /\ pc' \in {"top", "write"}
  BY <1>1, ResumeShape
<1>7. handling_transaction' <=> handling_transaction
  BY <1>1 DEF handling_transaction
<1>8. LoopWork'
  BY <1>1, <1>5, <1>6, <1>7, ShapePreserves
<1>9. Claims' /\ Frontier'
  BY <1>1, ClaimsUnchanged, FrontierUnchanged DEF FlushAccepted, IInv
<1>. QED
  BY <1>6, <1>8, <1>9 DEF IInv

\* A durable answer moves the flush position, the persisted checkpoint and
\* possibly SyncDone to covered positions.
LEMMA FlushDurableInv == IInv /\ TypeOK' /\ FlushDurable => IInv'
<1>. SUFFICES ASSUME IInv, TypeOK', FlushDurable PROVE IInv'
  OBVIOUS
<1>. USE DEF envVars, loopVars, destVars
<1>. DEFINE commit_end == pending_flush_result.commit_end_lsn
<1>1. /\ Running /\ UNCHANGED <<cursor, remote_final_lsn, accepted, durable>>
      /\ UNCHANGED <<last_received_lsn, reported, confirmed>>
      /\ pending_flush_result.status = "durable"
      /\ ResumeWith(last_commit_end_lsn, exit_intent', FALSE)
  BY DEF FlushDurable, Running
<1>2. /\ commit_end \in {NoLsn} \cup Lsn /\ last_flush_lsn \in Lsn
      /\ last_received_lsn \in Int /\ syncDone \in {NoLsn} \cup Lsn
      /\ checkpoint \in {NoLsn} \cup Lsn
  BY WalFacts DEF IInv, TypeOK, Flush, Lsn
<1>3. CoveredUpTo(commit_end)
  BY <1>1, DurableCovers
<1>4. /\ last_flush_lsn' \in {last_flush_lsn, commit_end}
      /\ checkpoint' \in {checkpoint, commit_end}
  BY <1>2 DEF FlushDurable, Max2
<1>5. CoveredUpTo(syncDone')
  <2>. DEFINE quiescent == /\ ~handling_transaction /\ event_batch = {}
                           /\ last_commit_end_lsn = NoLsn
  <2>1. \/ syncDone' \in {syncDone, commit_end, NoLsn}
        \/ quiescent /\ syncDone' = last_received_lsn
    BY DEF FlushDurable, Max2
  <2>2. CASE syncDone' \in {syncDone, commit_end, NoLsn}
    BY <1>3, <2>2, WalFacts DEF IInv, Claims, CoveredUpTo, Lsn
  <2>3. CASE quiescent /\ syncDone' = last_received_lsn
    <3>1. cursor.tx \in Tx => last_received_lsn <= CommitLsn[cursor.tx]
      BY <1>1 DEF IInv, Frontier
    <3>2. CoveredUpTo(last_received_lsn)
      BY <1>1, <1>2, <2>3, <3>1, QuiescentCovers
    <3>. QED
      BY <2>3, <3>2
  <2>. QED
    BY <2>1, <2>2, <2>3
<1>6. Claims'
  BY <1>1, <1>3, <1>4, <1>5 DEF IInv, Claims, CoveredUpTo
<1>7. Frontier'
  BY <1>1, <1>3, <1>4 DEF IInv, Frontier, CoveredUpTo, handling_transaction
<1>8. Work(event_batch, last_commit_end_lsn, NoFlush, cursor',
           handling_transaction)
  <2>1. accepted = {} /\ pending_flush_result.events \subseteq durable
    BY <1>1 DEF IInv, LoopWork, Work, Answered
  <2>2. Held(event_batch, NoFlush, cursor')
    BY <1>1, <2>1 DEF IInv, LoopWork, Work, Held
  <2>3. /\ Received(last_commit_end_lsn, cursor')
        /\ Received(NoFlush.commit_end_lsn, cursor')
    BY <1>1, WalFacts DEF IInv, LoopWork, Work, Received, NoFlush, Lsn
  <2>4. PendingCovers(NoFlush) /\ Answered(NoFlush)
    BY WalFacts DEF PendingCovers, Answered, NoFlush, Lsn
  <2>5. Tail(event_batch, last_commit_end_lsn, NoFlush, handling_transaction)
    BY <1>1, <2>1 DEF IInv, LoopWork, Work, Tail, NoFlush
  <2>. QED
    BY <2>2, <2>3, <2>4, <2>5 DEF Work
<1>9. Shape(event_batch, last_commit_end_lsn, NoFlush) /\ pc' \in {"top", "write"}
  BY <1>1, ResumeShape
<1>10. handling_transaction' <=> handling_transaction
  BY <1>1 DEF handling_transaction
<1>11. LoopWork'
  BY <1>1, <1>8, <1>9, <1>10, ShapePreserves
<1>. QED
  BY <1>6, <1>7, <1>9, <1>11 DEF IInv

\* The destination's answer settles where the events of the write are.
LEMMA ResolvesInv ==
    ASSUME IInv, TypeOK', NEW status \in {"accepted", "durable", "failed"},
           DestinationResolves(status)
    PROVE  IInv'
<1>. USE DEF envVars, loopVars, destVars
<1>1. /\ Running /\ pc' = pc
      /\ UNCHANGED <<cursor, remote_final_lsn, last_received_lsn, last_flush_lsn,
                     event_batch, last_commit_end_lsn, confirmed, checkpoint,
                     reported, syncDone>>
  BY DEF DestinationResolves, Running
<1>2. /\ pending_flush_result'.status = status
      /\ pending_flush_result'.events = pending_flush_result.events
      /\ pending_flush_result'.commit_end_lsn
           = pending_flush_result.commit_end_lsn
  BY DEF DestinationResolves, IInv, TypeOK, Flush
<1>3. /\ durable \subseteq durable'
      /\ durable' \cup accepted' \cup pending_flush_result.events
           = durable \cup accepted \cup pending_flush_result.events
      /\ accepted' \subseteq accepted \cup pending_flush_result.events
      /\ status = "accepted" => pending_flush_result.events \subseteq accepted'
      /\ status = "durable" =>
            accepted' = {} /\ pending_flush_result.events \subseteq durable'
  BY DEF DestinationResolves
<1>4. Claims' /\ Frontier'
  BY <1>1, <1>3, ClaimsUnchanged, FrontierUnchanged DEF IInv
<1>5. Held(event_batch, pending_flush_result, cursor)'
  BY <1>1, <1>2, <1>3 DEF IInv, LoopWork, Work, Held
<1>6. /\ Received(last_commit_end_lsn, cursor)'
      /\ Received(pending_flush_result.commit_end_lsn, cursor)'
  BY <1>1, <1>2 DEF IInv, LoopWork, Work, Received
<1>7. PendingCovers(pending_flush_result)'
  BY <1>1, <1>2, <1>3 DEF IInv, LoopWork, Work, PendingCovers
<1>8. Answered(pending_flush_result)'
  BY <1>2, <1>3 DEF Answered
<1>9. Tail(event_batch, last_commit_end_lsn, pending_flush_result,
           handling_transaction)'
  BY <1>1, <1>2, <1>3 DEF IInv, LoopWork, Work, Tail, handling_transaction
<1>. QED
  BY <1>4, <1>5, <1>6, <1>7, <1>8, <1>9 DEF IInv, LoopWork, Work

\* A restarted apply worker streams from a position that is covered.
LEMMA RestartInv == IInv /\ TypeOK' /\ Restart => IInv'
<1>. SUFFICES ASSUME IInv, TypeOK', Restart PROVE IInv'
  OBVIOUS
<1>. DEFINE start_lsn == Max2(checkpoint, confirmed)
<1>1. start_lsn \in Lsn /\ start_lsn \in {checkpoint, confirmed}
  BY WalFacts DEF IInv, TypeOK, Max2, Lsn
<1>2. PICK c \in 1 .. NumTx + 1 : /\ StartsAt(c, start_lsn)
                                  /\ cursor' = [tx |-> c, k |-> BeginK]
  BY DEF Restart, FreshLoop
<1>3. /\ last_commit_end_lsn' = NoLsn /\ remote_final_lsn' = NoLsn
      /\ last_received_lsn' = start_lsn /\ last_flush_lsn' = start_lsn
      /\ event_batch' = {} /\ pending_flush_result' = NoFlush
      /\ reported' = 0 /\ accepted' = {}
      /\ UNCHANGED <<syncDone, confirmed, checkpoint, durable>>
  BY DEF Restart, FreshLoop
<1>. HIDE DEF start_lsn
<1>4. CoveredUpTo(start_lsn)
  BY <1>1 DEF IInv, Claims, CoveredUpTo
<1>5. Claims'
  BY <1>3, WalFacts DEF IInv, Claims, CoveredUpTo, Lsn
<1>6. Frontier'
  BY <1>2, <1>3, <1>4 DEF Frontier, handling_transaction, StartsAt, CoveredUpTo
<1>7. Held(event_batch, pending_flush_result, cursor)'
  <2>1. ASSUME NEW t \in Tx, NEW e \in Events(t),
               t < c \/ (t = c /\ e[2] < 0)
        PROVE  e \in durable
    <3>1. ~(e[2] < 0)
      BY EventKinds, WalFacts
    <3>2. CommitLsn[t] < start_lsn
      BY <1>2, <2>1, <3>1 DEF StartsAt
    <3>. QED
      BY <1>4, <3>2 DEF CoveredUpTo
  <2>. QED
    BY <1>2, <1>3, <2>1 DEF Held
<1>8. LoopWork'
  BY <1>3, <1>7, WalFacts DEF LoopWork, Work, Received, PendingCovers, Answered,
     Tail, NoFlush, Lsn
<1>. QED
  BY <1>5, <1>6, <1>8 DEF IInv

\* Every step preserves the invariant.
LEMMA NextInv == IInv /\ [Next]_vars => IInv'
<1>. SUFFICES ASSUME IInv, [Next]_vars PROVE IInv'
  OBVIOUS
<1>. USE DEF envVars, loopVars, destVars
<1>t. TypeOK'
  BY NextType DEF IInv
<1>i. CoveredUpTo(last_received_lsn) \/ ~Running \/ ~is_quiescent
  <2>1. ASSUME Running, is_quiescent PROVE CoveredUpTo(last_received_lsn)
    BY <2>1, ReportCovers DEF checkpoint_lsn
  <2>. QED
    BY <2>1
<1>c. checkpoint_lsn \in Int
  BY WalFacts DEF checkpoint_lsn, IInv, TypeOK, Lsn
<1>0. CASE UNCHANGED vars
  BY <1>0, <1>t, WorkUnchanged, FrontierUnchanged, ClaimsUnchanged
     DEF vars, IInv, Running
<1>1. CASE QuiescentBarrier
  <2>1. /\ Running /\ event_batch = {} /\ pending_flush_result.status = "none"
        /\ dispatch_write_events({}, last_commit_end_lsn, "Complete")
        /\ UNCHANGED <<event_batch, cursor, remote_final_lsn, destVars>>
    BY <1>1 DEF QuiescentBarrier, Running, has_unresolved_batch_work,
         has_pending_batch, has_pending_flush_result
  <2>2. Shape(event_batch, last_commit_end_lsn, pending_flush_result)
    BY <2>1 DEF dispatch_write_events, Shape
  <2>3. LoopWork'
    <3>1. Work(event_batch, last_commit_end_lsn, pending_flush_result, cursor',
               handling_transaction)
      BY <2>1 DEF IInv, LoopWork
    <3>2. handling_transaction' <=> handling_transaction
      BY <2>1 DEF handling_transaction
    <3>. QED
      BY <2>1, <2>2, <3>1, <3>2, ShapePreserves
  <2>4. Claims' /\ Frontier'
    BY <1>1, <2>1, ClaimsUnchanged, FrontierUnchanged DEF QuiescentBarrier, IInv
  <2>. QED
    BY <1>t, <2>3, <2>4 DEF IInv
<1>2. CASE TopOfIteration
  <2>1. Running /\ Frontier' /\ LoopWork'
    BY <1>2, WorkUnchanged, FrontierUnchanged DEF TopOfIteration, IInv, Running
  <2>2. syncDone' = syncDone \/ (is_quiescent /\ syncDone' = last_received_lsn)
    BY <1>2 DEF TopOfIteration, process_syncing_tables_when_quiescent,
         QuiescentHook, TryCompleteCatchup
  <2>3. Claims'
    BY <1>2, <1>i, <2>1, <2>2 DEF TopOfIteration, IInv, Claims, CoveredUpTo
  <2>. QED
    BY <1>t, <2>1, <2>3 DEF IInv
<1>3. CASE DrainTop
  <2>1. Running /\ Frontier' /\ LoopWork'
    BY <1>3, WorkUnchanged, FrontierUnchanged DEF DrainTop, IInv, Running
  <2>2. Claims'
    BY <1>3, <1>c, <2>1, ReportCovers, ReportKeepsClaims, ClaimsUnchanged
       DEF DrainTop, IInv
  <2>. QED
    BY <1>t, <2>1, <2>2 DEF IInv
<1>4. CASE handle_shutdown_signal
  <2>1. Running /\ Frontier' /\ LoopWork'
    BY <1>4, WorkUnchanged, FrontierUnchanged
       DEF handle_shutdown_signal, IInv, Running
  <2>2. Claims'
    BY <1>4, <1>c, <2>1, ReportCovers, ReportKeepsClaims, ClaimsUnchanged
       DEF handle_shutdown_signal, IInv
  <2>. QED
    BY <1>t, <2>1, <2>2 DEF IInv
<1>5. CASE FlushFailed
  <2>1. durable \subseteq durable' /\ UNCHANGED syncDone
    BY <1>5 DEF FlushFailed, LoopDies
  <2>2. CoveredUpTo(syncDone)'
    BY <2>1 DEF IInv, Claims, CoveredUpTo
  <2>. QED
    BY <1>5, <1>t, <2>2, LoopDiesInv DEF FlushFailed
<1>6. CASE FlushAccepted
  BY <1>6, <1>t, FlushAcceptedInv
<1>7. CASE FlushDurable
  BY <1>7, <1>t, FlushDurableInv
<1>8. CASE FlushDurablePersistFails
  <2>1. /\ Running /\ durable \subseteq durable'
        /\ pending_flush_result.status = "durable"
        /\ syncDone' \in {syncDone, pending_flush_result.commit_end_lsn}
    BY <1>8 DEF FlushDurablePersistFails, LoopDies, Running
  <2>2. CoveredUpTo(syncDone)'
    BY <2>1, DurableCovers DEF IInv, Claims, CoveredUpTo
  <2>. QED
    BY <1>8, <1>t, <2>2, LoopDiesInv DEF FlushDurablePersistFails
<1>9. CASE Running /\ FlushNow
  <2>1. /\ Shape(event_batch, last_commit_end_lsn, pending_flush_result)
        /\ pc' \in {"top", "write"}
    BY <1>9, FlushShape DEF FlushNow
  <2>2. /\ Work(event_batch, last_commit_end_lsn, pending_flush_result, cursor',
                handling_transaction)
        /\ (handling_transaction' <=> handling_transaction)
        /\ UNCHANGED destVars
    BY <1>9 DEF FlushNow, IInv, LoopWork, handling_transaction
  <2>3. LoopWork'
    BY <2>1, <2>2, ShapePreserves
  <2>4. Claims' /\ Frontier'
    BY <1>9, ClaimsUnchanged, FrontierUnchanged DEF FlushNow, IInv
  <2>. QED
    BY <1>t, <2>3, <2>4 DEF IInv
<1>10. CASE PeriodicKeepAlive
  <2>1. Running /\ Frontier' /\ LoopWork'
    BY <1>10, WorkUnchanged, FrontierUnchanged DEF PeriodicKeepAlive, IInv, Running
  <2>2. Claims'
    BY <1>10, <1>c, <2>1, ReportCovers, ReportKeepsClaims
       DEF PeriodicKeepAlive, IInv
  <2>. QED
    BY <1>t, <2>1, <2>2 DEF IInv
<1>11. CASE handle_begin_message
  BY <1>11, <1>t, BeginInv
<1>12. CASE handle_row_message
  BY <1>12, <1>t, RowInv
<1>13. CASE handle_commit_message
  BY <1>13, <1>t, CommitInv
<1>14. CASE handle_keepalive
  BY <1>14, <1>t, KeepAliveInv
<1>15. CASE WriteEventsReturns
  BY <1>15, <1>t, WorkUnchanged, FrontierUnchanged, ClaimsUnchanged
     DEF WriteEventsReturns, IInv, Running
<1>16. ASSUME NEW status \in {"accepted", "durable", "failed"},
              DestinationResolves(status)
       PROVE  IInv'
  BY <1>16, <1>t, ResolvesInv
<1>17. CASE WalsenderConfirms
  <2>1. Claims'
    BY <1>17 DEF WalsenderConfirms, IInv, Claims, CoveredUpTo
  <2>. QED
    BY <1>17, <1>t, <2>1, WorkUnchanged, FrontierUnchanged
       DEF WalsenderConfirms, IInv, Running
<1>18. CASE RequestShutdown
  BY <1>18, <1>t, WorkUnchanged, FrontierUnchanged, ClaimsUnchanged
     DEF RequestShutdown, IInv, Running
<1>19. CASE Crash
  <2>1. durable \subseteq durable' /\ UNCHANGED syncDone
    BY <1>19 DEF Crash, LoopDies
  <2>2. CoveredUpTo(syncDone)'
    BY <2>1 DEF IInv, Claims, CoveredUpTo
  <2>. QED
    BY <1>19, <1>t, <2>2, LoopDiesInv DEF Crash
<1>20. CASE Restart
  BY <1>20, <1>t, RestartInv
<1>21. CASE Finished
  BY <1>0, <1>21 DEF Finished
<1>. QED
  BY <1>0, <1>1, <1>2, <1>3, <1>4, <1>5, <1>6, <1>7, <1>8, <1>9, <1>10, <1>11,
     <1>12, <1>13, <1>14, <1>15, <1>16, <1>17, <1>18, <1>19, <1>20, <1>21
     DEF Next, StartIteration, handle_flush_result, DeadlineExpires,
         MemoryPressure, Running

----------------------------------------------------------------------------
(* Theorems.                                                               *)

\* The durability invariant holds in every reachable state.
THEOREM Durability == Spec => []IInv
BY InitInv, NextInv, PTL DEF Spec

\* No restart position skips a transaction that is not durable at the
\* destination, whatever the destination defers, answers or loses.
THEOREM NoLossCorrect == Spec => []NoLoss
<1>1. IInv => NoLoss
  BY DEF IInv, Claims, NoLoss, CoveredUpTo, Max2
<1>. QED
  BY <1>1, Durability, PTL

\* A stored SyncDone is a gap-free boundary for the apply worker.
THEOREM SyncDoneCorrect == Spec => []SyncDoneIsGapFree
<1>1. IInv => SyncDoneIsGapFree
  BY DEF IInv, Claims, SyncDoneIsGapFree
<1>. QED
  BY <1>1, Durability, PTL

\* No path through the batch and the pending write loses a received event.
THEOREM NothingDroppedCorrect == Spec => []NothingDropped
<1>1. IInv => NothingDropped
  BY DEF IInv, LoopWork, Work, Held, NothingDropped
<1>. QED
  BY <1>1, Durability, PTL
----------------------------------------------------------------------------
(* Nothing waits without a timer, and no carried commit is stranded.       *)

\* A carried commit position has a batch behind it or, once its write was
\* accepted, an open interval; while a write is pending only a batch counts,
\* since a durable answer closes the interval.
CarryInv ==
    last_commit_end_lsn # NoLsn =>
       \/ event_batch # {}
       \/ pending_durability_interval /\ ~has_pending_flush_result

\* A pending write that carries a commit position has events, or the interval
\* is already open: accepting it leaves the interval open.
PendingInv ==
    pending_flush_result.commit_end_lsn # NoLsn =>
       pending_flush_result.events # {} \/ pending_durability_interval

\* The loop pauses only with a batch behind a pending write, and the
\* destination is called with the batch taken and the write recorded.
PauseInv ==
    /\ processing_paused => event_batch # {} /\ has_pending_flush_result
    /\ pc = "write" => event_batch = {} /\ has_pending_flush_result

SettleInv ==
    /\ Running => CarryInv /\ PendingInv /\ PauseInv
    /\ WaitingWorkIsArmed

\* flush_batch leaves nothing unarmed: it starts a write, pauses behind one,
\* or has nothing to flush.
LEMMA FlushSettles ==
    ASSUME NEW batch, NEW commit_end, NEW exit, NEW interval, NEW pend,
           flush_batch(batch, commit_end, exit, interval, pend),
           pending_durability_interval' = interval,
           commit_end # NoLsn =>
              batch # {} \/ (interval /\ pend.status = "none"),
           pend.commit_end_lsn # NoLsn => pend.events # {} \/ interval
    PROVE  SettleInv'
<1>. USE DEF SettleInv, CarryInv, PendingInv, PauseInv, WaitingWorkIsArmed,
             can_wait_for_deadline, has_pending_batch, has_pending_flush_result
<1>1. CASE /\ batch = {} /\ interval /\ pend.status = "none"
           /\ dispatch_write_events({}, commit_end, exit)
           /\ event_batch' = {} /\ processing_paused' = FALSE
  BY <1>1 DEF dispatch_write_events
<1>2. CASE /\ batch = {} /\ ~(interval /\ pend.status = "none")
           /\ event_batch' = {} /\ last_commit_end_lsn' = commit_end
           /\ pending_flush_result' = pend
           /\ processing_paused' = FALSE /\ pc' = "top"
  BY <1>2
<1>3. CASE /\ batch # {} /\ pend.status # "none" /\ processing_paused' = TRUE
           /\ event_batch' = batch /\ last_commit_end_lsn' = commit_end
           /\ pending_flush_result' = pend /\ pc' = "top"
  BY <1>3
<1>4. CASE /\ batch # {} /\ pend.status = "none"
           /\ dispatch_write_events(batch, commit_end, exit)
           /\ event_batch' = {} /\ processing_paused' = FALSE
  BY <1>4 DEF dispatch_write_events
<1>. QED
  BY <1>1, <1>2, <1>3, <1>4 DEF flush_batch

\* Buffering events arms the deadline, and only a message with events may
\* carry a commit position.
LEMMA PushSettles ==
    ASSUME TypeOK, SettleInv, CanReceive, NEW events,
           NEW commit_end \in {NoLsn} \cup Lsn, NEW exit, NEW end_batch,
           commit_end # NoLsn => events # {},
           PushAndMaybeFlush(events, commit_end, exit, end_batch),
           UNCHANGED pending_durability_interval
    PROVE  SettleInv'
<1>. DEFINE batch == event_batch \cup events
            carried == Max2(last_commit_end_lsn, commit_end)
<1>1. /\ pc = "select" /\ ~processing_paused
      /\ CarryInv /\ PendingInv /\ PauseInv /\ WaitingWorkIsArmed
  BY DEF CanReceive, can_process_messages, SettleInv, Running
<1>2. carried # NoLsn =>
         \/ batch # {}
         \/ pending_durability_interval /\ pending_flush_result.status = "none"
  BY <1>1 DEF CarryInv, Max2, has_pending_flush_result, TypeOK
<1>3. CASE flush_batch(batch, carried, exit, pending_durability_interval,
                       pending_flush_result)
  <2>1. pending_flush_result.commit_end_lsn # NoLsn =>
           pending_flush_result.events # {} \/ pending_durability_interval
    BY <1>1 DEF PendingInv
  <2>. HIDE DEF batch, carried
  <2>. QED
    BY <1>2, <1>3, <2>1, FlushSettles
<1>4. CASE keep_batch(batch, carried)
  <2>1. /\ pc' = "top" /\ event_batch' = batch /\ last_commit_end_lsn' = carried
        /\ UNCHANGED <<pending_flush_result, processing_paused>>
    BY <1>4 DEF keep_batch
  <2>2. flush_deadline' = (flush_deadline \/ events # {})
    BY DEF PushAndMaybeFlush
  <2>3. CarryInv' /\ PendingInv' /\ PauseInv'
    <3>. HIDE DEF carried
    <3>. QED
      BY <1>1, <1>2, <2>1 DEF CarryInv, PendingInv, PauseInv,
         has_pending_flush_result
  <2>4. WaitingWorkIsArmed'
    BY <1>1, <2>1, <2>2 DEF WaitingWorkIsArmed, can_wait_for_deadline,
       has_pending_batch, has_pending_flush_result
  <2>. QED
    BY <2>3, <2>4 DEF SettleInv
<1>. QED
  BY <1>3, <1>4 DEF PushAndMaybeFlush

\* Steps that touch none of the parts involved, and leave the loop before its
\* next select!, preserve the invariant.
LEMMA SettleUnchanged ==
    ASSUME SettleInv, Running,
           UNCHANGED <<last_commit_end_lsn, pending_durability_interval,
                       event_batch, flush_deadline, processing_paused>>,
           pending_flush_result'.events = pending_flush_result.events,
           pending_flush_result'.commit_end_lsn =
              pending_flush_result.commit_end_lsn,
           has_pending_flush_result' <=> has_pending_flush_result,
           pc' = pc \/ (pc # "write" /\ pc' # "write")
    PROVE  SettleInv'
<1>1. CarryInv /\ PendingInv /\ PauseInv /\ WaitingWorkIsArmed
  BY DEF SettleInv
<1>2. CarryInv' /\ PendingInv'
  BY <1>1 DEF CarryInv, PendingInv
<1>3. PauseInv'
  BY <1>1 DEF PauseInv
<1>4. WaitingWorkIsArmed'
  BY <1>1 DEF WaitingWorkIsArmed, can_wait_for_deadline, has_pending_batch,
     Running
<1>. QED
  BY <1>2, <1>3, <1>4 DEF SettleInv

\* A loop that is not running has nothing to settle.
LEMMA SettleStopped ==
    ASSUME pc' \in {"down", "Paused", "Completed"}
    PROVE  SettleInv'
BY DEF SettleInv, Running, WaitingWorkIsArmed

\* Neither has a fresh one.
LEMMA SettleFresh ==
    ASSUME pending_durability_interval' = FALSE, last_commit_end_lsn' = NoLsn,
           event_batch' = {}, pending_flush_result' = NoFlush,
           processing_paused' = FALSE, pc' = "top"
    PROVE  SettleInv'
BY DEF SettleInv, CarryInv, PendingInv, PauseInv, WaitingWorkIsArmed, NoFlush,
   can_wait_for_deadline, has_pending_batch, has_pending_flush_result

\* An accepted write opens the interval before its commit is carried on, and
\* arms the deadline.
LEMMA AcceptedSettled == TypeOK /\ SettleInv /\ FlushAccepted => SettleInv'
<1>. SUFFICES ASSUME TypeOK, SettleInv, FlushAccepted PROVE SettleInv'
  OBVIOUS
<1>. DEFINE carried == Max2(last_commit_end_lsn,
                            pending_flush_result.commit_end_lsn)
<1>1. /\ pc = "select" /\ has_pending_flush_result
      /\ pending_durability_interval' = IntervalAfterAccept
      /\ ResumeWith(carried, exit_intent, IntervalAfterAccept)
      /\ flush_deadline' = TRUE
  BY DEF FlushAccepted, has_pending_flush_result
<1>2. CarryInv /\ PendingInv /\ PauseInv
  BY <1>1 DEF SettleInv, Running
<1>3. carried # NoLsn => event_batch # {} \/ IntervalAfterAccept
  BY <1>1, <1>2 DEF CarryInv, PendingInv, IntervalAfterAccept, Max2, TypeOK, Flush
<1>. HIDE DEF carried
<1>4. NoFlush.status = "none" /\ NoFlush.commit_end_lsn = NoLsn
  BY DEF NoFlush
<1>5. CASE processing_paused
  <2>1. flush_batch(event_batch, carried, exit_intent, IntervalAfterAccept,
                    NoFlush)
    BY <1>1, <1>5 DEF ResumeWith
  <2>. QED
    BY <1>1, <1>3, <1>4, <2>1, FlushSettles
<1>6. CASE ~processing_paused
  <2>1. /\ event_batch' = event_batch /\ last_commit_end_lsn' = carried
        /\ pending_flush_result' = NoFlush /\ processing_paused' = FALSE
        /\ pc' = "top"
    BY <1>1, <1>6 DEF ResumeWith
  <2>. QED
    BY <1>1, <1>3, <1>4, <2>1 DEF SettleInv, CarryInv, PendingInv, PauseInv,
       WaitingWorkIsArmed, has_pending_flush_result
<1>. QED
  BY <1>5, <1>6

\* A durable answer closes the interval: what is carried past it is a batch.
LEMMA DurableSettled == TypeOK /\ SettleInv /\ FlushDurable => SettleInv'
<1>. SUFFICES ASSUME TypeOK, SettleInv, FlushDurable PROVE SettleInv'
  OBVIOUS
<1>1. /\ pc = "select" /\ has_pending_flush_result
      /\ pending_durability_interval' = FALSE
      /\ ResumeWith(last_commit_end_lsn, exit_intent', FALSE)
      /\ UNCHANGED flush_deadline
  BY DEF FlushDurable, has_pending_flush_result
<1>2. CarryInv /\ PauseInv /\ WaitingWorkIsArmed
  BY <1>1 DEF SettleInv, Running
<1>3. last_commit_end_lsn # NoLsn => event_batch # {}
  BY <1>1, <1>2 DEF CarryInv
<1>4. NoFlush.status = "none" /\ NoFlush.commit_end_lsn = NoLsn
  BY DEF NoFlush
<1>5. CASE processing_paused
  <2>1. flush_batch(event_batch, last_commit_end_lsn, exit_intent', FALSE,
                    NoFlush)
    BY <1>1, <1>5 DEF ResumeWith
  <2>. QED
    BY <1>1, <1>3, <1>4, <2>1, FlushSettles
<1>6. CASE ~processing_paused
  <2>1. /\ event_batch' = event_batch
        /\ last_commit_end_lsn' = last_commit_end_lsn
        /\ pending_flush_result' = NoFlush /\ processing_paused' = FALSE
        /\ pc' = "top"
    BY <1>1, <1>6 DEF ResumeWith
  <2>2. CarryInv' /\ PendingInv' /\ PauseInv'
    BY <1>1, <1>3, <1>4, <2>1 DEF CarryInv, PendingInv, PauseInv
  <2>3. WaitingWorkIsArmed'
    BY <1>1, <1>2, <1>6, <2>1 DEF WaitingWorkIsArmed, can_wait_for_deadline,
       has_pending_batch
  <2>. QED
    BY <2>2, <2>3 DEF SettleInv
<1>. QED
  BY <1>5, <1>6

\* Every step preserves the settling invariant.
LEMMA NextSettles == TypeOK /\ SettleInv /\ [Next]_vars => SettleInv'
<1>. SUFFICES ASSUME TypeOK, SettleInv, [Next]_vars PROVE SettleInv'
  OBVIOUS
<1>. USE DEF envVars, loopVars
<1>0. CASE UNCHANGED vars
  <2>1. CASE Running
    BY <1>0, <2>1, SettleUnchanged DEF vars, has_pending_flush_result
  <2>2. CASE ~Running
    BY <1>0, <2>2, SettleStopped DEF vars, Running, TypeOK, Pc
  <2>. QED
    BY <2>1, <2>2
<1>1. CASE QuiescentBarrier
  <2>1. /\ pc = "top" /\ event_batch = {} /\ ~has_pending_flush_result
        /\ last_commit_end_lsn # NoLsn
        /\ dispatch_write_events({}, last_commit_end_lsn, "Complete")
        /\ UNCHANGED <<event_batch, pending_durability_interval,
                       processing_paused>>
    BY <1>1 DEF QuiescentBarrier, has_unresolved_batch_work, has_pending_batch
  <2>2. pending_durability_interval /\ ~processing_paused
    BY <2>1 DEF SettleInv, Running, CarryInv, PauseInv
  <2>. QED
    BY <2>1, <2>2 DEF dispatch_write_events, SettleInv, CarryInv, PendingInv,
       PauseInv, WaitingWorkIsArmed, has_pending_flush_result
<1>2. CASE TopOfIteration \/ DrainTop \/ handle_shutdown_signal
  <2>1. /\ pc \in {"top", "select"}
        /\ pc' \in {"top", "select", "Completed", "Paused"}
        /\ UNCHANGED <<last_commit_end_lsn, pending_durability_interval,
                       event_batch, flush_deadline, processing_paused,
                       pending_flush_result>>
    BY <1>2 DEF TopOfIteration, DrainTop, handle_shutdown_signal
  <2>2. has_pending_flush_result' <=> has_pending_flush_result
    BY <2>1 DEF has_pending_flush_result
  <2>. QED
    BY <2>1, <2>2, SettleUnchanged DEF Running
<1>3. CASE FlushFailed \/ FlushDurablePersistFails \/ Crash
  BY <1>3, SettleStopped DEF FlushFailed, FlushDurablePersistFails, Crash,
     LoopDies
<1>4. CASE FlushAccepted
  BY <1>4, AcceptedSettled
<1>5. CASE FlushDurable
  BY <1>5, DurableSettled
<1>6. CASE pc = "select" /\ FlushNow
  <2>1. CarryInv /\ PendingInv
    BY <1>6 DEF SettleInv, Running
  <2>2. /\ flush_batch(event_batch, last_commit_end_lsn, exit_intent,
                       pending_durability_interval, pending_flush_result)
        /\ UNCHANGED pending_durability_interval
    BY <1>6 DEF FlushNow
  <2>. QED
    BY <2>1, <2>2, FlushSettles DEF CarryInv, PendingInv,
       has_pending_flush_result
<1>7. CASE PeriodicKeepAlive \/ RequestShutdown
  <2>1. /\ Running /\ UNCHANGED <<pc, loopVars>>
    BY <1>7 DEF PeriodicKeepAlive, RequestShutdown, Running
  <2>2. has_pending_flush_result' <=> has_pending_flush_result
    BY <2>1 DEF has_pending_flush_result
  <2>. QED
    BY <2>1, <2>2, SettleUnchanged
<1>8. CASE handle_begin_message
  <2>. DEFINE events == {<<cursor.tx, BeginK>>}
  <2>1. /\ CanReceive /\ UNCHANGED pending_durability_interval
        /\ PushAndMaybeFlush(events, NoLsn, exit_intent, FALSE)
    BY <1>8 DEF handle_begin_message
  <2>. HIDE DEF events
  <2>. QED
    BY <2>1, PushSettles
<1>9. CASE handle_row_message
  <2>. DEFINE events == {<<cursor.tx, cursor.k>>} \cap Owned
  <2>1. /\ CanReceive /\ UNCHANGED pending_durability_interval
        /\ PushAndMaybeFlush(events, NoLsn, exit_intent, FALSE)
    BY <1>9 DEF handle_row_message
  <2>. HIDE DEF events
  <2>. QED
    BY <2>1, PushSettles
<1>10. CASE handle_commit_message
  <2>. DEFINE events == {<<cursor.tx, CommitK>>}
              commit_end == EndLsn[cursor.tx]
  <2>1. PICK intent : PushAndMaybeFlush(events, commit_end, exit_intent',
                                        intent # "None")
    BY <1>10 DEF handle_commit_message
  <2>2. /\ CanReceive /\ UNCHANGED pending_durability_interval
        /\ commit_end \in Lsn /\ events # {}
    BY <1>10, WalFacts DEF handle_commit_message
  <2>. HIDE DEF events, commit_end
  <2>. QED
    BY <2>1, <2>2, PushSettles
<1>11. CASE handle_keepalive
  <2>1. /\ CanReceive /\ UNCHANGED pending_durability_interval
        /\ PushAndMaybeFlush({}, NoLsn, exit_intent, FALSE)
    BY <1>11 DEF handle_keepalive
  <2>. QED
    BY <2>1, PushSettles
<1>12. CASE WriteEventsReturns
  <2>1. /\ event_batch = {} /\ has_pending_flush_result
        /\ CarryInv /\ PendingInv /\ PauseInv
    BY <1>12 DEF WriteEventsReturns, SettleInv, PauseInv, Running
  <2>. QED
    BY <1>12, <2>1 DEF WriteEventsReturns, SettleInv, CarryInv, PendingInv,
       PauseInv, WaitingWorkIsArmed, can_wait_for_deadline, has_pending_batch,
       has_pending_flush_result
<1>13. ASSUME NEW status \in {"accepted", "durable", "failed"},
              DestinationResolves(status)
       PROVE  SettleInv'
  <2>1. /\ Running /\ pending_flush_result.status = "inflight"
        /\ pending_flush_result' = [pending_flush_result EXCEPT !.status = status]
        /\ UNCHANGED <<pc, last_commit_end_lsn, pending_durability_interval,
                       event_batch, flush_deadline, processing_paused>>
    BY <1>13 DEF DestinationResolves, Running
  <2>2. /\ pending_flush_result'.events = pending_flush_result.events
        /\ pending_flush_result'.commit_end_lsn =
              pending_flush_result.commit_end_lsn
        /\ pending_flush_result'.status = status
    BY <2>1 DEF TypeOK, Flush
  <2>3. has_pending_flush_result' <=> has_pending_flush_result
    BY <2>1, <2>2 DEF has_pending_flush_result
  <2>. QED
    BY <2>1, <2>2, <2>3, SettleUnchanged
<1>14. CASE WalsenderConfirms
  BY <1>0, <1>14, SettleUnchanged, SettleStopped
     DEF WalsenderConfirms, has_pending_flush_result, Running, TypeOK, Pc
<1>15. CASE Restart
  BY <1>15, SettleFresh DEF Restart, FreshLoop
<1>16. CASE Finished
  BY <1>0, <1>16 DEF Finished
<1>. QED
  BY <1>0, <1>1, <1>2, <1>3, <1>4, <1>5, <1>6, <1>7, <1>8, <1>9, <1>10, <1>11,
     <1>12, <1>13, <1>14, <1>15, <1>16
     DEF Next, StartIteration, handle_flush_result, DeadlineExpires,
         MemoryPressure

\* A fresh loop has nothing to settle.
LEMMA InitSettles == Init => SettleInv
BY DEF Init, SettleInv, CarryInv, PendingInv, PauseInv, WaitingWorkIsArmed,
   NoFlush, can_wait_for_deadline, has_pending_batch, has_pending_flush_result

\* The settling invariant holds in every reachable state.
THEOREM Settling == Spec => [](TypeOK /\ SettleInv)
BY InitType, InitSettles, NextType, NextSettles, PTL DEF Spec

\* Buffered events and an open durability interval never wait without an armed
\* deadline, whatever the order of flushes, answers, pauses and keepalives.
THEOREM WaitingWorkIsArmedCorrect == Spec => []WaitingWorkIsArmed
<1>1. SettleInv => WaitingWorkIsArmed
  BY DEF SettleInv
<1>. QED
  BY <1>1, Settling, PTL

\* A commit position carried past its write always has a batch or an open
\* interval that will settle it: status feedback is never stuck for good.
THEOREM CarriedCommitCorrect == Spec => []CarriedCommitSettles
<1>1. SettleInv => CarriedCommitSettles
  BY DEF SettleInv, CarryInv, CarriedCommitSettles, has_pending_batch
<1>. QED
  BY <1>1, Settling, PTL
=============================================================================
