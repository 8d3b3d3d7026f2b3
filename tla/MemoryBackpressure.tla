--------------------------- MODULE MemoryBackpressure ---------------------------
(***************************************************************************)
(* Memory back-pressure (crates/etl/src/runtime/memory_monitor.rs,         *)
(* concurrency/stream.rs): one task samples memory and flips a watch       *)
(* channel; the apply stream and the batch streams of the table copies     *)
(* pause on it, woken only by the wakers they registered.                  *)
(*                                                                         *)
(* A poll of a stream takes several steps, and the monitor, the source and *)
(* the other streams move in between.  Memory usage is a level: 0 is below *)
(* the resume threshold, 2 at or above the activation threshold.           *)
(***************************************************************************)
EXTENDS Naturals

CONSTANTS
    Streams,
    NumItems,           \* bound: items of a source
    MaxBatch,           \* largest target of the governor; an item counts one
    MaxFlips            \* bound: transitions of the back-pressure signal

VARIABLES
    level,          \* usage of the last snapshot
    active,         \* value of the watch channel
    flips,
    stream,         \* streams
    source          \* what each source has ready, and whether it is open

monVars == <<level, active, flips>>
vars == <<monVars, stream, source>>

(* compute_next_backpressure_active *)
NextActive(current, used) == IF current THEN used >= 1 ELSE used >= 2

(* batched: a MemoryBatchStream, else a MemoryBackpressureStream *)
NewStream(batched) ==
    [batched |-> batched, pc |-> "new", paused |-> FALSE, unseen |-> FALSE, armed |-> FALSE, woken |-> TRUE,
     sourceArmed |-> FALSE, buffer |-> 0, deadline |-> "none", read |-> 0, delivered |-> 0,
     result |-> "open"]

(* MemoryMonitor::new computes the first value from a real snapshot. *)
Init ==
    /\ level \in 0..2 /\ active = NextActive(FALSE, level) /\ flips = 0
    /\ \E batched \in SUBSET Streams : stream = [s \in Streams |-> NewStream(s \in batched)]
    /\ source = [s \in Streams |-> [ready |-> 0, state |-> "open"]]

(* A send marks the value unseen and wakes the tasks that registered. *)
Notified == [s \in Streams |->
    [stream[s] EXCEPT !.unseen = stream[s].pc # "new", !.woken = @ \/ stream[s].armed,
                      !.armed = FALSE]]

(* One tick of the refresh task.  Shutdown stops the ticks; the channel    *)
(* stays open as long as the pipeline.                                     *)
Tick(used) ==
    LET next == NextActive(active, used)
    IN  /\ level' = used
        /\ active' = next
        /\ IF next = active THEN UNCHANGED <<flips, stream>>
           ELSE flips < MaxFlips /\ flips' = flips + 1 /\ stream' = Notified
        /\ UNCHANGED source

-----------------------------------------------------------------------------
(* The sources.                                                            *)

SourceMoves(s, src) ==
    /\ source[s].state = "open"
    /\ source' = [source EXCEPT ![s] = src]
    /\ stream' = [stream EXCEPT ![s].woken = @ \/ stream[s].sourceArmed, ![s].sourceArmed = FALSE]
    /\ UNCHANGED monVars

Produce(s) ==
    /\ stream[s].read + source[s].ready < NumItems
    /\ SourceMoves(s, [source[s] EXCEPT !.ready = @ + 1])
EndSource(s) == SourceMoves(s, [source[s] EXCEPT !.state = "ended"])
FailSource(s) == SourceMoves(s, [source[s] EXCEPT !.state = "failed"])

-----------------------------------------------------------------------------
(* A poll, step by step.                                                   *)

Become(s, st) == stream' = [stream EXCEPT ![s] = st] /\ UNCHANGED <<monVars, source>>

(* The stream is built: a slot for its batch, a subscription. *)
Open(s) ==
    /\ stream[s].pc = "new"
    /\ Become(s, [stream[s] EXCEPT !.pc = "idle"])

(* The task runs because it was woken. *)
StartPoll(s) ==
    /\ stream[s].pc = "idle" /\ stream[s].woken
    /\ Become(s, [stream[s] EXCEPT !.pc = "drain", !.woken = FALSE])

(* Variant: an unseen change suffices, without a registered waker. *)
DrainWithoutWaker(s) ==
    /\ stream[s].pc = "drain"
    /\ Become(s, IF stream[s].unseen
                 THEN [stream[s] EXCEPT !.unseen = FALSE, !.paused = active, !.pc = "current"]
                 ELSE [stream[s] EXCEPT !.armed = TRUE, !.pc = "current"])

(* poll_memory_backpressure: an unseen change is taken; without one the    *)
(* task's waker is registered in the same step.                            *)
DrainUpdates(s) ==
    /\ stream[s].pc = "drain"
    /\ Become(s, IF stream[s].unseen
                 THEN [stream[s] EXCEPT !.unseen = FALSE, !.paused = active]
                 ELSE [stream[s] EXCEPT !.armed = TRUE, !.pc = "current"])

(* take_batch: the batch is handed over, and the caller polls again. *)
Flushed(st) == [st EXCEPT !.buffer = 0, !.deadline = "none", !.delivered = @ + st.buffer,
                          !.pc = "drain"]

Pausing(st) == IF st.buffer > 0 THEN Flushed(st) ELSE [st EXCEPT !.pc = "idle"]

(* The current value is read after the registration.  A paused stream      *)
(* flushes what it holds, then waits without polling its source.           *)
ReadCurrent(s) ==
    LET st == [stream[s] EXCEPT !.paused = active]
    IN  /\ stream[s].pc = "current"
        /\ Become(s, IF active THEN Pausing(st) ELSE [st EXCEPT !.pc = "source"])

Finished(st, result) == [st EXCEPT !.pc = "closed", !.result = result, !.deadline = "none"]

(* Variant: the fill timer starts with the second item. *)
TimerOfSecond(st) == IF st.buffer = 1 THEN "set" ELSE st.deadline

FillTimer(st) == IF st.buffer = 0 THEN "set" ELSE st.deadline

(* The source has an item: buffered by a batch stream, which starts the    *)
(* fill timer with the first one, and handed on by the other kind.         *)
TakeItem(s) ==
    LET st == [stream[s] EXCEPT !.read = @ + 1]
    IN  /\ stream[s].pc = "source" /\ source[s].ready > 0
        /\ source' = [source EXCEPT ![s].ready = @ - 1]
        /\ stream' = [stream EXCEPT ![s] =
              IF ~st.batched THEN [st EXCEPT !.delivered = @ + 1, !.pc = "drain"]
              ELSE [st EXCEPT !.buffer = @ + 1, !.pc = "pressure", !.deadline = FillTimer(st)]]
        /\ UNCHANGED monVars

(* current_backpressure_active after each item *)
CheckPressure(s) ==
    /\ stream[s].pc = "pressure"
    /\ Become(s, IF active THEN Flushed([stream[s] EXCEPT !.paused = TRUE])
                 ELSE [stream[s] EXCEPT !.pc = "size"])

(* The batch is compared with the governor's target, which may have        *)
(* changed since the last item and is never above max_batch_bytes.         *)
CheckSize(s) ==
    /\ stream[s].pc = "size"
    /\ \/ Become(s, Flushed(stream[s]))
       \/ stream[s].buffer < MaxBatch /\ Become(s, [stream[s] EXCEPT !.pc = "source"])

(* Variant: the rows after the last full batch are not handed over. *)
EndWithoutRest(st) == Finished(st, "done")

(* Err drops what is buffered, None flushes it. *)
AtEnd(st) == [Finished(st, "done") EXCEPT !.delivered = @ + st.buffer, !.buffer = 0]
AtError(st) == [Finished(st, "error") EXCEPT !.buffer = 0]

SourceOver(s) ==
    /\ stream[s].pc = "source" /\ source[s].ready = 0 /\ source[s].state # "open"
    /\ Become(s, IF source[s].state = "ended" THEN AtEnd(stream[s]) ELSE AtError(stream[s]))

(* Nothing ready: a batch whose timer has run out goes, else the task      *)
(* sleeps with the source's waker and the timer's registered.              *)
SourcePending(s) ==
    /\ stream[s].pc = "source" /\ source[s].ready = 0 /\ source[s].state = "open"
    /\ Become(s, IF stream[s].deadline = "elapsed"
                 THEN Flushed([stream[s] EXCEPT !.sourceArmed = TRUE])
                 ELSE [stream[s] EXCEPT !.sourceArmed = TRUE, !.pc = "idle"])

DeadlineElapses(s) ==
    /\ stream[s].deadline = "set"
    /\ Become(s, [stream[s] EXCEPT !.deadline = "elapsed", !.woken = TRUE])

Poll(s) ==
    \/ Open(s) \/ StartPoll(s) \/ DrainUpdates(s) \/ ReadCurrent(s) \/ TakeItem(s)
    \/ CheckPressure(s) \/ CheckSize(s) \/ SourceOver(s) \/ SourcePending(s)

Next ==
    \/ \E used \in 0..2 : Tick(used)
    \/ \E s \in Streams : \/ Produce(s) \/ EndSource(s) \/ FailSource(s)
                          \/ DeadlineElapses(s) \/ Poll(s)

Spec == Init /\ [][Next]_vars

(* A woken task is polled and its poll runs to an end; a timer fires.      *)
(* Nothing is assumed of the source or of memory.                          *)
Fairness == \A s \in Streams : WF_vars(Poll(s)) /\ WF_vars(DeadlineElapses(s))
FairSpec == Spec /\ Fairness

-----------------------------------------------------------------------------
(* A stream that sleeps because of memory holds no batch, and a stream     *)
(* that ended without an error has handed over every item it read          *)
(* (MemoryBatchStream::poll_next).                                         *)
NothingHeldBack == \A s \in Streams :
    /\ stream[s].pc = "idle" /\ stream[s].paused => stream[s].buffer = 0
    /\ stream[s].result = "done" => stream[s].delivered = stream[s].read

(* A stream paused for memory polls its source again once the pressure is  *)
(* gone, whoever last woke its task (poll_memory_backpressure).            *)
PausedStreamResumes == \A s \in Streams :
    stream[s].paused /\ ~active ~> ~stream[s].paused \/ active

(* A row is not kept waiting for a batch to fill: it leaves with the fill  *)
(* timer at the latest, or with the error that ends the copy.              *)
BufferIsFlushed == \A s \in Streams : stream[s].buffer > 0 ~> stream[s].buffer = 0

=============================================================================
