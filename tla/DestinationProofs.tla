--------------------------- MODULE DestinationProofs ---------------------------
(***************************************************************************)
(* TLAPS proofs about the parts MCDestinations instantiates beside the     *)
(* BigQuery table.  MaintenancePause: the gates between DuckLake's writes  *)
(* and its maintenance, for any number of runs, appends and outages and    *)
(* any length of lease.  DuckLakeReplay: a table that is copied, streamed  *)
(* into and reset, for any source and any number of faults and resets.     *)
(***************************************************************************)
EXTENDS MCDestinations, SequenceTheorems, FiniteSetTheorems, NaturalsInduction,
        WellFoundedInduction, TLAPS

--------------------------------------------------------------------------------
(* The inductive invariant of the pause.                                    *)

PauseRecord == [run : Nat, expires : Nat]
HeldRecord == [run : Nat, expires : Nat, reported : BOOLEAN, refresh : BOOLEAN]

WatcherState ==
  [pc : {"poll", "reconcile", "session", "checkpoint", "release", "report"},
   pause : PauseRecord, held : HeldRecord, refresh : BOOLEAN]

StoreState ==
  [up : BOOLEAN, exists : BOOLEAN, pause : PauseRecord, runs : Nat, successful : SUBSET Nat,
   status : [state : {"Running", "Pausing", "Quiesced"}, run : Nat]]

GateShape == gate = [g \in Pause!Gates |-> [in |-> gate[g].in, queue |-> gate[g].queue]]

PauseTypes ==
  /\ now \in Nat
  /\ GateShape
  /\ copy = [pc |-> copy.pc, left |-> copy.left]
  /\ watcher \in WatcherState
  /\ state \in StoreState

CheckpointIn == gate["checkpoint"].in

\* Maintenance that is inside the checkpoint gate is alone there.
Alone == \A a \in Pause!Exclusive : a \in CheckpointIn => CheckpointIn = {a}

\* A write that runs is inside.
WritersInside ==
  /\ stream = "batch" => "stream" \in CheckpointIn
  /\ copy.pc = "appending" => "copy" \in CheckpointIn

\* While the watcher holds a pause it is inside the gate.
HoldInv ==
  /\ watcher.held.run = 0 => watcher.held = Pause!NotHeld
  /\ watcher.held.run # 0 => "watcher" \in CheckpointIn
  /\ watcher.pc \in {"reconcile", "session", "checkpoint", "report"} => watcher.held.run = 0
  /\ watcher.pc \in {"reconcile", "session", "checkpoint"} => watcher.pause.run # 0
  /\ watcher.pause.run = 0 => watcher.pause = Pause!NoPause

\* A run has one lease, wherever the watcher keeps it.
LeaseInv ==
  /\ state.pause.run <= state.runs
  /\ watcher.pause.run <= state.runs /\ watcher.held.run <= state.runs
  /\ state.pause.run # 0 /\ watcher.pause.run = state.pause.run =>
       watcher.pause.expires = state.pause.expires
  /\ state.pause.run # 0 /\ watcher.held.run = state.pause.run =>
       watcher.held.expires = state.pause.expires

\* The run may do its work.
RunMayWork ==
  /\ state.exists /\ state.pause.run # 0 /\ now < state.pause.expires
  /\ state.status.state = "Quiesced" /\ state.status.run = state.pause.run

\* Only while the watcher holds the pause of that very run.
QuiescedInv == RunMayWork => watcher.pc = "poll" /\ watcher.held.run = state.pause.run

\* Stale pools keep the watcher in its pause until it has refreshed them.
StaleInv ==
  pools = "stale" =>
    /\ state.exists /\ state.pause.run = 0 /\ state.status.state = "Quiesced"
    /\ watcher.held.run # 0 /\ watcher.held.run \in state.successful
    /\ \/ watcher.pc = "poll"
       \/ watcher.pc = "release" /\ watcher.pause = Pause!NoPause /\ watcher.held.refresh

PauseInv ==
  PauseTypes /\ Alone /\ WritersInside /\ HoldInv /\ LeaseInv /\ QuiescedInv /\ StaleInv

--------------------------------------------------------------------------------
(* What the steps do to the gates; the queues play no part.                 *)

Entered(a) == CheckpointIn' = CheckpointIn \cup {a} /\ Pause!CanEnter("checkpoint", a)

LEMMA OneGate ==
  ASSUME GateShape, NEW g \in Pause!Gates, NEW i, NEW q, gate' = [gate EXCEPT ![g] = [in |-> i, queue |-> q]]
  PROVE  /\ GateShape'
         /\ \A h \in Pause!Gates : gate'[h].in = IF h = g THEN i ELSE gate[h].in
<1>1. \A h \in Pause!Gates : gate'[h] = IF h = g THEN [in |-> i, queue |-> q] ELSE gate[h]
  BY DEF GateShape
<1>2. gate' = [h \in Pause!Gates |-> gate'[h]]
  BY DEF GateShape
<1>3. \A h \in Pause!Gates : gate[h] = [in |-> gate[h].in, queue |-> gate[h].queue]
  BY DEF GateShape
<1>4. ASSUME NEW h \in Pause!Gates
      PROVE  /\ gate'[h] = [in |-> gate'[h].in, queue |-> gate'[h].queue]
             /\ gate'[h].in = IF h = g THEN i ELSE gate[h].in
  BY <1>1, <1>3
<1> QED
  BY <1>2, <1>4 DEF GateShape

LEMMA QueueEffect ==
  ASSUME GateShape, NEW g \in Pause!Gates, NEW a, gate' = Pause!Queued(g, a)
  PROVE  GateShape' /\ (CheckpointIn' = CheckpointIn \/ Entered(a))
<1>0. gate[g] = [in |-> gate[g].in, queue |-> gate[g].queue]
  BY DEF GateShape
<1>1. CASE gate' = [gate EXCEPT ![g].in = @ \cup {a}] /\ Pause!CanEnter(g, a)
  <2>1. PICK r : r = [in |-> gate[g].in \cup {a}, queue |-> gate[g].queue]
    OBVIOUS
  <2>2. r = [gate[g] EXCEPT !.in = @ \cup {a}]
    BY <1>0, <2>1
  <2>3. gate' = [gate EXCEPT ![g] = r]
    BY <1>1, <2>2, Zenon
  <2> QED
    BY <1>1, <2>1, <2>3, OneGate DEF CheckpointIn, Entered, Pause!Gates
<1>2. ASSUME NEW q, gate' = [gate EXCEPT ![g].queue = q]
      PROVE  GateShape' /\ CheckpointIn' = CheckpointIn
  <2>1. PICK r : r = [in |-> gate[g].in, queue |-> q]
    OBVIOUS
  <2>2. r = [gate[g] EXCEPT !.queue = q]
    BY <1>0, <2>1
  <2>3. gate' = [gate EXCEPT ![g] = r]
    BY <1>2, <2>2, Zenon
  <2> QED
    BY <2>1, <2>3, OneGate DEF CheckpointIn, Pause!Gates
<1> QED
  BY <1>1, <1>2, Zenon DEF Pause!Queued

LEMMA LeaveEffect ==
  ASSUME GateShape, NEW gs, NEW a, gate' = Pause!Left(gs, a)
  PROVE  GateShape' /\ (CheckpointIn' = CheckpointIn \/ CheckpointIn' = CheckpointIn \ {a})
<1>1. ASSUME NEW g \in Pause!Gates
      PROVE  /\ gate'[g] = [in |-> gate'[g].in, queue |-> gate'[g].queue]
             /\ gate'[g].in = gate[g].in \/ gate'[g].in = gate[g].in \ {a}
  <2>1. gate[g] = [in |-> gate[g].in, queue |-> gate[g].queue]
    BY DEF GateShape
  <2>2. gate'[g] = IF g \in gs THEN [gate[g] EXCEPT !.in = @ \ {a}] ELSE gate[g]
    BY DEF Pause!Left
  <2> QED
    BY <2>1, <2>2
<1>2. gate' = [g \in Pause!Gates |-> gate'[g]]
  BY DEF Pause!Left
<1> QED
  BY <1>1, <1>2 DEF GateShape, CheckpointIn, Pause!Gates

LEMMA GrantEffect ==
  ASSUME GateShape, NEW g \in Pause!Gates, Pause!Grant(g)
  PROVE  GateShape' /\ (CheckpointIn' = CheckpointIn \/ \E a : Entered(a))
<1>1. PICK a, q : /\ Pause!CanEnter(g, a)
                  /\ gate' = [gate EXCEPT ![g] = [in |-> @.in \cup {a}, queue |-> q]]
  BY Zenon DEF Pause!Grant
<1> QED
  BY <1>1 DEF GateShape, CheckpointIn, Entered, Pause!Gates

\* A writer that yields goes to the end of the queue.
LEMMA YieldEffect ==
  ASSUME GateShape, NEW q,
         gate' = [Pause!Left({"checkpoint"}, "stream") EXCEPT !["checkpoint"].queue = q]
  PROVE  GateShape' /\ CheckpointIn' = CheckpointIn \ {"stream"}
<1>1. PICK left : left = Pause!Left({"checkpoint"}, "stream")
  OBVIOUS
<1>2. left = [g \in Pause!Gates |-> [in |-> left[g].in, queue |-> left[g].queue]]
      /\ left["checkpoint"].in = CheckpointIn \ {"stream"}
  BY <1>1 DEF Pause!Left, GateShape, CheckpointIn, Pause!Gates
<1>3. gate' = [left EXCEPT !["checkpoint"].queue = q]
  BY <1>1
<1> QED
  BY <1>2, <1>3 DEF GateShape, CheckpointIn, Pause!Gates

LEMMA TimeoutEffect ==
  ASSUME GateShape, Pause!PauseTimesOut
  PROVE  GateShape' /\ CheckpointIn' = CheckpointIn \ {"watcher"}
<1>1. PICK q : gate' = [g \in Pause!Gates |-> [in |-> gate[g].in \ {"watcher"}, queue |-> q[g]]]
  <2> DEFINE f == [g \in Pause!Gates |-> SelectSeq(gate[g].queue, LAMBDA b : b # "watcher")]
  <2>1. gate' = [g \in Pause!Gates |-> [in |-> gate[g].in \ {"watcher"}, queue |-> f[g]]]
    BY Zenon DEF Pause!PauseTimesOut
  <2> QED
    BY <2>1, Zenon
<1> QED
  BY <1>1 DEF GateShape, CheckpointIn, Pause!Gates

LEMMA AloneKept ==
  ASSUME Alone, \/ CheckpointIn' = CheckpointIn
                \/ \E a : Entered(a)
                \/ \E a : CheckpointIn' = CheckpointIn \ {a}
  PROVE  Alone'
<1>1. ASSUME NEW a, Entered(a) PROVE Alone'
  BY <1>1 DEF Alone, Entered, Pause!CanEnter, CheckpointIn
<1>2. ASSUME NEW a, CheckpointIn' = CheckpointIn \ {a} PROVE Alone'
  BY <1>2 DEF Alone
<1> QED
  BY <1>1, <1>2 DEF Alone

--------------------------------------------------------------------------------
(* Steps of the clock, the locks, the writers and the host.                 *)

LEMMA ForegroundKeeps ==
  ASSUME PauseInv, UNCHANGED <<watcher, state, pools>>, now' \in Nat, now <= now',
         GateShape', copy' = [pc |-> copy'.pc, left |-> copy'.left], WritersInside',
         \/ CheckpointIn' = CheckpointIn
         \/ \E a : Entered(a)
         \/ \E a : a # "watcher" /\ CheckpointIn' = CheckpointIn \ {a}
  PROVE  PauseInv'
<1>1. Alone'
  BY AloneKept DEF PauseInv
<1>2. PauseTypes'
  BY DEF PauseInv, PauseTypes
<1>3. "watcher" \in CheckpointIn => "watcher" \in CheckpointIn'
  BY DEF Entered
<1>4. HoldInv'
  BY <1>3 DEF PauseInv, HoldInv
<1>5. LeaseInv' /\ StaleInv'
  BY DEF PauseInv, LeaseInv, StaleInv
<1>6. RunMayWork' => RunMayWork
  BY DEF PauseInv, PauseTypes, StoreState, PauseRecord, RunMayWork
<1>7. QuiescedInv'
  BY <1>6 DEF PauseInv, QuiescedInv
<1> QED
  BY <1>1, <1>2, <1>4, <1>5, <1>7 DEF PauseInv

LEMMA ClockKeeps == ASSUME PauseInv, Pause!Tick PROVE PauseInv'
BY ForegroundKeeps DEF Pause!Tick, PauseInv, PauseTypes, GateShape, WritersInside, CheckpointIn

LEMMA GrantKeeps == ASSUME PauseInv, NEW g \in Pause!Gates, Pause!Grant(g) PROVE PauseInv'
<1>1. GateShape' /\ (CheckpointIn' = CheckpointIn \/ \E a : Entered(a))
  BY GrantEffect DEF PauseInv, PauseTypes
<1>2. UNCHANGED <<now, stream, copy, watcher, state, pools>>
  BY DEF Pause!Grant
<1>3. WritersInside'
  BY <1>1, <1>2 DEF PauseInv, WritersInside, Entered
<1> QED
  BY <1>1, <1>2, <1>3, ForegroundKeeps DEF PauseInv, PauseTypes

LEMMA StreamKeeps == ASSUME PauseInv, Pause!StreamStep \/ Pause!StreamEnds PROVE PauseInv'
<1>0. UNCHANGED <<now, copy, watcher, state, pools>>
  BY DEF Pause!StreamStep, Pause!StreamEnds
<1>1. CASE stream' = "waiting" /\ gate' = Pause!Queued("checkpoint", "stream")
  <2>1. GateShape' /\ (CheckpointIn' = CheckpointIn \/ Entered("stream"))
    BY <1>1, QueueEffect DEF PauseInv, PauseTypes, Pause!Gates
  <2>2. WritersInside'
    BY <1>0, <1>1, <2>1 DEF PauseInv, WritersInside, Entered
  <2> QED
    BY <1>0, <2>1, <2>2, ForegroundKeeps DEF PauseInv, PauseTypes
<1>2. CASE Pause!In("checkpoint", "stream") /\ UNCHANGED gate
  <2>1. GateShape' /\ CheckpointIn' = CheckpointIn /\ "stream" \in CheckpointIn
    BY <1>2 DEF PauseInv, PauseTypes, GateShape, CheckpointIn, Pause!In
  <2>2. WritersInside'
    BY <1>0, <2>1 DEF PauseInv, WritersInside
  <2> QED
    BY <1>0, <2>1, <2>2, ForegroundKeeps DEF PauseInv, PauseTypes
<1>3. ASSUME NEW q, stream' # "batch",
             gate' = [Pause!Left({"checkpoint"}, "stream") EXCEPT !["checkpoint"].queue = q]
      PROVE  PauseInv'
  <2>1. GateShape' /\ CheckpointIn' = CheckpointIn \ {"stream"}
    BY <1>3, YieldEffect DEF PauseInv, PauseTypes
  <2>2. WritersInside'
    BY <1>0, <1>3, <2>1 DEF PauseInv, WritersInside
  <2> QED
    BY <1>0, <2>1, <2>2, ForegroundKeeps DEF PauseInv, PauseTypes
<1>4. CASE Pause!StreamEnds
  <2>1. GateShape' /\ (CheckpointIn' = CheckpointIn \/ CheckpointIn' = CheckpointIn \ {"stream"})
    BY <1>4, LeaveEffect DEF PauseInv, PauseTypes, Pause!StreamEnds
  <2>2. WritersInside'
    BY <1>0, <1>4, <2>1 DEF PauseInv, WritersInside, Pause!StreamEnds
  <2> QED
    BY <1>0, <2>1, <2>2, ForegroundKeeps DEF PauseInv, PauseTypes
<1>5. CASE Pause!StreamStep
  <2>1. CASE stream = "batch" /\ stream' = "waiting"
             /\ gate' = [Pause!Left({"checkpoint"}, "stream")
                           EXCEPT !["checkpoint"].queue = Append(@, "stream")]
    BY <2>1, <1>3
  <2> QED
    BY <1>1, <1>2, <1>5, <2>1, Zenon DEF Pause!StreamStep
<1> QED
  BY <1>4, <1>5

LEMMA CopyKeeps == ASSUME PauseInv, Pause!CopyStep PROVE PauseInv'
<1>0. UNCHANGED <<now, stream, watcher, state, pools>>
  BY DEF Pause!CopyStep
<1>1. copy' = [pc |-> copy'.pc, left |-> copy'.left]
  BY DEF PauseInv, PauseTypes, Pause!CopyStep
<1>2. ASSUME NEW g \in Pause!Gates, copy'.pc # "appending", gate' = Pause!Queued(g, "copy")
      PROVE  PauseInv'
  <2>1. GateShape' /\ (CheckpointIn' = CheckpointIn \/ Entered("copy"))
    BY <1>2, QueueEffect DEF PauseInv, PauseTypes
  <2>2. WritersInside'
    BY <1>0, <1>2, <2>1 DEF PauseInv, WritersInside, Entered
  <2> QED
    BY <1>0, <1>1, <2>1, <2>2, ForegroundKeeps DEF PauseInv, PauseTypes
<1>3. ASSUME copy'.pc = "appending" => Pause!In("checkpoint", "copy"), UNCHANGED gate
      PROVE  PauseInv'
  <2>1. GateShape' /\ CheckpointIn' = CheckpointIn
    BY <1>3 DEF PauseInv, PauseTypes, GateShape, CheckpointIn
  <2>2. WritersInside'
    BY <1>0, <1>3, <2>1 DEF PauseInv, WritersInside, CheckpointIn, Pause!In
  <2> QED
    BY <1>0, <1>1, <2>1, <2>2, ForegroundKeeps DEF PauseInv, PauseTypes
<1>4. ASSUME NEW gs, copy'.pc # "appending", gate' = Pause!Left(gs, "copy")
      PROVE  PauseInv'
  <2>1. GateShape' /\ (CheckpointIn' = CheckpointIn \/ CheckpointIn' = CheckpointIn \ {"copy"})
    BY <1>4, LeaveEffect DEF PauseInv, PauseTypes
  <2>2. WritersInside'
    BY <1>0, <1>4, <2>1 DEF PauseInv, WritersInside
  <2> QED
    BY <1>0, <1>1, <2>1, <2>2, ForegroundKeeps DEF PauseInv, PauseTypes
<1>5. copy = [pc |-> copy.pc, left |-> copy.left]
  BY DEF PauseInv, PauseTypes
<1> QED
  BY <1>2, <1>3, <1>4, <1>5 DEF Pause!CopyStep, Pause!Gates

LEMMA HostKeeps == ASSUME PauseInv, Pause!HostStep PROVE PauseInv'
<1>0. UNCHANGED <<now, stream, copy, watcher, state, pools>>
  BY DEF Pause!HostStep
<1>1. ASSUME NEW g \in Pause!Gates, gate' = Pause!Queued(g, "host") PROVE PauseInv'
  <2>1. GateShape' /\ (CheckpointIn' = CheckpointIn \/ Entered("host"))
    BY <1>1, QueueEffect DEF PauseInv, PauseTypes
  <2>2. WritersInside'
    BY <1>0, <2>1 DEF PauseInv, WritersInside, Entered
  <2> QED
    BY <1>0, <2>1, <2>2, ForegroundKeeps DEF PauseInv, PauseTypes
<1>2. CASE UNCHANGED gate
  <2>1. GateShape' /\ CheckpointIn' = CheckpointIn
    BY <1>2 DEF PauseInv, PauseTypes, GateShape, CheckpointIn
  <2>2. WritersInside'
    BY <1>0, <2>1 DEF PauseInv, WritersInside
  <2> QED
    BY <1>0, <2>1, <2>2, ForegroundKeeps DEF PauseInv, PauseTypes
<1>3. CASE gate' = Pause!Left(Pause!Gates, "host")
  <2>1. GateShape' /\ (CheckpointIn' = CheckpointIn \/ CheckpointIn' = CheckpointIn \ {"host"})
    BY <1>3, LeaveEffect DEF PauseInv, PauseTypes
  <2>2. WritersInside'
    BY <1>0, <2>1 DEF PauseInv, WritersInside
  <2> QED
    BY <1>0, <2>1, <2>2, ForegroundKeeps DEF PauseInv, PauseTypes
<1> QED
  BY <1>1, <1>2, <1>3 DEF Pause!HostStep, Pause!Gates

--------------------------------------------------------------------------------
(* Steps of the controller and of its store.                                *)

LEMMA ControllerFrame ==
  ASSUME PauseInv, UNCHANGED <<now, gate, stream, copy, watcher>>, state' \in StoreState
  PROVE  PauseTypes' /\ Alone' /\ WritersInside' /\ HoldInv'
BY DEF PauseInv, PauseTypes, GateShape, CheckpointIn, Alone, WritersInside, HoldInv

\* A new run has a number, and so a lease, of its own.
LEMMA RequestKeeps ==
  ASSUME PauseInv, ControllerWaits, Pause!RequestPause
  PROVE  PauseInv'
<1>0. /\ state \in StoreState /\ watcher \in WatcherState /\ now \in Nat /\ now + Lease \in Nat
      /\ state.status.state = "Running" /\ UNCHANGED <<now, gate, stream, copy, watcher, pools>>
  BY LeaseAssumption DEF PauseInv, PauseTypes, Pause!RequestPause, Pause!ControllerReady
<1>1. PICK l : l = [run |-> state.runs + 1, expires |-> now + Lease]
  OBVIOUS
<1>2. state' = [state EXCEPT !.runs = @ + 1, !.pause = l]
  BY <1>1, Zenon DEF Pause!RequestPause
<1>3. l \in PauseRecord /\ state.runs + 1 \in Nat
  BY <1>0, <1>1 DEF StoreState, PauseRecord
<1>4. /\ state' \in StoreState /\ state'.pause = l /\ state'.runs = state.runs + 1
      /\ state'.status = state.status /\ state'.successful = state.successful
      /\ (state'.exists <=> state.exists)
  BY <1>0, <1>2, <1>3 DEF StoreState
<1>5. LeaseInv'
  BY <1>0, <1>1, <1>4 DEF PauseInv, LeaseInv, StoreState, WatcherState, PauseRecord, HeldRecord
<1>6. QuiescedInv'
  BY <1>0, <1>4 DEF QuiescedInv, RunMayWork
<1>7. StaleInv'
  BY <1>0, <1>4 DEF PauseInv, StaleInv
<1> QED
  BY <1>0, <1>4, <1>5, <1>6, <1>7, ControllerFrame DEF PauseInv

\* The run works only while the watcher holds its pause.
LEMMA RunKeeps == ASSUME PauseInv, Pause!RunSucceeds PROVE PauseInv'
<1>0. /\ state \in StoreState /\ watcher \in WatcherState
      /\ UNCHANGED <<now, gate, stream, copy, watcher>>
      /\ pools' = "stale" \/ pools' = "none"
  BY DEF PauseInv, PauseTypes, Pause!RunSucceeds
<1>1. RunMayWork
  BY DEF Pause!RunSucceeds, RunMayWork
<1>2. watcher.pc = "poll" /\ watcher.held.run = state.pause.run /\ state.pause.run # 0
  BY <1>1 DEF PauseInv, QuiescedInv, RunMayWork
<1>3. PICK done : done = state.successful \cup {state.pause.run}
  OBVIOUS
<1>4. state' = [state EXCEPT !.successful = done, !.pause = Pause!NoPause]
  BY <1>3, Zenon DEF Pause!RunSucceeds
<1>5. done \in SUBSET Nat /\ Pause!NoPause \in PauseRecord /\ Pause!NoPause.run = 0
  BY <1>0, <1>3 DEF StoreState, PauseRecord, Pause!NoPause
<1>6. /\ state' \in StoreState /\ state'.pause = Pause!NoPause /\ state'.runs = state.runs
      /\ state'.status = state.status /\ state'.successful = done
      /\ (state'.exists <=> state.exists)
  BY <1>0, <1>4, <1>5 DEF StoreState
<1>7. LeaseInv'
  BY <1>0, <1>5, <1>6 DEF PauseInv, LeaseInv, StoreState
<1>8. QuiescedInv'
  BY <1>5, <1>6 DEF QuiescedInv, RunMayWork
<1>9. StaleInv'
  BY <1>0, <1>1, <1>2, <1>3, <1>5, <1>6 DEF StaleInv, RunMayWork
<1> QED
  BY <1>0, <1>6, <1>7, <1>8, <1>9, ControllerFrame DEF PauseInv

LEMMA StoreKeeps ==
  ASSUME PauseInv, ControllerWaits,
         Pause!StateDeleted \/ Pause!StoreGoesDown \/ Pause!StoreReturns
  PROVE  PauseInv'
<1>0. state \in StoreState /\ UNCHANGED <<now, gate, stream, copy, watcher, pools>>
  BY DEF PauseInv, PauseTypes, Pause!StateDeleted, Pause!StoreGoesDown, Pause!StoreReturns
<1>1. /\ state' \in StoreState /\ state'.pause = state.pause /\ state'.runs = state.runs
      /\ state'.status = state.status /\ state'.successful = state.successful
  BY <1>0 DEF StoreState, Pause!StateDeleted, Pause!StoreGoesDown, Pause!StoreReturns
<1>2. (state'.exists <=> state.exists) \/ (~ state'.exists /\ state.status.state = "Running")
  BY <1>0 DEF StoreState, Pause!StateDeleted, Pause!StoreGoesDown, Pause!StoreReturns,
             Pause!ControllerReady
<1>3. LeaseInv'
  BY <1>0, <1>1 DEF PauseInv, LeaseInv
<1>4. QuiescedInv'
  BY <1>0, <1>1, <1>2 DEF PauseInv, QuiescedInv, RunMayWork
<1>5. StaleInv'
  BY <1>0, <1>1, <1>2 DEF PauseInv, StaleInv
<1> QED
  BY <1>0, <1>1, <1>3, <1>4, <1>5, ControllerFrame DEF PauseInv

--------------------------------------------------------------------------------
(* Steps of the watcher.                                                    *)

LEMMA WatcherFrame ==
  ASSUME PauseInv, UNCHANGED <<now, gate, stream, copy>>,
         watcher' \in WatcherState, state' \in StoreState
  PROVE  PauseTypes' /\ Alone' /\ WritersInside' /\ CheckpointIn' = CheckpointIn
BY DEF PauseInv, PauseTypes, GateShape, CheckpointIn, Alone, WritersInside

LEMMA ReportEffect ==
  ASSUME state \in StoreState, NEW status \in {"Running", "Pausing", "Quiesced"}, NEW r \in Nat,
         Pause!Report(status, r)
  PROVE  /\ state' \in StoreState /\ state'.pause = state.pause /\ state'.runs = state.runs
         /\ state'.successful = state.successful /\ (state'.exists <=> state.exists)
         /\ state'.status = state.status \/ state'.status = [state |-> status, run |-> r]
BY DEF StoreState, Pause!Report

\* The pause the watcher turns to, and whether its pools need a refresh.
LEMMA PollSets ==
  ASSUME watcher \in WatcherState, NEW p \in {"poll", "reconcile", "release"},
         NEW l \in PauseRecord, NEW b \in BOOLEAN,
         watcher' = [watcher EXCEPT !.pc = p, !.pause = l, !.held.refresh = b]
  PROVE  /\ watcher' \in WatcherState /\ watcher'.pc = p /\ watcher'.pause = l
         /\ watcher'.held.run = watcher.held.run /\ watcher'.held.expires = watcher.held.expires
         /\ watcher'.held = [watcher.held EXCEPT !.refresh = b] /\ (watcher'.held.refresh <=> b)
<1>1. PICK h : h = [watcher.held EXCEPT !.refresh = b]
  OBVIOUS
<1>2. /\ h \in HeldRecord /\ h.run = watcher.held.run /\ h.expires = watcher.held.expires
      /\ (h.refresh <=> b)
  BY <1>1 DEF WatcherState, HeldRecord
<1>3. watcher' = [watcher EXCEPT !.pc = p, !.pause = l, !.held = h]
  BY <1>1, Zenon
<1>4. watcher' \in WatcherState /\ watcher'.pc = p /\ watcher'.pause = l /\ watcher'.held = h
  BY <1>2, <1>3 DEF WatcherState
<1> QED
  BY <1>1, <1>2, <1>4

\* NotHeld has no refresh to make.
LEMMA NotHeldKept ==
  ASSUME watcher.held = Pause!NotHeld
  PROVE  [watcher.held EXCEPT !.refresh = FALSE] = Pause!NotHeld
<1>1. ASSUME NEW r, NEW e, NEW b, NEW c, NEW h,
             h = [run |-> r, expires |-> e, reported |-> b, refresh |-> c]
      PROVE  [h EXCEPT !.refresh = c] = h
  BY <1>1
<1>2. PICK h : h = watcher.held
  OBVIOUS
<1>3. h = [run |-> 0, expires |-> 0, reported |-> FALSE, refresh |-> FALSE]
  BY <1>2, Zenon DEF Pause!NotHeld
<1>4. [h EXCEPT !.refresh = FALSE] = h
  BY <1>1, <1>3, Zenon
<1> QED
  BY <1>2, <1>4, Zenon

LEMMA PollKeeps == ASSUME PauseInv, Pause!Poll PROVE PauseInv'
<1>0. /\ watcher \in WatcherState /\ state \in StoreState /\ now \in Nat /\ watcher.pc = "poll"
      /\ UNCHANGED <<now, gate, stream, copy, state, pools>>
      /\ Pause!NoPause \in PauseRecord /\ Pause!NoPause.run = 0
  BY DEF PauseInv, PauseTypes, Pause!Poll, Pause!NoPause, PauseRecord
<1>1. Pause!Holds <=> watcher.held.run # 0
  BY DEF PauseInv, HoldInv, Pause!Holds, Pause!NotHeld
<1>2. CASE /\ state.exists /\ Pause!bounded_active_pause_request
           /\ watcher.held.run # state.pause.run
           /\ watcher' = [watcher EXCEPT
                !.pc = IF Pause!Holds THEN "release" ELSE "reconcile",
                !.pause = state.pause, !.held.refresh = Pause!Holds /\ Pause!RefreshNeeded]
  <2>1. PICK p \in {"release", "reconcile"} :
           p = (IF Pause!Holds THEN "release" ELSE "reconcile")
    OBVIOUS
  <2>2. PICK b \in BOOLEAN : b = (Pause!Holds /\ Pause!RefreshNeeded)
    BY Zenon
  <2>3. watcher' = [watcher EXCEPT !.pc = p, !.pause = state.pause, !.held.refresh = b]
    BY <1>2, <2>1, <2>2, Zenon
  <2>4. state.pause \in PauseRecord /\ state.pause.run # 0
        /\ state.pause.expires > now
    BY <1>0, <1>2 DEF StoreState, Pause!bounded_active_pause_request
  <2>5. /\ watcher' \in WatcherState /\ watcher'.pc = p /\ watcher'.pause = state.pause
        /\ watcher'.held.run = watcher.held.run /\ watcher'.held.expires = watcher.held.expires
        /\ watcher'.held = [watcher.held EXCEPT !.refresh = b] /\ (watcher'.held.refresh <=> b)
    BY <1>0, <2>3, <2>4, PollSets
  <2>6. watcher'.held.run = 0 => watcher'.held = Pause!NotHeld
    <3>1. SUFFICES ASSUME watcher.held.run = 0 PROVE watcher'.held = Pause!NotHeld
      BY <2>5
    <3>2. watcher.held = Pause!NotHeld
      BY <3>1 DEF PauseInv, HoldInv
    <3>3. b = FALSE
      BY <1>1, <2>2, <3>1
    <3> QED
      BY <2>5, <3>2, <3>3, NotHeldKept, Zenon
  <2>7. PauseTypes' /\ Alone' /\ WritersInside' /\ CheckpointIn' = CheckpointIn
    BY <1>0, <2>5, WatcherFrame
  <2>8. HoldInv'
    BY <1>1, <2>1, <2>4, <2>5, <2>6, <2>7 DEF PauseInv, HoldInv
  <2>9. LeaseInv'
    BY <1>0, <2>5 DEF PauseInv, LeaseInv
  <2>10. ~ RunMayWork
    BY <1>2 DEF PauseInv, QuiescedInv
  <2>11. QuiescedInv'
    BY <1>0, <2>10 DEF QuiescedInv, RunMayWork
  <2>12. StaleInv'
    BY <1>0, <2>4 DEF PauseInv, StaleInv
  <2> QED
    BY <2>7, <2>8, <2>9, <2>11, <2>12 DEF PauseInv
<1>3. CASE /\ Pause!Holds /\ ~ (state.exists /\ Pause!bounded_active_pause_request)
           /\ watcher' = [watcher EXCEPT !.pc = "release", !.pause = Pause!NoPause,
                !.held.refresh = IF state.exists THEN Pause!RefreshNeeded ELSE @]
  <2>1. PICK b : b = (IF state.exists THEN Pause!RefreshNeeded ELSE watcher.held.refresh)
    OBVIOUS
  <2>2. b \in BOOLEAN /\ (state.exists /\ watcher.held.run \in state.successful => b)
    BY <1>0, <2>1 DEF Pause!RefreshNeeded, WatcherState, HeldRecord
  <2>3. watcher' = [watcher EXCEPT !.pc = "release", !.pause = Pause!NoPause, !.held.refresh = b]
    BY <1>3, <2>1, Zenon
  <2>5. /\ watcher' \in WatcherState /\ watcher'.pc = "release" /\ watcher'.pause = Pause!NoPause
        /\ watcher'.held.run = watcher.held.run /\ watcher'.held.expires = watcher.held.expires
        /\ (watcher'.held.refresh <=> b)
    BY <1>0, <2>2, <2>3, PollSets
  <2>7. PauseTypes' /\ Alone' /\ WritersInside' /\ CheckpointIn' = CheckpointIn
    BY <1>0, <2>5, WatcherFrame
  <2>8. HoldInv'
    BY <1>0, <1>1, <1>3, <2>5, <2>7 DEF PauseInv, HoldInv
  <2>9. LeaseInv'
    BY <1>0, <2>5 DEF PauseInv, LeaseInv, StoreState
  <2>10. ~ RunMayWork
    BY <1>0, <1>3 DEF RunMayWork, Pause!bounded_active_pause_request, StoreState, PauseRecord
  <2>11. QuiescedInv'
    BY <1>0, <2>10 DEF QuiescedInv, RunMayWork
  <2>12. StaleInv'
    BY <1>0, <2>2, <2>5 DEF PauseInv, StaleInv
  <2> QED
    BY <2>7, <2>8, <2>9, <2>11, <2>12 DEF PauseInv
<1> QED
  BY <1>2, <1>3, Zenon DEF Pause!Poll

\* Without the store, an expired pause ends with a refresh in any case.
LEMMA PollFailsKeeps == ASSUME PauseInv, Pause!PollFails PROVE PauseInv'
<1>0. /\ watcher \in WatcherState /\ state \in StoreState /\ now \in Nat /\ watcher.pc = "poll"
      /\ UNCHANGED <<now, gate, stream, copy, state, pools>>
      /\ Pause!NoPause \in PauseRecord /\ Pause!NoPause.run = 0
      /\ watcher.held.expires <= now
  BY DEF PauseInv, PauseTypes, Pause!PollFails, Pause!NoPause, PauseRecord, Pause!HeldHasExpired
<1>1. watcher.held.run # 0
  BY DEF PauseInv, HoldInv, Pause!PollFails, Pause!HeldHasExpired, Pause!Holds
<1>2. watcher' = [watcher EXCEPT !.pc = "release", !.pause = Pause!NoPause, !.held.refresh = TRUE]
  BY Zenon DEF Pause!PollFails
<1>3. /\ watcher' \in WatcherState /\ watcher'.pc = "release" /\ watcher'.pause = Pause!NoPause
      /\ watcher'.held.run = watcher.held.run /\ watcher'.held.expires = watcher.held.expires
      /\ watcher'.held.refresh
  BY <1>0, <1>2, PollSets
<1>4. PauseTypes' /\ Alone' /\ WritersInside' /\ CheckpointIn' = CheckpointIn
  BY <1>0, <1>3, WatcherFrame
<1>5. HoldInv'
  BY <1>1, <1>3, <1>4 DEF PauseInv, HoldInv
<1>6. LeaseInv'
  BY <1>0, <1>3 DEF PauseInv, LeaseInv, StoreState
<1>7. ~ RunMayWork
  BY <1>0 DEF PauseInv, QuiescedInv, RunMayWork, LeaseInv, StoreState, PauseRecord
<1>8. QuiescedInv'
  BY <1>0, <1>7 DEF QuiescedInv, RunMayWork
<1>9. StaleInv'
  BY <1>0, <1>3 DEF PauseInv, StaleInv
<1> QED
  BY <1>4, <1>5, <1>6, <1>8, <1>9 DEF PauseInv

LEMMA ReportAgainKeeps == ASSUME PauseInv, Pause!ReportAgain PROVE PauseInv'
<1>0. /\ watcher \in WatcherState /\ state \in StoreState /\ now \in Nat /\ watcher.pc = "poll"
      /\ UNCHANGED <<now, gate, stream, copy, pools>>
      /\ watcher.held.run = state.pause.run /\ state.pause.run # 0 /\ watcher.held.run # 0
  BY DEF PauseInv, PauseTypes, Pause!ReportAgain, Pause!bounded_active_pause_request
<1>1. PICK st : st = [state |-> "Quiesced", run |-> watcher.held.run]
  OBVIOUS
<1>2. state' = [state EXCEPT !.status = st]
  BY <1>1, Zenon DEF Pause!ReportAgain
<1>3. /\ state' \in StoreState /\ state'.pause = state.pause /\ state'.runs = state.runs
      /\ state'.successful = state.successful /\ (state'.exists <=> state.exists)
      /\ state'.status = st
  BY <1>0, <1>1, <1>2 DEF StoreState, WatcherState, HeldRecord
<1>4. PICK h : h = [watcher.held EXCEPT !.reported = TRUE]
  OBVIOUS
<1>5. watcher' = [watcher EXCEPT !.held = h]
  BY <1>4, Zenon DEF Pause!ReportAgain
<1>6. h \in HeldRecord /\ h.run = watcher.held.run /\ h.expires = watcher.held.expires
  BY <1>0, <1>4 DEF WatcherState, HeldRecord
<1>7. /\ watcher' \in WatcherState /\ watcher'.pc = "poll" /\ watcher'.pause = watcher.pause
      /\ watcher'.held.run = watcher.held.run /\ watcher'.held.expires = watcher.held.expires
  BY <1>0, <1>5, <1>6 DEF WatcherState
<1>8. PauseTypes' /\ Alone' /\ WritersInside' /\ CheckpointIn' = CheckpointIn
  BY <1>0, <1>3, <1>7, WatcherFrame
<1>9. HoldInv'
  BY <1>0, <1>7, <1>8 DEF PauseInv, HoldInv
<1>10. LeaseInv'
  BY <1>3, <1>7 DEF PauseInv, LeaseInv
<1>11. QuiescedInv'
  BY <1>0, <1>3, <1>7 DEF QuiescedInv
<1>12. StaleInv'
  BY <1>0 DEF PauseInv, StaleInv
<1> QED
  BY <1>8, <1>9, <1>10, <1>11, <1>12 DEF PauseInv

LEMMA RefreshKeeps == ASSUME PauseInv, Pause!RefreshPools PROVE PauseInv'
<1>0. /\ watcher \in WatcherState /\ state \in StoreState /\ watcher.pc = "release"
      /\ UNCHANGED <<now, gate, stream, copy, state>>
      /\ pools' # "stale" /\ watcher.held.refresh
  BY DEF PauseInv, PauseTypes, Pause!RefreshPools
<1>1. watcher.held.run # 0
  BY <1>0 DEF PauseInv, HoldInv, Pause!NotHeld
<1>2. /\ watcher' \in WatcherState /\ watcher'.pc \in {"release", "poll"}
      /\ watcher'.pause = watcher.pause
      /\ watcher'.held.run = watcher.held.run /\ watcher'.held.expires = watcher.held.expires
  <2>1. CASE watcher' = [watcher EXCEPT !.held.refresh = FALSE]
    <3>1. PICK h : h = [watcher.held EXCEPT !.refresh = FALSE]
      OBVIOUS
    <3>2. watcher' = [watcher EXCEPT !.held = h]
      BY <2>1, <3>1, Zenon
    <3>3. h \in HeldRecord /\ h.run = watcher.held.run /\ h.expires = watcher.held.expires
      BY <1>0, <3>1 DEF WatcherState, HeldRecord
    <3> QED
      BY <1>0, <3>2, <3>3 DEF WatcherState
  <2>2. CASE watcher' = [watcher EXCEPT !.pc = "poll"]
    BY <1>0, <2>2 DEF WatcherState
  <2> QED
    BY <2>1, <2>2, Zenon DEF Pause!RefreshPools
<1>3. PauseTypes' /\ Alone' /\ WritersInside' /\ CheckpointIn' = CheckpointIn
  BY <1>0, <1>2, WatcherFrame
<1>4. HoldInv'
  BY <1>1, <1>2, <1>3 DEF PauseInv, HoldInv
<1>5. LeaseInv'
  BY <1>0, <1>2 DEF PauseInv, LeaseInv
<1>6. ~ RunMayWork
  BY <1>0 DEF PauseInv, QuiescedInv
<1>7. QuiescedInv' /\ StaleInv'
  BY <1>0, <1>6 DEF QuiescedInv, RunMayWork, StaleInv
<1> QED
  BY <1>3, <1>4, <1>5, <1>7 DEF PauseInv

\* The gate is left only by a watcher whose pools are not stale.
LEMMA LeavingKeeps ==
  ASSUME PauseInv, UNCHANGED <<now, stream, copy, state, pools>>, pools # "stale",
         watcher' \in WatcherState, watcher'.pc = "report", watcher'.held = Pause!NotHeld,
         watcher'.pause.run = 0 => watcher'.pause = Pause!NoPause,
         watcher'.pause = watcher.pause \/ watcher'.pause = Pause!NoPause,
         ~ RunMayWork, GateShape',
         CheckpointIn' = CheckpointIn \/ CheckpointIn' = CheckpointIn \ {"watcher"}
  PROVE  PauseInv'
<1>1. Alone'
  BY AloneKept DEF PauseInv
<1>2. WritersInside' /\ PauseTypes'
  BY DEF PauseInv, WritersInside, PauseTypes
<1>3. Pause!NotHeld.run = 0 /\ Pause!NoPause.run = 0
  BY DEF Pause!NotHeld, Pause!NoPause
<1>4. HoldInv'
  BY <1>3 DEF PauseInv, HoldInv
<1>5. LeaseInv'
  BY <1>3 DEF PauseInv, PauseTypes, LeaseInv, StoreState
<1>6. QuiescedInv' /\ StaleInv'
  BY DEF QuiescedInv, RunMayWork, StaleInv
<1> QED
  BY <1>1, <1>2, <1>4, <1>5, <1>6 DEF PauseInv

LEMMA ReleaseKeeps == ASSUME PauseInv, Pause!ReleasePause PROVE PauseInv'
<1>0. /\ watcher \in WatcherState /\ watcher.pc = "release"
      /\ UNCHANGED <<now, stream, copy, state, pools>>
      /\ Pause!NotHeld \in HeldRecord
  BY DEF PauseInv, PauseTypes, Pause!ReleasePause, Pause!NotHeld, HeldRecord
<1>1. pools # "stale"
  BY <1>0 DEF PauseInv, StaleInv, Pause!ReleasePause, Pause!ReadyToRelease
<1>2. PICK b \in BOOLEAN : b = (watcher.pause # Pause!NoPause /\ watcher.held.refresh)
  BY Zenon
<1>3. watcher' = [watcher EXCEPT !.pc = "report", !.held = Pause!NotHeld, !.refresh = b]
  BY <1>2, Zenon DEF Pause!ReleasePause
<1>4. /\ watcher' \in WatcherState /\ watcher'.pc = "report" /\ watcher'.held = Pause!NotHeld
      /\ watcher'.pause = watcher.pause
  BY <1>0, <1>3 DEF WatcherState
<1>5. ~ RunMayWork
  BY <1>0 DEF PauseInv, QuiescedInv
<1>6. GateShape' /\ (CheckpointIn' = CheckpointIn \/ CheckpointIn' = CheckpointIn \ {"watcher"})
  BY LeaveEffect DEF PauseInv, PauseTypes, Pause!ReleasePause
<1>7. watcher'.pause.run = 0 => watcher'.pause = Pause!NoPause
  BY <1>4 DEF PauseInv, HoldInv
<1> QED
  BY <1>0, <1>1, <1>4, <1>5, <1>6, <1>7, LeavingKeeps

LEMMA ReportRunningKeeps == ASSUME PauseInv, Pause!ReportRunning PROVE PauseInv'
<1>0. /\ watcher \in WatcherState /\ state \in StoreState /\ watcher.pc = "report"
      /\ UNCHANGED <<now, gate, stream, copy, pools>> /\ Pause!Report("Running", 0)
  BY DEF PauseInv, PauseTypes, Pause!ReportRunning
<1>1. /\ state' \in StoreState /\ state'.pause = state.pause /\ state'.runs = state.runs
      /\ state'.successful = state.successful /\ (state'.exists <=> state.exists)
      /\ state'.status = state.status \/ state'.status = [state |-> "Running", run |-> 0]
  BY <1>0, ReportEffect
<1>2. PICK p : p = IF watcher.pause = Pause!NoPause THEN "poll" ELSE "reconcile"
  OBVIOUS
<1>3. watcher' = [watcher EXCEPT !.pc = p]
  BY <1>2, Zenon DEF Pause!ReportRunning
<1>4. /\ watcher' \in WatcherState /\ watcher'.pc = p /\ watcher'.pause = watcher.pause
      /\ watcher'.held = watcher.held
  BY <1>0, <1>2, <1>3 DEF WatcherState
<1>5. PauseTypes' /\ Alone' /\ WritersInside' /\ CheckpointIn' = CheckpointIn
  BY <1>0, <1>1, <1>4, WatcherFrame
<1>6. HoldInv'
  BY <1>0, <1>2, <1>4, <1>5 DEF PauseInv, HoldInv
<1>7. LeaseInv'
  BY <1>1, <1>4 DEF PauseInv, LeaseInv
<1>8. ~ RunMayWork /\ pools # "stale"
  BY <1>0 DEF PauseInv, QuiescedInv, StaleInv
<1>9. QuiescedInv' /\ StaleInv'
  BY <1>0, <1>1, <1>8 DEF QuiescedInv, RunMayWork, StaleInv
<1> QED
  BY <1>5, <1>6, <1>7, <1>9 DEF PauseInv

LEMMA StartKeeps == ASSUME PauseInv, Pause!StartPause PROVE PauseInv'
<1>0. /\ watcher \in WatcherState /\ state \in StoreState /\ watcher.pc = "reconcile"
      /\ UNCHANGED <<now, stream, copy, pools>> /\ Pause!Report("Pausing", watcher.pause.run)
      /\ watcher.pause.run \in Nat
  BY DEF PauseInv, PauseTypes, Pause!StartPause, WatcherState, PauseRecord
<1>1. /\ state' \in StoreState /\ state'.pause = state.pause /\ state'.runs = state.runs
      /\ state'.successful = state.successful /\ (state'.exists <=> state.exists)
      /\ state'.status = state.status
         \/ state'.status = [state |-> "Pausing", run |-> watcher.pause.run]
  BY <1>0, ReportEffect
<1>2. watcher' = [watcher EXCEPT !.pc = "session"]
  BY DEF Pause!StartPause
<1>3. /\ watcher' \in WatcherState /\ watcher'.pc = "session" /\ watcher'.pause = watcher.pause
      /\ watcher'.held = watcher.held
  BY <1>0, <1>2 DEF WatcherState
<1>4. GateShape' /\ (CheckpointIn' = CheckpointIn \/ Entered("watcher"))
  BY QueueEffect DEF PauseInv, PauseTypes, Pause!StartPause, Pause!Gates
<1>5. Alone' /\ WritersInside' /\ PauseTypes'
  <2>1. Alone'
    BY <1>4, AloneKept DEF PauseInv
  <2> QED
    BY <1>0, <1>1, <1>3, <1>4, <2>1 DEF PauseInv, PauseTypes, WritersInside, Entered
<1>6. HoldInv'
  BY <1>0, <1>3 DEF PauseInv, HoldInv
<1>7. LeaseInv'
  BY <1>1, <1>3 DEF PauseInv, LeaseInv
<1>8. ~ RunMayWork /\ pools # "stale"
  BY <1>0 DEF PauseInv, QuiescedInv, StaleInv
<1>9. QuiescedInv' /\ StaleInv'
  BY <1>0, <1>1, <1>8 DEF QuiescedInv, RunMayWork, StaleInv
<1> QED
  BY <1>5, <1>6, <1>7, <1>9 DEF PauseInv

LEMMA DrainedKeeps == ASSUME PauseInv, Pause!SessionsDrained PROVE PauseInv'
<1>0. /\ watcher \in WatcherState /\ watcher.pc = "session"
      /\ UNCHANGED <<now, stream, copy, state, pools>>
  BY DEF PauseInv, PauseTypes, Pause!SessionsDrained
<1>2. watcher' = [watcher EXCEPT !.pc = "checkpoint"]
  BY DEF Pause!SessionsDrained
<1>3. /\ watcher' \in WatcherState /\ watcher'.pc = "checkpoint" /\ watcher'.pause = watcher.pause
      /\ watcher'.held = watcher.held
  BY <1>0, <1>2 DEF WatcherState
<1>4. GateShape' /\ (CheckpointIn' = CheckpointIn \/ Entered("watcher"))
  BY QueueEffect DEF PauseInv, PauseTypes, Pause!SessionsDrained, Pause!Gates
<1>5. Alone' /\ WritersInside' /\ PauseTypes'
  <2>1. Alone'
    BY <1>4, AloneKept DEF PauseInv
  <2> QED
    BY <1>0, <1>3, <1>4, <2>1 DEF PauseInv, PauseTypes, WritersInside, Entered
<1>6. HoldInv'
  BY <1>0, <1>3 DEF PauseInv, HoldInv
<1>7. LeaseInv'
  BY <1>0, <1>3 DEF PauseInv, LeaseInv
<1>8. ~ RunMayWork /\ pools # "stale"
  BY <1>0 DEF PauseInv, QuiescedInv, StaleInv
<1>9. QuiescedInv' /\ StaleInv'
  BY <1>0, <1>8 DEF QuiescedInv, RunMayWork, StaleInv
<1> QED
  BY <1>5, <1>6, <1>7, <1>9 DEF PauseInv

\* A pause given up before it was held.
LEMMA GivenUp ==
  ASSUME PauseInv, watcher.pc \in {"session", "checkpoint"},
         watcher' = [watcher EXCEPT !.pc = "report", !.pause = Pause!NoPause, !.refresh = FALSE]
  PROVE  /\ watcher' \in WatcherState /\ watcher'.pc = "report" /\ watcher'.held = Pause!NotHeld
         /\ watcher'.pause = Pause!NoPause /\ ~ RunMayWork /\ pools # "stale"
<1>1. watcher \in WatcherState /\ watcher.held = Pause!NotHeld /\ Pause!NoPause \in PauseRecord
  BY DEF PauseInv, PauseTypes, HoldInv, Pause!NoPause, PauseRecord
<1>2. watcher' \in WatcherState /\ watcher'.pc = "report" /\ watcher'.held = watcher.held
      /\ watcher'.pause = Pause!NoPause
  BY <1>1 DEF WatcherState
<1> QED
  BY <1>1, <1>2 DEF PauseInv, QuiescedInv, StaleInv

LEMMA QuiesceKeeps == ASSUME PauseInv, Pause!Quiesce PROVE PauseInv'
<1>0. /\ watcher \in WatcherState /\ state \in StoreState /\ watcher.pc = "checkpoint"
      /\ UNCHANGED <<now, stream, copy, pools>> /\ "watcher" \in CheckpointIn
      /\ watcher.pause \in PauseRecord /\ watcher.pause.run # 0
      /\ Pause!NoPause \in PauseRecord /\ Pause!NoPause.run = 0
  BY DEF PauseInv, PauseTypes, Pause!Quiesce, WatcherState, HoldInv, CheckpointIn, Pause!In,
         Pause!NoPause, PauseRecord
<1>1. CASE watcher.pause.expires <= now
  <2>1. /\ gate' = Pause!Left(Pause!Gates, "watcher") /\ UNCHANGED state
        /\ watcher' = [watcher EXCEPT !.pc = "report", !.pause = Pause!NoPause, !.refresh = FALSE]
    BY <1>1, Zenon DEF Pause!Quiesce
  <2>2. GateShape' /\ (CheckpointIn' = CheckpointIn \/ CheckpointIn' = CheckpointIn \ {"watcher"})
    BY <2>1, LeaveEffect DEF PauseInv, PauseTypes
  <2>3. /\ watcher' \in WatcherState /\ watcher'.pc = "report" /\ watcher'.held = Pause!NotHeld
        /\ watcher'.pause = Pause!NoPause /\ ~ RunMayWork /\ pools # "stale"
    BY <1>0, <2>1, GivenUp
  <2> QED
    BY <1>0, <2>1, <2>2, <2>3, LeavingKeeps
<1>2. CASE ~ (watcher.pause.expires <= now)
  <2>1. PICK b : b = state.up
    OBVIOUS
  <2>2. PICK h : h = [run |-> watcher.pause.run, expires |-> watcher.pause.expires,
                      reported |-> b, refresh |-> watcher.refresh]
    OBVIOUS
  <2>3. /\ Pause!Report("Quiesced", watcher.pause.run) /\ UNCHANGED gate
        /\ watcher' = [pc |-> "poll", pause |-> Pause!NoPause, refresh |-> FALSE, held |-> h]
    BY <1>2, <2>1, <2>2, Zenon DEF Pause!Quiesce
  <2>4. b \in BOOLEAN
    BY <1>0, <2>1 DEF StoreState
  <2>5. h \in HeldRecord /\ h.run = watcher.pause.run /\ h.expires = watcher.pause.expires
    BY <1>0, <2>2, <2>4 DEF WatcherState, PauseRecord, HeldRecord
  <2>6. /\ watcher' \in WatcherState /\ watcher'.pc = "poll" /\ watcher'.held = h
        /\ watcher'.pause = Pause!NoPause
    BY <1>0, <2>3, <2>5 DEF WatcherState
  <2>7. /\ state' \in StoreState /\ state'.pause = state.pause /\ state'.runs = state.runs
        /\ state'.successful = state.successful /\ (state'.exists <=> state.exists)
        /\ state'.status = state.status
           \/ state'.status = [state |-> "Quiesced", run |-> watcher.pause.run]
    BY <1>0, <2>3, ReportEffect DEF PauseRecord
  <2>8. PauseTypes' /\ Alone' /\ WritersInside' /\ CheckpointIn' = CheckpointIn
    BY <1>0, <2>3, <2>6, <2>7, WatcherFrame
  <2>9. HoldInv'
    BY <1>0, <2>5, <2>6, <2>8 DEF HoldInv
  <2>10. LeaseInv'
    BY <1>0, <2>5, <2>6, <2>7 DEF PauseInv, LeaseInv, StoreState
  <2>11. ~ RunMayWork /\ pools # "stale"
    BY <1>0 DEF PauseInv, QuiescedInv, StaleInv
  <2>12. QuiescedInv'
    BY <1>0, <2>5, <2>6, <2>7, <2>11 DEF QuiescedInv, RunMayWork
  <2>13. StaleInv'
    BY <1>0, <2>11 DEF StaleInv
  <2> QED
    BY <2>8, <2>9, <2>10, <2>12, <2>13 DEF PauseInv
<1> QED
  BY <1>1, <1>2

LEMMA TimeoutKeeps == ASSUME PauseInv, Pause!PauseTimesOut PROVE PauseInv'
<1>0. /\ watcher.pc \in {"session", "checkpoint"} /\ UNCHANGED <<now, stream, copy, state, pools>>
      /\ watcher' = [watcher EXCEPT !.pc = "report", !.pause = Pause!NoPause, !.refresh = FALSE]
  BY DEF Pause!PauseTimesOut
<1>1. /\ watcher' \in WatcherState /\ watcher'.pc = "report" /\ watcher'.held = Pause!NotHeld
      /\ watcher'.pause = Pause!NoPause /\ ~ RunMayWork /\ pools # "stale"
  BY <1>0, GivenUp
<1>2. GateShape' /\ CheckpointIn' = CheckpointIn \ {"watcher"}
  BY TimeoutEffect DEF PauseInv, PauseTypes
<1> QED
  BY <1>0, <1>1, <1>2, LeavingKeeps

--------------------------------------------------------------------------------

LEMMA PauseStarts == Pause!Init => PauseInv
<1> SUFFICES ASSUME Pause!Init PROVE PauseInv
  OBVIOUS
<1>1. /\ gate = [g \in Pause!Gates |-> [in |-> {}, queue |-> <<>>]]
      /\ now = 0 /\ stream = "idle" /\ copy = [pc |-> "idle", left |-> MaxAppends]
      /\ pools = "fresh"
  BY DEF Pause!Init
<1>2. GateShape /\ CheckpointIn = {}
  BY <1>1 DEF GateShape, CheckpointIn, Pause!Gates
<1>3. watcher \in WatcherState /\ watcher.pc = "poll" /\ watcher.pause = Pause!NoPause
      /\ watcher.held = Pause!NotHeld /\ Pause!NotHeld.run = 0 /\ Pause!NoPause.run = 0
  BY DEF Pause!Init, WatcherState, PauseRecord, HeldRecord, Pause!NoPause, Pause!NotHeld
<1>4. state \in StoreState /\ state.pause.run = 0 /\ state.runs = 0
  BY DEF Pause!Init, StoreState, PauseRecord, Pause!NoPause
<1>5. PauseTypes
  BY <1>1, <1>2, <1>3, <1>4 DEF PauseTypes
<1>6. Alone /\ WritersInside
  BY <1>1, <1>2 DEF Alone, WritersInside
<1> QED
  BY <1>1, <1>3, <1>4, <1>5, <1>6
  DEF PauseInv, HoldInv, LeaseInv, QuiescedInv, RunMayWork, StaleInv

LEMMA PauseStep ==
  ASSUME PauseInv, ControllerWaits, [Pause!Next]_(Pause!vars)
  PROVE  PauseInv'
<1>1. CASE UNCHANGED Pause!vars
  <2>1. /\ UNCHANGED <<now, watcher, state, pools, copy>> /\ WritersInside' /\ GateShape'
        /\ CheckpointIn' = CheckpointIn
    BY <1>1 DEF Pause!vars, PauseInv, PauseTypes, WritersInside, GateShape, CheckpointIn
  <2> QED
    BY <2>1, ForegroundKeeps DEF PauseInv, PauseTypes
<1>2. CASE Pause!WatcherStep
  BY <1>2, PollKeeps, PollFailsKeeps, ReportAgainKeeps, RefreshKeeps, ReleaseKeeps,
     ReportRunningKeeps, StartKeeps, DrainedKeeps, QuiesceKeeps, TimeoutKeeps, Zenon
  DEF Pause!WatcherStep
<1> QED
  BY <1>1, <1>2, ClockKeeps, GrantKeeps, StreamKeeps, CopyKeeps, HostKeeps, RequestKeeps,
     RunKeeps, StoreKeeps, Zenon DEF Pause!Next

\* With a controller that waits for the replicator to report that it runs
\* again, no write ever uses connections opened before a run that changed the
\* lake underneath them, whatever reports the store loses and whenever a lease
\* expires (HeldPause::pool_refresh_required,
\* recreate_pools_after_external_maintenance).
THEOREM WritesUseFreshPools == ControllerWaits => (Pause!Spec => []FreshPools)
<1> SUFFICES ASSUME ControllerWaits PROVE Pause!Spec => []FreshPools
  OBVIOUS
<1>1. PauseInv => FreshPools
  BY DEF PauseInv, StaleInv, HoldInv, Alone, WritersInside, Pause!Exclusive, FreshPools,
         Pause!FreshPools
<1>2. PauseInv /\ [Pause!Next]_(Pause!vars) => PauseInv'
  BY PauseStep
<1> QED
  BY <1>1, <1>2, PauseStarts, PTL DEF Pause!Spec

--------------------------------------------------------------------------------
(* The inductive invariant of the replay.                                   *)

Tasks == {"cur", "old"}

TaskRecord ==
  [pc : {"none", "next", "cursor", "ready", "acquire", "chunk", "batch", "ddl", "store"},
   then : {"none", "past", "cursor", "acquire"}, at : Nat, to : Nat, end : Nat, first : Nat,
   last : Nat, epoch : Int, known : Int, target : Int]

LakeWorker ==
  [phase : {"drop", "drop_table", "complete", "prepare", "create", "create_table",
            "create_store", "copying", "stream", "failed", "stopped", "recover",
            "recover_store"},
   copied : BOOLEAN, resets : Nat, manual : BOOLEAN, sent : Lake!Positions,
   acked : Lake!Positions, checkpoint : Lake!Positions, reach : Lake!Positions]

LakeShape ==
  /\ lake = [shape |-> lake.shape, rows |-> lake.rows, progress |-> lake.progress,
             markers |-> lake.markers]
  /\ lake.rows \in [Lake!Positions -> Nat]
  /\ lake.progress \in [Lake!Epochs -> Lake!Positions \cup {Lake!None}]

LakeTypes ==
  /\ LakeShape
  /\ epoch \in [current : Lake!Epochs, pending : Int]
  /\ lakeMeta \in [state : {"none", "creating", "applying", "applied"}, snapshot : Int]
  /\ cache \in [epoch : Int, key : Int] /\ slot \in {"free", "cur", "old"}
  /\ lakeRun \in [Tasks -> TaskRecord]
  /\ lakeCopy \in [buffered : BOOLEAN, at : Lake!Positions, accepted : SUBSET Lake!Positions,
                   staged : SUBSET Lake!Positions]
  /\ lakeWorker \in LakeWorker /\ lakeFaults \in 0 .. MaxFaults

Watermark == lake.progress[epoch.current]
Marked == {r \in Lake!Positions : <<epoch.current, r>> \in lake.markers}
Indicator(S) == [i \in Lake!Positions |-> IF i \in S THEN 1 ELSE 0]

\* The last event whose effect the table has, relations apart.
Effected == IF Watermark = Lake!None THEN lakeCopy.at ELSE Watermark

\* Relation events carry no sequence key, and no rows.
Keyless(i, j) == \A k \in i + 1 .. j : LakeSource[k] = "relation"

\* The table has the effect of every event up to i.
Covered(i) == i <= Effected \/ Keyless(Effected, i)

\* A reset or a fault pays for every rotation of the epoch.
Unpaid ==
  /\ ~lakeWorker.copied
  /\ lakeWorker.phase \notin {"prepare", "create", "create_table", "create_store", "copying"}

EpochInv ==
  /\ epoch.pending \in {Lake!None, epoch.current + 1}
  /\ lakeWorker.phase \in {"drop_table", "complete"} => epoch.pending # Lake!None
  /\ epoch.current + (IF Unpaid THEN 1 ELSE 0) <= lakeWorker.resets + lakeFaults
  /\ lakeWorker.resets <= MaxResets
  /\ \A e \in Lake!Epochs : e > epoch.current =>
       lake.progress[e] = Lake!None /\ \A r \in Lake!Positions : <<e, r>> \notin lake.markers

Unwritten == lake.rows = Lake!NoRows /\ Watermark = Lake!None /\ Marked = {}

\* A copy starts into an empty table of an epoch without history.
UnwrittenInv ==
  /\ lakeWorker.phase \in {"prepare", "create", "create_table", "create_store"} => Unwritten
  /\ lakeWorker.phase = "complete" => lake.rows = Lake!NoRows
  /\ lakeWorker.phase \in {"create_table", "create_store"} =>
       lakeCopy.accepted = {} /\ lakeCopy.staged = {}
  /\ lakeMeta.state = "none" => Unwritten /\ lakeMeta = Lake!NoMetadata
  /\ lakeWorker.copied \/ lakeWorker.phase \in {"create_table", "create_store", "copying"} =>
       lakeMeta.state # "none"

\* The rows of a copy are those with a marker; the others accepted are staged.
StagedInv ==
  lakeWorker.phase = "copying" =>
    /\ lake.rows = Indicator(Marked) /\ Watermark = Lake!None
    /\ Marked \subseteq Lake!RowsAt(lakeCopy.at) /\ lakeCopy.staged \subseteq Lake!RowsAt(lakeCopy.at)
    /\ lakeCopy.accepted \subseteq Marked \cup lakeCopy.staged
    /\ ~lakeCopy.buffered => lakeCopy.staged = {}

\* A copied table holds the rows after the event at its watermark, and every
\* position written down is covered.
ReplayInv ==
  lakeWorker.copied =>
    /\ lakeWorker.phase \in {"stream", "failed", "stopped", "recover", "recover_store"}
    /\ lake.rows = Indicator(Lake!RowsAt(Effected))
    /\ lakeCopy.at <= Effected /\ Effected <= lakeWorker.reach
    /\ lakeCopy.at <= lakeWorker.checkpoint /\ lakeWorker.checkpoint <= lakeWorker.acked
    /\ lakeWorker.acked <= lakeWorker.sent /\ lakeWorker.sent <= lakeWorker.reach
    /\ Covered(lakeWorker.checkpoint) /\ Covered(lakeWorker.acked)

\* Who may write, and what the worker knows of it.
TasksInv ==
  /\ ~lakeWorker.copied => \A x \in Tasks : lakeRun[x].pc = "none"
  /\ lakeWorker.phase = "stream" => lakeWorker.copied
  /\ lakeRun["cur"].pc # "none" =>
       lakeWorker.phase = "stream" /\ lakeWorker.sent = lakeRun["cur"].to
  /\ lakeWorker.phase = "stream" /\ lakeRun["cur"].pc = "none" =>
       lakeWorker.sent = lakeWorker.acked
  /\ \A x \in Tasks : slot = x <=> lakeRun[x].pc \in {"chunk", "batch"}

\* The watermark the process has confirmed is the durable one.
CacheInv ==
  /\ cache.epoch # Lake!None => cache.epoch = epoch.current /\ cache.key = Watermark
  /\ lakeWorker.phase \in {"drop_table", "complete"} => cache = Lake!Unknown

After(t, pc) == t.pc \in {"ddl", "store"} /\ t.then = pc

\* Where a task is in its events, and that what precedes is covered.
TaskOK(t) ==
  t.pc # "none" =>
    /\ lakeCopy.at < t.at /\ t.at <= t.to + 1 /\ t.to <= lakeWorker.reach
    /\ Covered(t.at - 1)
    /\ t.pc # "next" =>
         /\ t.at <= t.end /\ t.end <= t.to
         /\ \A k \in t.at .. t.end : LakeSource[k] = LakeSource[t.at]
    /\ t.pc \in {"ddl", "store"} => t.then # "none"
    /\ IF After(t, "past") THEN LakeSource[t.at] = "relation" /\ t.end = t.at
       ELSE t.pc # "next" => LakeSource[t.at] \in {"row", "truncate"}
    /\ t.pc \in {"ready", "acquire", "chunk", "batch"} \/ After(t, "acquire") =>
         t.epoch = epoch.current /\ t.at <= t.first /\ t.first <= t.end /\ Covered(t.first - 1)
    /\ t.pc = "batch" =>
         /\ t.first <= t.last /\ t.last <= t.end
         /\ LakeSource[t.at] = "truncate" => t.last = t.end
         /\ t.known # Lake!None => t.known = Watermark
         /\ cache = Lake!Unknown

LakeInv ==
  /\ LakeTypes /\ EpochInv /\ UnwrittenInv /\ StagedInv /\ ReplayInv /\ TasksInv /\ CacheInv
  /\ \A x \in Tasks : TaskOK(lakeRun[x])

--------------------------------------------------------------------------------
(* Facts about the source and the operators.                                *)

USE DEF Lake!None

LEMMA SourceFacts ==
  /\ Len(LakeSource) \in Nat /\ Lake!Positions = 0 .. Len(LakeSource)
  /\ \A k \in 1 .. Len(LakeSource) : LakeSource[k] \in {"row", "truncate", "relation"}
<1>1. LakeSource \in Seq({"row", "truncate", "relation"})
  BY LakeAssumption
<1>2. Len(LakeSource) \in Nat
  BY <1>1, LenProperties
<1>3. \A k \in 1 .. Len(LakeSource) : LakeSource[k] \in {"row", "truncate", "relation"}
  BY <1>1, ElementOfSeq
<1> QED
  BY <1>2, <1>3 DEF Lake!Positions

LEMMA LakeMax ==
  ASSUME NEW a \in Int, NEW b \in Int
  PROVE  LET m == Lake!Max({a, b}) IN m \in {a, b} /\ m >= a /\ m >= b
<1>1. \E x \in {a, b} : \A y \in {a, b} : x >= y
  OBVIOUS
<1> QED
  BY <1>1 DEF Lake!Max

LEMMA LeastNatural ==
  ASSUME NEW S, S \subseteq Nat, S # {}
  PROVE  \E m \in S : \A s \in S : m <= s
<1>1. PICK m \in S : \A s \in S : ~ (<<s, m>> \in OpToRel(<, Nat))
  BY NatLessThanWellFounded, WFMin, Zenon
<1>2. \A s \in S : ~ (s < m)
  BY <1>1 DEF OpToRel
<1> QED
  BY <1>2

\* A run of equal events lies within its bounds.
LEMMA LastOfRunFacts ==
  ASSUME NEW i \in Nat, NEW to \in Nat, i <= to
  PROVE  /\ Lake!LastOfRun(i, to) \in i .. to
         /\ \A j \in i .. Lake!LastOfRun(i, to) : LakeSource[j] = LakeSource[i]
<1> DEFINE R == {k \in i .. to : \A j \in i .. k : LakeSource[j] = LakeSource[i]}
           D == {to - k : k \in R}
<1>1. i \in R /\ R \subseteq i .. to
  OBVIOUS
<1>2. PICK d \in D : \A e \in D : d <= e
  <2>1. D \subseteq Nat /\ D # {}
    BY <1>1
  <2> HIDE DEF D
  <2> QED
    BY <2>1, LeastNatural
<1>3. PICK m \in R : d = to - m
  OBVIOUS
<1>4. \A k \in R : m >= k
  <2> SUFFICES ASSUME NEW k \in R PROVE m >= k
    OBVIOUS
  <2>1. to - k \in D
    OBVIOUS
  <2>2. d <= to - k
    BY <1>2, <2>1
  <2> HIDE DEF R, D
  <2> QED
    BY <1>1, <1>3, <2>2
<1> HIDE DEF R
<1>5. Lake!Max(R) \in R
  BY <1>4 DEF Lake!Max
<1> QED
  BY <1>1, <1>5 DEF Lake!LastOfRun, R

\* A schema snapshot is a number.
LEMMA SnapshotType == ASSUME NEW i \in Nat PROVE Lake!SnapshotAt(i) \in Nat
<1> DEFINE S == {j \in 1 .. i : LakeSource[j] = "relation"}
<1>1. IsFiniteSet(1 .. i)
  BY FS_Interval
<1>2. S \subseteq 1 .. i
  OBVIOUS
<1>3. Cardinality(S) \in Nat
  <2> HIDE DEF S
  <2> QED
    BY <1>1, <1>2, FS_Subset, FS_CardinalityType
<1>4. Lake!Cardinality(S) = Cardinality(S)
  <2> HIDE DEF S
  <2> QED
    BY DEF Lake!Cardinality, Cardinality
<1> QED
  BY <1>3, <1>4 DEF Lake!SnapshotAt

LEMMA RowsInSource ==
  ASSUME NEW i \in Lake!Positions
  PROVE  Lake!RowsAt(i) \subseteq 1 .. i /\ Lake!RowsAt(i) \subseteq Lake!Positions
BY SourceFacts DEF Lake!RowsAt

\* Relations change no rows.
LEMMA RowsKeyless ==
  ASSUME NEW i \in Lake!Positions, NEW j \in Lake!Positions, i <= j, Keyless(i, j)
  PROVE  Lake!RowsAt(i) = Lake!RowsAt(j)
<1>1. \A k \in 1 .. j : k \in i + 1 .. j => LakeSource[k] = "relation"
  BY DEF Keyless
<1>2. \A k \in 1 .. j : k \in 1 .. i \/ k \in i + 1 .. j
  BY SourceFacts
<1> QED
  BY <1>1, <1>2, SourceFacts DEF Lake!RowsAt

\* Rows add to the rows.
LEMMA RowsAppended ==
  ASSUME NEW i \in Lake!Positions, NEW j \in Lake!Positions, i <= j,
         \A k \in i + 1 .. j : LakeSource[k] = "row"
  PROVE  Lake!RowsAt(j) = Lake!RowsAt(i) \cup (i + 1 .. j)
<1>1. \A k \in 1 .. j : k \in 1 .. i \/ k \in i + 1 .. j
  BY SourceFacts
<1> QED
  BY <1>1, SourceFacts DEF Lake!RowsAt

\* A truncate leaves none.
LEMMA RowsTruncated ==
  ASSUME NEW i \in Lake!Positions, i >= 1, LakeSource[i] = "truncate"
  PROVE  Lake!RowsAt(i) = {}
BY SourceFacts DEF Lake!RowsAt

LEMMA EffectedType ==
  ASSUME LakeTypes
  PROVE  /\ Watermark \in Lake!Positions \cup {Lake!None} /\ Effected \in Lake!Positions
         /\ Effected \in Nat
BY SourceFacts DEF LakeTypes, LakeShape, Watermark, Effected

LEMMA KeylessLater ==
  ASSUME NEW a \in Nat, NEW b \in Nat, a <= b, NEW i \in Int, Keyless(a, i)
  PROVE  Keyless(b, i)
BY DEF Keyless

\* What is covered stays covered as the table goes on.
LEMMA CoveredStays ==
  ASSUME Effected \in Nat, Effected' \in Nat, Effected <= Effected', NEW i \in Int, Covered(i)
  PROVE  Covered(i)'
<1>1. CASE i <= Effected'
  BY <1>1 DEF Covered
<1>2. CASE ~ (i <= Effected')
  <2>1. Keyless(Effected, i)
    BY <1>2 DEF Covered
  <2>2. PICK a \in Nat : a = Effected
    OBVIOUS
  <2>3. PICK b \in Nat : b = Effected'
    OBVIOUS
  <2>4. Keyless(b, i)
    BY <2>1, <2>2, <2>3, KeylessLater
  <2> QED
    BY <2>3, <2>4, Zenon DEF Covered
<1> QED
  BY <1>1, <1>2

\* A relation is covered with the events before it.
LEMMA CoveredRelation ==
  ASSUME Effected \in Nat, NEW i \in Nat, Covered(i - 1), LakeSource[i] = "relation"
  PROVE  Covered(i)
<1>1. CASE i <= Effected
  BY <1>1 DEF Covered
<1>2. CASE i > Effected
  <2>1. \A k \in Effected + 1 .. i - 1 : LakeSource[k] = "relation"
    BY <1>2 DEF Covered, Keyless
  <2>2. \A k \in Effected + 1 .. i : k = i \/ k \in Effected + 1 .. i - 1
    OBVIOUS
  <2> QED
    BY <2>1, <2>2 DEF Covered, Keyless
<1> QED
  BY <1>1, <1>2

--------------------------------------------------------------------------------
(* What a write task may do to the table.                                   *)

\* The table stays where it is or goes on to a later event of those dispatched.
Advances ==
  /\ LakeShape'
  /\ lake'.markers = lake.markers
  /\ \A e \in Lake!Epochs : e # epoch.current => lake'.progress[e] = lake.progress[e]
  /\ lake'.rows = Indicator(Lake!RowsAt(Effected'))
  /\ Effected' \in Nat /\ Effected <= Effected' /\ Effected' <= lakeWorker.reach

\* A step that leaves rows, watermarks and markers alone.
LEMMA UnmovedAdvances ==
  ASSUME LakeInv, lakeWorker.copied, epoch' = epoch, lakeCopy' = lakeCopy, LakeShape',
         lake'.rows = lake.rows, lake'.progress = lake.progress, lake'.markers = lake.markers
  PROVE  Advances /\ Watermark' = Watermark
<1>1. LakeTypes /\ ReplayInv
  BY DEF LakeInv
<1>2. Watermark' = Watermark /\ Effected' = Effected
  BY DEF Watermark, Effected
<1>3. Effected \in Nat /\ lakeWorker.reach \in Nat
  BY <1>1, EffectedType, SourceFacts DEF LakeTypes, LakeWorker
<1>4. lake.rows = Indicator(Lake!RowsAt(Effected)) /\ Effected <= lakeWorker.reach
  BY <1>1 DEF ReplayInv
<1>5. lake'.rows = Indicator(Lake!RowsAt(Effected'))
  BY <1>2, <1>4, Zenon
<1> QED
  BY <1>2, <1>3, <1>4, <1>5 DEF Advances

\* The shape of the table holds nothing else of it.
LEMMA AlteredShape ==
  ASSUME LakeInv, NEW target, lake' \in {lake, Lake!Altered(target)}
  PROVE  /\ LakeShape' /\ lake'.rows = lake.rows /\ lake'.progress = lake.progress
         /\ lake'.markers = lake.markers
<1>1. LakeShape
  BY DEF LakeInv, LakeTypes
<1>2. CASE lake' = lake
  BY <1>1, <1>2 DEF LakeShape
<1>3. CASE lake' = Lake!Altered(target)
  <2>1. PICK m : m = Lake!Max({lake.shape, target})
    OBVIOUS
  <2>2. lake' = [lake EXCEPT !.shape = m]
    BY <1>3, <2>1 DEF Lake!Altered
  <2> QED
    BY <1>1, <2>2 DEF LakeShape
<1> QED
  BY <1>2, <1>3

\* What holds of a task that is about to commit a batch.
LEMMA BatchFacts ==
  ASSUME LakeInv, NEW x \in Tasks, lakeRun[x].pc = "batch"
  PROVE  LET t == lakeRun[x] IN
         /\ t \in TaskRecord /\ lakeWorker.copied /\ slot = x /\ cache = Lake!Unknown
         /\ lakeCopy.at < t.at /\ t.at <= t.first /\ t.first <= t.last /\ t.last <= t.end
         /\ t.end <= t.to /\ t.to <= lakeWorker.reach /\ t.last \in Lake!Positions
         /\ t.epoch = epoch.current /\ epoch.current \in Lake!Epochs
         /\ \A k \in t.at .. t.end : LakeSource[k] = LakeSource[t.at]
         /\ LakeSource[t.at] \in {"row", "truncate"}
         /\ LakeSource[t.at] = "truncate" => t.last = t.end
         /\ Covered(t.first - 1) /\ Lake!Progress(x) = Watermark
<1> DEFINE t == lakeRun[x]
<1>1. t \in TaskRecord /\ LakeTypes /\ TasksInv /\ TaskOK(t)
  BY DEF LakeInv, LakeTypes
<1>2. lakeWorker.copied /\ slot = x
  BY <1>1 DEF TasksInv
<1>3. /\ lakeCopy.at < t.at /\ t.at <= t.first /\ t.first <= t.last /\ t.last <= t.end
      /\ t.end <= t.to /\ t.to <= lakeWorker.reach
      /\ t.epoch = epoch.current
      /\ \A k \in t.at .. t.end : LakeSource[k] = LakeSource[t.at]
      /\ LakeSource[t.at] = "truncate" => t.last = t.end
      /\ t.known # Lake!None => t.known = Watermark
      /\ Covered(t.first - 1) /\ cache = Lake!Unknown
  <2> HIDE DEF t
  <2>1. t.pc = "batch"
    BY DEF t
  <2> QED
    BY <1>1, <2>1 DEF TaskOK
<1>4. LakeSource[t.at] \in {"row", "truncate"}
  <2> HIDE DEF t
  <2>1. t.pc = "batch"
    BY DEF t
  <2> QED
    BY <1>1, <2>1 DEF TaskOK, After
<1>5. epoch.current \in Lake!Epochs /\ lakeWorker.reach \in Lake!Positions
  BY <1>1 DEF LakeTypes, LakeWorker
<1>6. t.last \in Lake!Positions
  BY <1>1, <1>3, <1>5, SourceFacts DEF TaskRecord
<1>7. Lake!Progress(x) = Watermark
  BY <1>3 DEF Lake!Progress, Watermark
<1> QED
  BY <1>1, <1>2, <1>3, <1>4, <1>5, <1>6, <1>7

\* A batch is applied only where the table has the events before it and none
\* of its own; its rows and its watermark move together.
LEMMA AppliedAdvances ==
  ASSUME LakeInv, NEW x \in Tasks, lakeRun[x].pc = "batch", Lake!Decision(x) = "apply",
         epoch' = epoch, lakeCopy' = lakeCopy, lake' = Lake!Applied(x)
  PROVE  Advances /\ Watermark' = lakeRun[x].last
<1>1. PICK t : t = lakeRun[x]
  OBVIOUS
<1>2. /\ t \in TaskRecord /\ lakeWorker.copied /\ slot = x
      /\ lakeCopy.at < t.at /\ t.at <= t.first /\ t.first <= t.last /\ t.last <= t.end
      /\ t.end <= t.to /\ t.to <= lakeWorker.reach /\ t.last \in Lake!Positions
      /\ t.epoch = epoch.current /\ epoch.current \in Lake!Epochs
      /\ \A k \in t.at .. t.end : LakeSource[k] = LakeSource[t.at]
      /\ LakeSource[t.at] \in {"row", "truncate"}
      /\ LakeSource[t.at] = "truncate" => t.last = t.end
      /\ Covered(t.first - 1) /\ Lake!Progress(x) = Watermark
  BY <1>1, BatchFacts, Zenon
<1>3. /\ t.at \in Nat /\ t.first \in Nat /\ t.last \in Nat /\ t.end \in Nat /\ t.to \in Nat
      /\ LakeTypes /\ LakeShape /\ ReplayInv /\ lakeCopy.at \in Nat /\ lakeWorker.reach \in Nat
  <2>1. LakeTypes /\ LakeShape /\ ReplayInv
    BY DEF LakeInv, LakeTypes
  <2>2. t.at \in Nat /\ t.first \in Nat /\ t.last \in Nat /\ t.end \in Nat /\ t.to \in Nat
    BY <1>2 DEF TaskRecord
  <2>3. lakeCopy.at \in Nat /\ lakeWorker.reach \in Nat
    BY <2>1, SourceFacts DEF LakeTypes, LakeWorker
  <2> QED
    BY <2>1, <2>2, <2>3
<1>4. Watermark < t.first /\ Watermark \in Lake!Positions \cup {Lake!None}
  <2>1. Watermark \in Lake!Positions \cup {Lake!None} /\ Watermark \in Int
    BY <1>3, EffectedType, SourceFacts
  <2>2. ~ (Watermark >= t.last) /\ ~ (Watermark >= t.first /\ Watermark < t.last)
    BY <1>1, <1>2, <2>1 DEF Lake!Decision
  <2> QED
    BY <1>3, <2>1, <2>2
<1>5. Effected \in Nat /\ Effected \in Lake!Positions /\ Effected <= t.first - 1
  BY <1>2, <1>3, <1>4, EffectedType, SourceFacts DEF Effected
<1>6. PICK m : m = Lake!Max({Watermark, t.last})
  OBVIOUS
<1>7. m = t.last
  <2>1. Watermark \in Int /\ t.last \in Int /\ Watermark < t.last
    BY <1>2, <1>3, <1>4, SourceFacts
  <2>2. m \in {Watermark, t.last} /\ m >= Watermark /\ m >= t.last
    BY <1>6, <2>1, LakeMax, Zenon
  <2> QED
    BY <2>1, <2>2
<1>8. PICK rows : rows = [i \in Lake!Positions |->
                 IF Lake!AtEvent(x, "truncate") THEN 0
                 ELSE IF i \in t.first .. t.last THEN lake.rows[i] + 1 ELSE lake.rows[i]]
  OBVIOUS
<1>9. PICK progress : progress = [lake.progress EXCEPT ![epoch.current] = t.last]
  OBVIOUS
<1>10. lake' = [lake EXCEPT !.rows = rows, !.progress = progress]
  BY <1>1, <1>2, <1>6, <1>7, <1>8, <1>9 DEF Lake!Applied, Watermark
<1>11. /\ LakeShape' /\ lake'.markers = lake.markers /\ lake'.rows = rows
       /\ \A e \in Lake!Epochs : e # epoch.current => lake'.progress[e] = lake.progress[e]
       /\ lake'.progress[epoch.current] = t.last
  <2>1. rows \in [Lake!Positions -> Nat]
    BY <1>3, <1>8 DEF LakeShape
  <2>2. progress \in [Lake!Epochs -> Lake!Positions \cup {Lake!None}]
    BY <1>2, <1>3, <1>9 DEF LakeShape
  <2>3. /\ \A e \in Lake!Epochs : e # epoch.current => progress[e] = lake.progress[e]
        /\ progress[epoch.current] = t.last
    BY <1>2, <1>3, <1>9 DEF LakeShape
  <2> QED
    BY <1>3, <1>10, <2>1, <2>2, <2>3 DEF LakeShape
<1>12. Watermark' = t.last /\ Effected' = t.last
  BY <1>3, <1>11 DEF Watermark, Effected
<1>13. rows = Indicator(Lake!RowsAt(t.last))
  <2>1. Lake!AtEvent(x, "truncate") <=> LakeSource[t.at] = "truncate"
    BY <1>1, <1>2, <1>3 DEF Lake!AtEvent
  <2>2. CASE LakeSource[t.at] = "truncate"
    <3>1. LakeSource[t.last] = "truncate" /\ t.last >= 1
      BY <1>2, <1>3, <2>2
    <3>2. Lake!RowsAt(t.last) = {}
      BY <1>2, <3>1, RowsTruncated
    <3> QED
      BY <1>8, <2>1, <2>2, <3>2 DEF Indicator
  <2>3. CASE LakeSource[t.at] = "row"
    <3>1. PICK p : p = t.first - 1
      OBVIOUS
    <3>2. p \in Lake!Positions /\ Effected <= p /\ p <= t.last
      BY <1>2, <1>3, <1>5, <3>1, SourceFacts
    <3>3. Lake!RowsAt(Effected) = Lake!RowsAt(p)
      <4>1. CASE Effected = p
        BY <4>1
      <4>2. CASE Effected # p
        <5>1. Keyless(Effected, p)
          BY <1>2, <1>3, <1>5, <3>1, <4>2 DEF Covered
        <5> QED
          BY <1>5, <3>2, <5>1, RowsKeyless
      <4> QED
        BY <4>1, <4>2
    <3>4. \A k \in p + 1 .. t.last : LakeSource[k] = "row"
      BY <1>2, <1>3, <2>3, <3>1
    <3>5. Lake!RowsAt(t.last) = Lake!RowsAt(p) \cup (p + 1 .. t.last)
      BY <1>2, <3>2, <3>4, RowsAppended
    <3>6. Lake!RowsAt(p) \subseteq 1 .. p
      BY <3>2, RowsInSource
    <3>7. lake.rows = Indicator(Lake!RowsAt(p))
      BY <1>2, <1>3, <3>3 DEF ReplayInv
    <3>8. \A i \in Lake!Positions : i \in t.first .. t.last <=> i \in p + 1 .. t.last
      BY <1>3, <3>1
    <3>9. \A i \in Lake!Positions :
            rows[i] = IF i \in Lake!RowsAt(t.last) THEN 1 ELSE 0
      <4> SUFFICES ASSUME NEW i \in Lake!Positions
                   PROVE  rows[i] = IF i \in Lake!RowsAt(t.last) THEN 1 ELSE 0
        OBVIOUS
      <4>1. rows[i] = IF i \in p + 1 .. t.last THEN lake.rows[i] + 1 ELSE lake.rows[i]
        BY <1>8, <2>1, <2>3, <3>8
      <4>2. lake.rows[i] = IF i \in Lake!RowsAt(p) THEN 1 ELSE 0
        BY <3>7 DEF Indicator
      <4>3. i \in Lake!RowsAt(p) => i \notin p + 1 .. t.last
        BY <3>2, <3>6, SourceFacts
      <4> QED
        BY <3>5, <4>1, <4>2, <4>3
    <3> QED
      BY <1>8, <3>9 DEF Indicator
  <2> QED
    BY <1>2, <2>2, <2>3
<1>14. lake'.rows = Indicator(Lake!RowsAt(Effected'))
  BY <1>11, <1>12, <1>13, Zenon
<1> QED
  BY <1>1, <1>2, <1>3, <1>5, <1>11, <1>12, <1>14 DEF Advances

--------------------------------------------------------------------------------
(* How a step of a copied table keeps the invariant.                        *)

CopiedPhases == {"stream", "failed", "stopped", "recover", "recover_store"}
MetaRecord == [state : {"none", "creating", "applying", "applied"}, snapshot : Int]

LEMMA TaskOKNext ==
  ASSUME NEW t, NEW x, lakeRun'[x] = t, TaskOK(t)'
  PROVE  TaskOK(lakeRun[x])'
BY DEF TaskOK, Covered, After, Keyless

LEMMA TaskKept ==
  ASSUME LakeInv, Advances, epoch' = epoch, lakeCopy' = lakeCopy,
         lakeWorker'.reach \in Nat, lakeWorker.reach <= lakeWorker'.reach,
         NEW t \in TaskRecord, TaskOK(t),
         t.pc = "batch" => Watermark' = Watermark /\ cache' = cache
  PROVE  TaskOK(t)'
<1>1. Effected \in Nat /\ Effected' \in Nat /\ Effected <= Effected'
  BY EffectedType DEF LakeInv, Advances
<1>2. \A i \in Int : Covered(i) => Covered(i)'
  BY <1>1, CoveredStays
<1>3. lakeWorker.reach \in Nat /\ lakeCopy.at \in Nat
  BY SourceFacts DEF LakeInv, LakeTypes, LakeWorker
<1>4. t.at - 1 \in Int /\ t.first - 1 \in Int /\ t.to \in Nat
  BY DEF TaskRecord
<1>5. Covered(t.at - 1) => Covered(t.at - 1)'
  BY <1>2, <1>4
<1>6. Covered(t.first - 1) => Covered(t.first - 1)'
  BY <1>2, <1>4
<1> QED
  BY <1>3, <1>4, <1>5, <1>6 DEF TaskOK, After

\* Everything but the tasks and the confirmed watermark.
LEMMA CopiedTableKept ==
  ASSUME LakeInv, lakeWorker.copied, Advances, epoch' = epoch, lakeCopy' = lakeCopy,
         lakeFaults' \in 0 .. MaxFaults, lakeFaults <= lakeFaults',
         lakeMeta' \in MetaRecord, lakeMeta'.state # "none",
         cache' \in [epoch : Int, key : Int], slot' \in {"free", "cur", "old"},
         lakeRun' \in [Tasks -> TaskRecord],
         lakeWorker' \in LakeWorker, lakeWorker'.copied, lakeWorker'.phase \in CopiedPhases,
         lakeWorker'.resets = lakeWorker.resets, lakeWorker.reach <= lakeWorker'.reach,
         lakeCopy.at <= lakeWorker'.checkpoint, lakeWorker'.checkpoint <= lakeWorker'.acked,
         lakeWorker'.acked <= lakeWorker'.sent, lakeWorker'.sent <= lakeWorker'.reach,
         Covered(lakeWorker.checkpoint)', Covered(lakeWorker.acked)'
  PROVE  LakeTypes' /\ EpochInv' /\ UnwrittenInv' /\ StagedInv' /\ ReplayInv'
<1>1. LakeTypes /\ EpochInv /\ ReplayInv
  BY DEF LakeInv
<1>2. LakeTypes'
  BY <1>1 DEF LakeTypes, Advances, MetaRecord
<1>3. EpochInv'
  <2>1. epoch.current \in Int /\ lakeFaults \in Nat /\ lakeFaults' \in Nat /\ MaxFaults \in Nat
        /\ \A e \in Lake!Epochs : e \in Int
    BY <1>1, LakeAssumption DEF LakeTypes, Lake!Epochs
  <2>2. lakeWorker.resets \in Nat
    BY <1>1 DEF LakeTypes, LakeWorker
  <2>3. \A e \in Lake!Epochs : e > epoch.current =>
          lake'.progress[e] = Lake!None /\ \A r \in Lake!Positions : <<e, r>> \notin lake'.markers
    BY <1>1, <2>1 DEF EpochInv, Advances
  <2>4. /\ epoch'.pending \in {Lake!None, epoch'.current + 1}
        /\ lakeWorker'.phase \notin {"drop_table", "complete"} /\ ~ Unpaid /\ ~ Unpaid'
        /\ lakeWorker'.resets <= MaxResets
    BY <1>1 DEF EpochInv, CopiedPhases, Unpaid
  <2>5. epoch'.current + 0 <= lakeWorker'.resets + lakeFaults'
    BY <1>1, <2>1, <2>2, <2>4 DEF EpochInv
  <2> QED
    BY <2>3, <2>4, <2>5 DEF EpochInv
<1>4. UnwrittenInv' /\ StagedInv'
  BY DEF UnwrittenInv, StagedInv, CopiedPhases
<1>5. ReplayInv'
  <2>1. lakeWorker.reach \in Nat /\ lakeWorker'.reach \in Nat /\ lakeCopy.at \in Nat
    BY <1>1, SourceFacts DEF LakeTypes, LakeWorker
  <2>2. Effected \in Nat /\ lakeCopy.at <= Effected
    BY <1>1, EffectedType DEF ReplayInv
  <2>3. lakeCopy.at <= Effected' /\ Effected' <= lakeWorker'.reach
    BY <2>1, <2>2 DEF Advances
  <2>4. lake'.rows = Indicator(Lake!RowsAt(Effected'))
    BY DEF Advances
  <2> QED
    BY <2>3, <2>4 DEF ReplayInv, CopiedPhases
<1> QED
  BY <1>2, <1>3, <1>4, <1>5

\* A step of task x that leaves the worker alone; r is the task after it.
LEMMA TaskMoves ==
  ASSUME LakeInv, NEW x \in Tasks, lakeRun[x].pc # "none", Advances,
         NEW r \in TaskRecord, lakeRun' = [lakeRun EXCEPT ![x] = r],
         r.pc # "none", r.to = lakeRun[x].to, TaskOK(r)',
         epoch' = epoch, lakeCopy' = lakeCopy, lakeWorker' = lakeWorker,
         lakeFaults' \in 0 .. MaxFaults, lakeFaults <= lakeFaults',
         lakeMeta' \in MetaRecord, lakeMeta'.state # "none",
         slot' \in {"free", "cur", "old"}, slot' = x <=> r.pc \in {"chunk", "batch"},
         \A y \in Tasks \ {x} : slot' = y <=> slot = y,
         cache' \in [epoch : Int, key : Int],
         cache'.epoch # Lake!None => cache'.epoch = epoch.current /\ cache'.key = Watermark',
         slot \in Tasks \ {x} => Watermark' = Watermark /\ cache' = cache
  PROVE  LakeInv'
<1>1. LakeTypes /\ ReplayInv /\ TasksInv /\ CacheInv
  BY DEF LakeInv
<1>2. lakeWorker.copied /\ lakeRun \in [Tasks -> TaskRecord] /\ lakeWorker \in LakeWorker
  BY <1>1 DEF TasksInv, LakeTypes
<1>3. lakeRun'[x] = r /\ (\A y \in Tasks \ {x} : lakeRun'[y] = lakeRun[y])
      /\ lakeRun' \in [Tasks -> TaskRecord]
  BY <1>2
<1>4. lakeWorker.phase \in CopiedPhases
  BY <1>1, <1>2 DEF ReplayInv, CopiedPhases
<1>5. Effected \in Nat /\ Effected' \in Nat /\ Effected <= Effected'
  BY <1>1, EffectedType DEF Advances
<1>6. lakeWorker.checkpoint \in Int /\ lakeWorker.acked \in Int /\ lakeWorker.reach \in Nat
  BY <1>2, SourceFacts DEF LakeWorker
<1>7. Covered(lakeWorker.checkpoint)' /\ Covered(lakeWorker.acked)'
  <2>1. PICK c \in Int : c = lakeWorker.checkpoint
    BY <1>6
  <2>2. PICK a \in Int : a = lakeWorker.acked
    BY <1>6
  <2>3. Covered(c) /\ Covered(a)
    BY <1>1, <1>2, <2>1, <2>2, Zenon DEF ReplayInv
  <2>4. Covered(c)' /\ Covered(a)'
    BY <1>5, <2>3, CoveredStays
  <2> QED
    BY <2>1, <2>2, <2>4 DEF Covered, Keyless
<1>8. LakeTypes' /\ EpochInv' /\ UnwrittenInv' /\ StagedInv' /\ ReplayInv'
  <2>1. /\ lakeCopy.at <= lakeWorker'.checkpoint /\ lakeWorker'.checkpoint <= lakeWorker'.acked
        /\ lakeWorker'.acked <= lakeWorker'.sent /\ lakeWorker'.sent <= lakeWorker'.reach
        /\ lakeWorker.reach <= lakeWorker'.reach
    BY <1>1, <1>2, <1>6 DEF ReplayInv
  <2> QED
    BY <1>2, <1>3, <1>4, <1>7, <2>1, CopiedTableKept
<1>9. TasksInv'
  <2>1. \A y \in Tasks : lakeRun'[y].pc # "none" <=> lakeRun[y].pc # "none"
    BY <1>3
  <2>2. lakeRun'["cur"].to = lakeRun["cur"].to
    BY <1>3 DEF Tasks
  <2>3. \A y \in Tasks : slot' = y <=> lakeRun'[y].pc \in {"chunk", "batch"}
    BY <1>1, <1>3 DEF TasksInv
  <2>4. "cur" \in Tasks /\ "old" \in Tasks
    BY DEF Tasks
  <2> QED
    BY <1>1, <1>2, <2>1, <2>2, <2>3, <2>4 DEF TasksInv
<1>10. CacheInv'
  BY <1>4 DEF CacheInv, CopiedPhases
<1>11. ASSUME NEW y \in Tasks PROVE TaskOK(lakeRun[y])'
  <2>1. CASE y = x
    BY <1>3, <2>1, TaskOKNext
  <2>2. CASE y # x
    <3>1. PICK t : t = lakeRun[y]
      OBVIOUS
    <3>2. t \in TaskRecord /\ TaskOK(t)
      BY <1>2, <3>1 DEF LakeInv
    <3>3. t.pc = "batch" => Watermark' = Watermark /\ cache' = cache
      BY <1>1, <2>2, <3>1 DEF TasksInv
    <3>4. TaskOK(t)'
      BY <1>6, <3>2, <3>3, TaskKept
    <3> QED
      BY <1>3, <2>2, <3>1, <3>4, TaskOKNext
  <2> QED
    BY <2>1, <2>2
<1> QED
  BY <1>8, <1>9, <1>10, <1>11 DEF LakeInv

\* A task ends with an error; the worker that waits for it fails.
LEMMA TaskFails ==
  ASSUME LakeInv, NEW x \in Tasks, lakeRun[x].pc # "none", Advances,
         NEW m \in BOOLEAN, Lake!Fails(x, m),
         epoch' = epoch, lakeCopy' = lakeCopy, lakeMeta' = lakeMeta, cache' = cache,
         lakeFaults' \in 0 .. MaxFaults, lakeFaults <= lakeFaults',
         slot = x \/ Watermark' = Watermark, Watermark' = Watermark \/ cache = Lake!Unknown
  PROVE  LakeInv'
<1>1. LakeTypes /\ ReplayInv /\ TasksInv /\ CacheInv /\ UnwrittenInv
  BY DEF LakeInv
<1>2. lakeWorker.copied /\ lakeRun \in [Tasks -> TaskRecord] /\ lakeWorker \in LakeWorker
  BY <1>1 DEF TasksInv, LakeTypes
<1>3. Lake!NoTask \in TaskRecord /\ Lake!NoTask.pc = "none"
  BY DEF Lake!NoTask, TaskRecord
<1>4. /\ lakeRun' \in [Tasks -> TaskRecord] /\ lakeRun'[x] = Lake!NoTask
      /\ \A y \in Tasks \ {x} : lakeRun'[y] = lakeRun[y]
  BY <1>2, <1>3 DEF Lake!Fails
<1>5. /\ lakeWorker' \in LakeWorker /\ lakeWorker'.copied
      /\ lakeWorker'.phase = (IF x = "cur" THEN "failed" ELSE lakeWorker.phase)
      /\ lakeWorker'.resets = lakeWorker.resets /\ lakeWorker'.sent = lakeWorker.sent
      /\ lakeWorker'.acked = lakeWorker.acked /\ lakeWorker'.checkpoint = lakeWorker.checkpoint
      /\ lakeWorker'.reach = lakeWorker.reach
  BY <1>2 DEF Lake!Fails, LakeWorker
<1>6. lakeWorker'.phase \in CopiedPhases
  BY <1>1, <1>2, <1>5 DEF ReplayInv, CopiedPhases
<1>7. Effected \in Nat /\ Effected' \in Nat /\ Effected <= Effected'
  BY <1>1, EffectedType DEF Advances
<1>8. lakeWorker.checkpoint \in Int /\ lakeWorker.acked \in Int /\ lakeWorker.reach \in Nat
  BY <1>2, SourceFacts DEF LakeWorker
<1>9. Covered(lakeWorker.checkpoint)' /\ Covered(lakeWorker.acked)'
  <2>1. PICK c \in Int : c = lakeWorker.checkpoint
    BY <1>8
  <2>2. PICK a \in Int : a = lakeWorker.acked
    BY <1>8
  <2>3. Covered(c) /\ Covered(a)
    BY <1>1, <1>2, <2>1, <2>2, Zenon DEF ReplayInv
  <2>4. Covered(c)' /\ Covered(a)'
    BY <1>7, <2>3, CoveredStays
  <2> QED
    BY <1>5, <2>1, <2>2, <2>4 DEF Covered, Keyless
<1>10. LakeTypes' /\ EpochInv' /\ UnwrittenInv' /\ StagedInv' /\ ReplayInv'
  <2>1. /\ lakeCopy.at <= lakeWorker'.checkpoint /\ lakeWorker'.checkpoint <= lakeWorker'.acked
        /\ lakeWorker'.acked <= lakeWorker'.sent /\ lakeWorker'.sent <= lakeWorker'.reach
        /\ lakeWorker.reach <= lakeWorker'.reach
    BY <1>1, <1>2, <1>5, <1>8 DEF ReplayInv
  <2>2. lakeMeta' \in MetaRecord /\ lakeMeta'.state # "none"
    BY <1>1, <1>2 DEF LakeTypes, MetaRecord, UnwrittenInv
  <2>3. cache' \in [epoch : Int, key : Int] /\ slot' \in {"free", "cur", "old"}
    BY <1>1 DEF LakeTypes, Lake!Fails
  <2> QED
    BY <1>2, <1>4, <1>5, <1>6, <1>9, <2>1, <2>2, <2>3, CopiedTableKept
<1>11. TasksInv'
  <2>1. "cur" \in Tasks /\ "old" \in Tasks /\ Tasks = {"cur", "old"}
    BY DEF Tasks
  <2>2. ASSUME NEW y \in Tasks PROVE slot' = y <=> lakeRun'[y].pc \in {"chunk", "batch"}
    <3>1. CASE y = x
      BY <1>3, <1>4, <2>1, <3>1 DEF Lake!Fails
    <3>2. CASE y # x
      BY <1>1, <1>4, <2>1, <3>2 DEF Lake!Fails, TasksInv
    <3> QED
      BY <3>1, <3>2
  <2>3. CASE x = "cur"
    BY <1>3, <1>4, <1>5, <2>1, <2>2, <2>3 DEF TasksInv
  <2>4. CASE x = "old"
    <3>1. lakeRun'["cur"] = lakeRun["cur"]
      BY <1>4, <2>1, <2>4
    <3> QED
      BY <1>1, <1>5, <2>1, <2>2, <2>4, <3>1 DEF TasksInv
  <2> QED
    BY <2>1, <2>3, <2>4
<1>12. CacheInv'
  BY <1>1, <1>6 DEF CacheInv, CopiedPhases, Lake!Unknown
<1>13. ASSUME NEW y \in Tasks PROVE TaskOK(lakeRun[y])'
  <2>1. CASE y = x
    <3>1. TaskOK(Lake!NoTask)'
      BY <1>3 DEF TaskOK
    <3> QED
      BY <1>4, <2>1, <3>1, TaskOKNext
  <2>2. CASE y # x
    <3>1. PICK t : t = lakeRun[y]
      OBVIOUS
    <3>2. t \in TaskRecord /\ TaskOK(t)
      BY <1>2, <3>1 DEF LakeInv
    <3>3. t.pc = "batch" => Watermark' = Watermark /\ cache' = cache
      BY <1>1, <2>2, <3>1 DEF TasksInv
    <3>4. lakeWorker'.reach \in Nat /\ lakeWorker.reach <= lakeWorker'.reach
      BY <1>5, <1>8
    <3>5. TaskOK(t)'
      BY <3>2, <3>3, <3>4, TaskKept
    <3> QED
      BY <1>4, <2>2, <3>1, <3>5, TaskOKNext
  <2> QED
    BY <2>1, <2>2
<1> QED
  BY <1>10, <1>11, <1>12, <1>13 DEF LakeInv

--------------------------------------------------------------------------------
(* The steps of a write task.                                               *)

LEMMA TaskFacts ==
  ASSUME LakeInv, NEW x \in Tasks, lakeRun[x].pc # "none"
  PROVE  LET t == lakeRun[x] IN
         /\ t \in TaskRecord /\ TaskOK(t) /\ lakeWorker.copied
         /\ lakeMeta \in MetaRecord /\ lakeMeta.state # "none"
         /\ cache \in [epoch : Int, key : Int] /\ slot \in {"free", "cur", "old"}
         /\ lakeFaults \in 0 .. MaxFaults
         /\ cache.epoch # Lake!None => cache.epoch = epoch.current /\ cache.key = Watermark
         /\ slot = x <=> t.pc \in {"chunk", "batch"}
         /\ t.at \in Nat /\ t.to \in Nat /\ t.end \in Nat /\ t.first \in Nat
         /\ lakeCopy.at \in Nat /\ lakeCopy.at < t.at /\ t.at <= t.to + 1
         /\ t.to \in Lake!Positions /\ t.to <= lakeWorker.reach /\ lakeWorker.reach \in Nat
         /\ Covered(t.at - 1) /\ lakeRun \in [Tasks -> TaskRecord]
         /\ Lake!SnapshotOf(x) \in Nat
<1> DEFINE t == lakeRun[x]
<1>1. LakeTypes /\ TasksInv /\ CacheInv /\ UnwrittenInv /\ TaskOK(t)
  BY DEF LakeInv
<1>2. t \in TaskRecord /\ lakeRun \in [Tasks -> TaskRecord] /\ lakeWorker \in LakeWorker
  BY <1>1 DEF LakeTypes
<1>3. t.at \in Nat /\ t.to \in Nat /\ t.end \in Nat /\ t.first \in Nat
  BY <1>2 DEF TaskRecord
<1>4. lakeWorker.copied /\ (slot = x <=> t.pc \in {"chunk", "batch"})
  BY <1>1 DEF TasksInv
<1>5. lakeMeta \in MetaRecord /\ lakeMeta.state # "none"
  BY <1>1, <1>4 DEF LakeTypes, UnwrittenInv, MetaRecord
<1>6. /\ cache \in [epoch : Int, key : Int] /\ slot \in {"free", "cur", "old"}
      /\ lakeFaults \in 0 .. MaxFaults
      /\ cache.epoch # Lake!None => cache.epoch = epoch.current /\ cache.key = Watermark
  BY <1>1 DEF LakeTypes, CacheInv
<1>7. lakeWorker.reach \in Lake!Positions /\ lakeCopy.at \in Nat /\ lakeWorker.reach \in Nat
  BY <1>1, <1>2, SourceFacts DEF LakeTypes, LakeWorker
<1>8. /\ lakeCopy.at < t.at /\ t.at <= t.to + 1 /\ t.to <= lakeWorker.reach /\ Covered(t.at - 1)
  BY <1>1 DEF TaskOK
<1>9. t.to \in Lake!Positions
  BY <1>3, <1>7, <1>8, SourceFacts
<1>10. Lake!SnapshotOf(x) \in Nat
  BY <1>3, SnapshotType DEF Lake!SnapshotOf
<1> QED
  BY <1>1, <1>2, <1>3, <1>4, <1>5, <1>6, <1>7, <1>8, <1>9, <1>10

LEMMA TaskUnmoved ==
  ASSUME LakeInv, lakeWorker.copied, lake' = lake, epoch' = epoch, lakeCopy' = lakeCopy
  PROVE  Advances /\ Watermark' = Watermark
<1>1. LakeShape'
  BY DEF LakeInv, LakeTypes, LakeShape
<1> QED
  BY <1>1, UnmovedAdvances

\* A step of a task that touches neither the table nor the confirmed watermark.
LEMMA TaskWaits ==
  ASSUME LakeInv, NEW x \in Tasks, lakeRun[x].pc # "none", Advances, Watermark' = Watermark,
         NEW r \in TaskRecord, lakeRun' = [lakeRun EXCEPT ![x] = r],
         r.pc # "none", r.to = lakeRun[x].to, TaskOK(r),
         epoch' = epoch, lakeCopy' = lakeCopy, lakeWorker' = lakeWorker, lakeFaults' = lakeFaults,
         lakeMeta' = lakeMeta \/ (lakeMeta' \in MetaRecord /\ lakeMeta'.state # "none"),
         cache' = cache, slot' = slot,
         slot = x <=> r.pc \in {"chunk", "batch"}
  PROVE  LakeInv'
<1>1. /\ lakeMeta \in MetaRecord /\ lakeMeta.state # "none"
      /\ cache \in [epoch : Int, key : Int] /\ slot \in {"free", "cur", "old"}
      /\ lakeFaults \in 0 .. MaxFaults
      /\ cache.epoch # Lake!None => cache.epoch = epoch.current /\ cache.key = Watermark
      /\ lakeWorker.reach \in Nat
  BY TaskFacts, Zenon
<1>2. lakeWorker'.reach \in Nat /\ lakeWorker.reach <= lakeWorker'.reach
  BY <1>1
<1>3. TaskOK(r)'
  BY <1>2, TaskKept
<1>4. lakeMeta' \in MetaRecord /\ lakeMeta'.state # "none"
  BY <1>1
<1>5. lakeFaults' \in 0 .. MaxFaults /\ lakeFaults <= lakeFaults'
  BY <1>1
<1> QED
  BY <1>1, <1>3, <1>4, <1>5, TaskMoves

\* A task at the start of its next event.
NextAt(at, to) == [Lake!NoTask EXCEPT !.pc = "next", !.at = at, !.to = to]

LEMMA NextTask ==
  ASSUME NEW at \in Nat, NEW to \in Nat
  PROVE  /\ NextAt(at, to) \in TaskRecord /\ NextAt(at, to).pc = "next"
         /\ NextAt(at, to).at = at /\ NextAt(at, to).to = to
<1>1. PICK r : r = NextAt(at, to)
  OBVIOUS
<1>2. r = [Lake!NoTask EXCEPT !.pc = "next", !.at = at, !.to = to]
  BY <1>1 DEF NextAt
<1>3. r = [pc |-> "next", then |-> "none", at |-> at, to |-> to, end |-> 0,
           first |-> 0, last |-> 0, epoch |-> -1, known |-> -1, target |-> -1]
  BY <1>2 DEF Lake!NoTask
<1>4. r.pc = "next" /\ r.at = at /\ r.to = to
  BY <1>3
<1>5. r \in TaskRecord
  BY <1>3 DEF TaskRecord
<1> QED
  BY <1>1, <1>4, <1>5

LEMMA SegmentStarts ==
  ASSUME LakeInv, NEW x \in Tasks, Lake!StartSegment(x)
  PROVE  LakeInv'
<1>1. PICK t : t = lakeRun[x]
  OBVIOUS
<1>2. t.pc = "next"
  BY <1>1 DEF Lake!StartSegment
<1>3. /\ t \in TaskRecord /\ TaskOK(t) /\ lakeWorker.copied
      /\ lakeMeta \in MetaRecord /\ lakeFaults \in 0 .. MaxFaults
      /\ slot = x <=> t.pc \in {"chunk", "batch"}
      /\ t.at \in Nat /\ t.to \in Nat /\ lakeRun \in [Tasks -> TaskRecord]
      /\ lakeCopy.at < t.at /\ t.at <= t.to + 1 /\ t.to <= lakeWorker.reach /\ Covered(t.at - 1)
  <2>1. lakeRun[x].pc # "none"
    BY <1>1, <1>2
  <2> QED
    BY <1>1, <2>1, TaskFacts, Zenon
<1>4. /\ lake' = lake /\ epoch' = epoch /\ lakeCopy' = lakeCopy /\ lakeMeta' = lakeMeta
      /\ cache' = cache /\ lakeFaults' = lakeFaults
  BY DEF Lake!StartSegment
<1>5. Advances /\ Watermark' = Watermark
  BY <1>3, <1>4, TaskUnmoved
<1>6. t.at <= t.to /\ LakeSource[t.at] \in {"row", "truncate"}
  BY <1>1 DEF Lake!StartSegment, Lake!AtEvent
<1>7. PICK end : end = Lake!LastOfRun(t.at, t.to)
  OBVIOUS
<1>8. end \in t.at .. t.to /\ \A j \in t.at .. end : LakeSource[j] = LakeSource[t.at]
  BY <1>3, <1>6, <1>7, LastOfRunFacts
<1>9. CASE lakeMeta.state = "applied"
  <2>1. PICK r : r = [t EXCEPT !.pc = "cursor", !.end = end]
    OBVIOUS
  <2>2. lakeRun' = [lakeRun EXCEPT ![x] = r] /\ slot' = slot /\ lakeWorker' = lakeWorker
    BY <1>1, <1>3, <1>7, <1>9, <2>1 DEF Lake!StartSegment
  <2>3. r \in TaskRecord /\ r.pc = "cursor" /\ r.to = t.to /\ r.at = t.at /\ r.end = end
    <3>1. t \in TaskRecord /\ end \in Nat
      BY <1>3, <1>8
    <3> QED
      BY <2>1, <3>1 DEF TaskRecord
  <2>4. TaskOK(r)
    BY <1>3, <1>6, <1>8, <2>3 DEF TaskOK, After
  <2> QED
    BY <1>1, <1>2, <1>3, <1>4, <1>5, <2>2, <2>3, <2>4, TaskWaits
<1>10. CASE lakeMeta.state # "applied" /\ lakeMeta.snapshot = Lake!SnapshotOf(x)
  <2>1. PICK r : r = [t EXCEPT !.pc = "ddl", !.end = end,
                               !.target = lakeMeta.snapshot, !.then = "cursor"]
    OBVIOUS
  <2>2. lakeRun' = [lakeRun EXCEPT ![x] = r] /\ slot' = slot /\ lakeWorker' = lakeWorker
    BY <1>1, <1>3, <1>7, <1>10, <2>1 DEF Lake!StartSegment
  <2>3. /\ r \in TaskRecord /\ r.pc = "ddl" /\ r.to = t.to /\ r.at = t.at /\ r.end = end
        /\ r.then = "cursor"
    <3>1. t \in TaskRecord /\ end \in Nat /\ lakeMeta.snapshot \in Int
      BY <1>3, <1>8 DEF MetaRecord
    <3> QED
      BY <2>1, <3>1 DEF TaskRecord
  <2>4. TaskOK(r)
    BY <1>3, <1>6, <1>8, <2>3 DEF TaskOK, After
  <2> QED
    BY <1>1, <1>2, <1>3, <1>4, <1>5, <2>2, <2>3, <2>4, TaskWaits
<1>11. CASE lakeMeta.state # "applied" /\ lakeMeta.snapshot # Lake!SnapshotOf(x)
  <2>1. Lake!Fails(x, TRUE)
    BY <1>11 DEF Lake!StartSegment
  <2>2. lakeFaults' \in 0 .. MaxFaults /\ lakeFaults <= lakeFaults'
    BY <1>3, <1>4
  <2> QED
    BY <1>1, <1>2, <1>4, <1>5, <2>1, <2>2, TaskFails
<1> QED
  BY <1>9, <1>10, <1>11

\* The cursor is read under the slot: the frontier is the durable watermark, and
\* what it covers is left out.
LEMMA CursorIsRead ==
  ASSUME LakeInv, NEW x \in Tasks, Lake!ReadCursor(x)
  PROVE  LakeInv'
<1>1. PICK t : t = lakeRun[x]
  OBVIOUS
<1>2. t.pc = "cursor" /\ lakeRun[x].pc # "none"
  BY <1>1 DEF Lake!ReadCursor
<1>3. /\ t \in TaskRecord /\ TaskOK(t) /\ lakeWorker.copied
      /\ lakeMeta \in MetaRecord /\ lakeMeta.state # "none" /\ lakeFaults \in 0 .. MaxFaults
      /\ cache.epoch # Lake!None => cache.epoch = epoch.current /\ cache.key = Watermark
      /\ t.at \in Nat /\ t.to \in Nat /\ t.end \in Nat /\ t.first \in Nat
      /\ lakeRun \in [Tasks -> TaskRecord]
      /\ lakeCopy.at \in Nat /\ lakeWorker.reach \in Nat
      /\ lakeCopy.at < t.at /\ t.at <= t.to + 1 /\ t.to <= lakeWorker.reach /\ Covered(t.at - 1)
  BY <1>1, <1>2, TaskFacts, Zenon
<1>4. /\ lake' = lake /\ epoch' = epoch /\ lakeCopy' = lakeCopy /\ lakeMeta' = lakeMeta
      /\ lakeFaults' = lakeFaults /\ lakeWorker' = lakeWorker /\ slot' = slot /\ slot = "free"
  BY DEF Lake!ReadCursor
<1>5. Advances /\ Watermark' = Watermark
  BY <1>3, <1>4, TaskUnmoved
<1>6. /\ t.at <= t.end /\ t.end <= t.to
      /\ \A k \in t.at .. t.end : LakeSource[k] = LakeSource[t.at]
      /\ LakeSource[t.at] \in {"row", "truncate"}
  BY <1>2, <1>3 DEF TaskOK, After
<1>7. epoch.current \in Nat /\ Watermark \in Int /\ Watermark \in Lake!Positions \cup {Lake!None}
  BY EffectedType, SourceFacts DEF LakeInv, LakeTypes, Lake!Epochs
<1>8. Lake!Frontier(epoch.current) = Watermark
  BY <1>3, <1>7 DEF Lake!Frontier, Watermark
<1>9. cache' = [epoch |-> epoch.current, key |-> Watermark]
  BY <1>8 DEF Lake!ReadCursor
<1>10. PICK first : first = Lake!Max({t.at, Watermark + 1})
  OBVIOUS
<1>11. first \in {t.at, Watermark + 1} /\ first >= t.at /\ first >= Watermark + 1
  <2>1. t.at \in Int /\ Watermark + 1 \in Int
    BY <1>3, <1>7
  <2> QED
    BY <1>10, <2>1, LakeMax, Zenon
<1>12. PICK r : r = IF first > t.end THEN Lake!Past(x)
                    ELSE [t EXCEPT !.pc = "ready", !.epoch = epoch.current, !.first = first]
  OBVIOUS
<1>13. lakeRun' = [lakeRun EXCEPT ![x] = r]
  BY <1>1, <1>8, <1>10, <1>12 DEF Lake!ReadCursor
<1>14. r \in TaskRecord /\ r.to = t.to /\ r.pc \in {"next", "ready"} /\ TaskOK(r)
  <2>1. CASE first > t.end
    <3>1. r = NextAt(t.end + 1, t.to)
      BY <1>1, <1>12, <2>1 DEF Lake!Past, NextAt
    <3>2. r \in TaskRecord /\ r.pc = "next" /\ r.at = t.end + 1 /\ r.to = t.to
      BY <1>3, <3>1, NextTask
    <3>3. Watermark >= t.end /\ Watermark # Lake!None
      BY <1>3, <1>6, <1>7, <1>11, <2>1
    <3>4. Covered(t.end)
      BY <3>3 DEF Covered, Effected
    <3>5. r.at - 1 = t.end
      BY <1>3, <3>2
    <3>6. Covered(r.at - 1)
      BY <3>4, <3>5
    <3> QED
      BY <1>3, <1>6, <3>2, <3>6 DEF TaskOK, After
  <2>2. CASE ~ (first > t.end)
    <3>1. r = [t EXCEPT !.pc = "ready", !.epoch = epoch.current, !.first = first]
      BY <1>12, <2>2
    <3>2. first \in Nat
      BY <1>3, <1>7, <1>11
    <3>3. /\ r \in TaskRecord /\ r.pc = "ready" /\ r.to = t.to /\ r.at = t.at /\ r.end = t.end
          /\ r.epoch = epoch.current /\ r.first = first
      <4>1. t \in TaskRecord /\ epoch.current \in Int
        BY <1>3, <1>7
      <4> QED
        BY <3>1, <3>2, <4>1 DEF TaskRecord
    <3>4. Covered(first - 1)
      <4>1. CASE first = t.at
        BY <1>3, <4>1
      <4>2. CASE first # t.at
        <5>1. first - 1 = Watermark /\ Watermark # Lake!None
          BY <1>3, <1>7, <1>11, <4>2
        <5> QED
          BY <1>7, <5>1 DEF Covered, Effected
      <4> QED
        BY <4>1, <4>2
    <3> QED
      BY <1>3, <1>6, <1>11, <2>2, <3>2, <3>3, <3>4 DEF TaskOK, After
  <2> QED
    BY <2>1, <2>2
<1>15. /\ cache' \in [epoch : Int, key : Int]
       /\ cache'.epoch # Lake!None => cache'.epoch = epoch.current /\ cache'.key = Watermark'
  BY <1>5, <1>7, <1>9
<1>16. TaskOK(r)'
  <2>1. lakeWorker'.reach \in Nat /\ lakeWorker.reach <= lakeWorker'.reach
    BY <1>3, <1>4
  <2>2. r.pc # "batch"
    BY <1>14
  <2> QED
    BY <1>4, <1>5, <1>14, <2>1, <2>2, TaskKept
<1>17. /\ lakeFaults' \in 0 .. MaxFaults /\ lakeFaults <= lakeFaults'
       /\ slot' \in {"free", "cur", "old"} /\ (slot' = x <=> r.pc \in {"chunk", "batch"})
       /\ (\A y \in Tasks \ {x} : slot' = y <=> slot = y) /\ slot \notin Tasks \ {x}
       /\ lakeMeta' \in MetaRecord /\ lakeMeta'.state # "none" /\ r.pc # "none"
       /\ r.to = lakeRun[x].to
  BY <1>1, <1>3, <1>4, <1>14 DEF Tasks
<1> QED
  BY <1>2, <1>4, <1>5, <1>13, <1>14, <1>15, <1>16, <1>17, TaskMoves

LEMMA TableMadeReady ==
  ASSUME LakeInv, NEW x \in Tasks, Lake!EnsureReady(x)
  PROVE  LakeInv'
<1>1. PICK t : t = lakeRun[x]
  OBVIOUS
<1>2. t.pc = "ready" /\ lakeRun[x].pc # "none"
  BY <1>1 DEF Lake!EnsureReady
<1>3. /\ t \in TaskRecord /\ TaskOK(t) /\ lakeWorker.copied
      /\ lakeFaults \in 0 .. MaxFaults /\ Lake!SnapshotOf(x) \in Nat
      /\ slot = x <=> t.pc \in {"chunk", "batch"}
      /\ lakeRun \in [Tasks -> TaskRecord]
  BY <1>1, <1>2, TaskFacts, Zenon
<1>4. /\ lake' = lake /\ epoch' = epoch /\ lakeCopy' = lakeCopy
      /\ cache' = cache /\ lakeFaults' = lakeFaults
  BY DEF Lake!EnsureReady
<1>5. Advances /\ Watermark' = Watermark
  BY <1>3, <1>4, TaskUnmoved
<1>6. CASE Lake!Fails(x, TRUE) /\ lakeMeta' = lakeMeta
  <2>1. lakeFaults' \in 0 .. MaxFaults /\ lakeFaults <= lakeFaults'
    BY <1>3, <1>4
  <2> QED
    BY <1>2, <1>4, <1>5, <1>6, <2>1, TaskFails
<1>7. CASE Lake!Goto(x, "acquire") /\ lakeMeta' = lakeMeta /\ slot' = slot /\ lakeWorker' = lakeWorker
  <2>1. PICK r : r = [t EXCEPT !.pc = "acquire"]
    OBVIOUS
  <2>2. lakeRun' = [lakeRun EXCEPT ![x] = r]
    BY <1>1, <1>3, <1>7, <2>1 DEF Lake!Goto
  <2>3. /\ r \in TaskRecord /\ r.pc = "acquire" /\ r.to = t.to /\ r.at = t.at /\ r.end = t.end
        /\ r.first = t.first /\ r.epoch = t.epoch
    <3>1. t \in TaskRecord
      BY <1>3
    <3> QED
      BY <2>1, <3>1 DEF TaskRecord
  <2>4. TaskOK(r)
    BY <1>2, <1>3, <2>3 DEF TaskOK, After
  <2> QED
    BY <1>1, <1>2, <1>3, <1>4, <1>5, <1>7, <2>2, <2>3, <2>4, TaskWaits
<1>8. CASE /\ lakeMeta' = [state |-> "applying", snapshot |-> Lake!SnapshotOf(x)]
           /\ Lake!Reconcile(x, Lake!SnapshotOf(x), "acquire")
           /\ slot' = slot /\ lakeWorker' = lakeWorker
  <2>1. PICK r : r = [t EXCEPT !.pc = "ddl", !.target = Lake!SnapshotOf(x), !.then = "acquire"]
    OBVIOUS
  <2>2. lakeRun' = [lakeRun EXCEPT ![x] = r]
    BY <1>1, <1>3, <1>8, <2>1 DEF Lake!Reconcile
  <2>3. /\ r \in TaskRecord /\ r.pc = "ddl" /\ r.to = t.to /\ r.at = t.at /\ r.end = t.end
        /\ r.first = t.first /\ r.epoch = t.epoch /\ r.then = "acquire"
    <3>1. t \in TaskRecord /\ Lake!SnapshotOf(x) \in Int
      BY <1>3
    <3> QED
      BY <2>1, <3>1 DEF TaskRecord
  <2>4. TaskOK(r)
    BY <1>2, <1>3, <2>3 DEF TaskOK, After
  <2>5. lakeMeta' \in MetaRecord /\ lakeMeta'.state # "none"
    BY <1>3, <1>8 DEF MetaRecord
  <2> QED
    BY <1>1, <1>2, <1>3, <1>4, <1>5, <1>8, <2>2, <2>3, <2>4, <2>5, TaskWaits
<1> QED
  BY <1>6, <1>7, <1>8 DEF Lake!EnsureReady

LEMMA SlotAcquired ==
  ASSUME LakeInv, NEW x \in Tasks, Lake!AcquireSlot(x)
  PROVE  LakeInv'
<1>1. PICK t : t = lakeRun[x]
  OBVIOUS
<1>2. t.pc = "acquire" /\ lakeRun[x].pc # "none"
  BY <1>1 DEF Lake!AcquireSlot
<1>3. /\ t \in TaskRecord /\ TaskOK(t) /\ lakeWorker.copied
      /\ lakeMeta \in MetaRecord /\ lakeMeta.state # "none" /\ lakeFaults \in 0 .. MaxFaults
      /\ cache \in [epoch : Int, key : Int]
      /\ cache.epoch # Lake!None => cache.epoch = epoch.current /\ cache.key = Watermark
      /\ lakeRun \in [Tasks -> TaskRecord] /\ lakeWorker.reach \in Nat
  BY <1>1, <1>2, TaskFacts, Zenon
<1>4. /\ lake' = lake /\ epoch' = epoch /\ lakeCopy' = lakeCopy /\ lakeMeta' = lakeMeta
      /\ cache' = cache /\ lakeFaults' = lakeFaults /\ lakeWorker' = lakeWorker
      /\ slot = "free" /\ slot' = x
  BY DEF Lake!AcquireSlot
<1>5. Advances /\ Watermark' = Watermark
  BY <1>3, <1>4, TaskUnmoved
<1>6. PICK r : r = [t EXCEPT !.pc = "chunk"]
  OBVIOUS
<1>7. lakeRun' = [lakeRun EXCEPT ![x] = r]
  BY <1>1, <1>3, <1>6 DEF Lake!AcquireSlot, Lake!Goto
<1>8. /\ r \in TaskRecord /\ r.pc = "chunk" /\ r.to = t.to /\ r.at = t.at /\ r.end = t.end
      /\ r.first = t.first /\ r.epoch = t.epoch
  <2>1. t \in TaskRecord
    BY <1>3
  <2> QED
    BY <1>6, <2>1 DEF TaskRecord
<1>9. TaskOK(r)
  BY <1>2, <1>3, <1>8 DEF TaskOK, After
<1>10. TaskOK(r)'
  <2>1. lakeWorker'.reach \in Nat /\ lakeWorker.reach <= lakeWorker'.reach
    BY <1>3, <1>4
  <2> QED
    BY <1>4, <1>5, <1>8, <1>9, <2>1, TaskKept
<1>11. /\ lakeFaults' \in 0 .. MaxFaults /\ lakeFaults <= lakeFaults'
       /\ slot' \in {"free", "cur", "old"} /\ (slot' = x <=> r.pc \in {"chunk", "batch"})
       /\ (\A y \in Tasks \ {x} : slot' = y <=> slot = y) /\ slot \notin Tasks \ {x}
       /\ lakeMeta' \in MetaRecord /\ lakeMeta'.state # "none" /\ r.pc # "none"
       /\ r.to = lakeRun[x].to /\ cache' \in [epoch : Int, key : Int]
       /\ cache'.epoch # Lake!None => cache'.epoch = epoch.current /\ cache'.key = Watermark'
  BY <1>1, <1>3, <1>4, <1>5, <1>8 DEF Tasks
<1> QED
  BY <1>2, <1>4, <1>5, <1>7, <1>8, <1>10, <1>11, TaskMoves

\* The confirmed watermark serves the first attempt of the batch.
LEMMA BatchPrepared ==
  ASSUME LakeInv, NEW x \in Tasks, Lake!PrepareBatch(x)
  PROVE  LakeInv'
<1>1. PICK t : t = lakeRun[x]
  OBVIOUS
<1>2. t.pc = "chunk" /\ lakeRun[x].pc # "none"
  BY <1>1 DEF Lake!PrepareBatch
<1>3. /\ t \in TaskRecord /\ TaskOK(t) /\ lakeWorker.copied
      /\ lakeMeta \in MetaRecord /\ lakeMeta.state # "none" /\ lakeFaults \in 0 .. MaxFaults
      /\ cache \in [epoch : Int, key : Int] /\ slot \in {"free", "cur", "old"}
      /\ cache.epoch # Lake!None => cache.epoch = epoch.current /\ cache.key = Watermark
      /\ slot = x <=> t.pc \in {"chunk", "batch"}
      /\ t.at \in Nat /\ t.to \in Nat /\ t.end \in Nat /\ t.first \in Nat
      /\ lakeRun \in [Tasks -> TaskRecord] /\ lakeWorker.reach \in Nat
  BY <1>1, <1>2, TaskFacts, Zenon
<1>4. /\ lake' = lake /\ epoch' = epoch /\ lakeCopy' = lakeCopy /\ lakeMeta' = lakeMeta
      /\ cache' = Lake!Unknown /\ lakeFaults' = lakeFaults /\ lakeWorker' = lakeWorker
      /\ slot' = slot /\ slot = x
  BY <1>2, <1>3 DEF Lake!PrepareBatch
<1>5. Advances /\ Watermark' = Watermark
  BY <1>3, <1>4, TaskUnmoved
<1>6. /\ t.at <= t.first /\ t.first <= t.end /\ t.end <= t.to /\ t.epoch = epoch.current
      /\ LakeSource[t.at] \in {"row", "truncate"}
  BY <1>2, <1>3 DEF TaskOK, After
<1>7. PICK known : known = IF cache.epoch = t.epoch THEN cache.key ELSE Lake!None
  OBVIOUS
<1>8. PICK last \in IF Lake!AtEvent(x, "truncate") THEN {t.end} ELSE t.first .. t.end :
        lakeRun' = [lakeRun EXCEPT ![x].pc = "batch", ![x].last = last, ![x].known = known]
  BY <1>1, <1>7 DEF Lake!PrepareBatch
<1>9. last \in Nat /\ t.first <= last /\ last <= t.end /\ (LakeSource[t.at] = "truncate" => last = t.end)
  <2>1. LakeSource[t.at] = "truncate" => Lake!AtEvent(x, "truncate")
    BY <1>1, <1>3, <1>6 DEF Lake!AtEvent
  <2> QED
    BY <1>3, <1>6, <1>8, <2>1
<1>10. known \in Int /\ (known # Lake!None => known = Watermark)
  <2>1. cache.key \in Int /\ epoch.current # Lake!None
    BY <1>3 DEF LakeInv, LakeTypes, Lake!Epochs
  <2> QED
    BY <1>3, <1>6, <1>7, <2>1
<1>11. PICK r : r = [t EXCEPT !.pc = "batch", !.last = last, !.known = known]
  OBVIOUS
<1>12. lakeRun' = [lakeRun EXCEPT ![x] = r]
  BY <1>1, <1>3, <1>8, <1>11
<1>13. /\ r \in TaskRecord /\ r.pc = "batch" /\ r.to = t.to /\ r.at = t.at /\ r.end = t.end
       /\ r.first = t.first /\ r.epoch = t.epoch /\ r.last = last /\ r.known = known
  <2>1. t \in TaskRecord
    BY <1>3
  <2> QED
    BY <1>9, <1>10, <1>11, <2>1 DEF TaskRecord
<1>14. TaskOK(r)'
  <2>1. TaskOK(t)'
    <3>1. lakeWorker'.reach \in Nat /\ lakeWorker.reach <= lakeWorker'.reach
      BY <1>3, <1>4
    <3> QED
      BY <1>2, <1>3, <1>4, <1>5, <3>1, TaskKept
  <2>2. r.known # Lake!None => r.known = Watermark'
    BY <1>5, <1>10, <1>13
  <2> QED
    BY <1>2, <1>4, <1>9, <1>13, <2>1, <2>2 DEF TaskOK, After
<1>15. /\ lakeFaults' \in 0 .. MaxFaults /\ lakeFaults <= lakeFaults'
       /\ slot' \in {"free", "cur", "old"} /\ (slot' = x <=> r.pc \in {"chunk", "batch"})
       /\ (\A y \in Tasks \ {x} : slot' = y <=> slot = y) /\ slot \notin Tasks \ {x}
       /\ lakeMeta' \in MetaRecord /\ lakeMeta'.state # "none" /\ r.pc # "none"
       /\ r.to = lakeRun[x].to
  BY <1>1, <1>3, <1>4, <1>13
<1>16. /\ cache' \in [epoch : Int, key : Int] /\ cache'.epoch = Lake!None
  BY <1>4 DEF Lake!Unknown
<1> QED
  BY <1>2, <1>4, <1>5, <1>12, <1>13, <1>14, <1>15, <1>16, TaskMoves

\* A batch commits with its watermark, or is found committed.
LEMMA BatchCommits ==
  ASSUME LakeInv, NEW x \in Tasks, Lake!BatchDone(x)
  PROVE  LakeInv'
<1>1. PICK t : t = lakeRun[x]
  OBVIOUS
<1>2. t.pc = "batch" /\ lakeRun[x].pc # "none" /\ Lake!Decision(x) \in {"apply", "skip"}
  BY <1>1 DEF Lake!BatchDone
<1>3. /\ t \in TaskRecord /\ lakeWorker.copied
      /\ lakeMeta \in MetaRecord /\ lakeMeta.state # "none" /\ lakeFaults \in 0 .. MaxFaults
      /\ t.at \in Nat /\ t.to \in Nat /\ t.end \in Nat /\ t.first \in Nat
      /\ lakeRun \in [Tasks -> TaskRecord] /\ lakeWorker.reach \in Nat /\ TaskOK(t)
  BY <1>1, <1>2, TaskFacts, Zenon
<1>4. /\ slot = x /\ t.at <= t.first /\ t.first <= t.last /\ t.last <= t.end
      /\ t.end <= t.to /\ t.to <= lakeWorker.reach /\ t.last \in Lake!Positions
      /\ t.epoch = epoch.current /\ epoch.current \in Lake!Epochs
      /\ \A k \in t.at .. t.end : LakeSource[k] = LakeSource[t.at]
      /\ LakeSource[t.at] \in {"row", "truncate"} /\ lakeCopy.at < t.at
      /\ Lake!Progress(x) = Watermark
  BY <1>1, <1>2, BatchFacts, Zenon
<1>5. /\ epoch' = epoch /\ lakeCopy' = lakeCopy /\ lakeMeta' = lakeMeta
      /\ lakeFaults' = lakeFaults /\ lakeWorker' = lakeWorker
  BY DEF Lake!BatchDone
<1>6. Watermark \in Int /\ t.last \in Nat /\ epoch.current \in Int /\ lakeCopy.at \in Nat
  BY <1>4, EffectedType, SourceFacts DEF LakeInv, LakeTypes, Lake!Epochs
<1>7. /\ Advances /\ Watermark' \in Int /\ t.last <= Watermark'
      /\ cache' = [epoch |-> epoch.current, key |-> Watermark']
  <2>1. CASE Lake!Decision(x) = "apply"
    <3>1. lake' = Lake!Applied(x)
      BY <2>1 DEF Lake!BatchDone
    <3>2. Advances /\ Watermark' = t.last
      BY <1>1, <1>2, <1>5, <2>1, <3>1, AppliedAdvances
    <3> QED
      BY <1>1, <1>4, <1>6, <2>1, <3>2 DEF Lake!BatchDone
  <2>2. CASE Lake!Decision(x) = "skip"
    <3>1. lake' = lake
      BY <2>2 DEF Lake!BatchDone
    <3>2. Advances /\ Watermark' = Watermark
      BY <1>3, <1>5, <3>1, TaskUnmoved
    <3>3. Watermark >= t.last
      BY <1>1, <1>4, <2>2 DEF Lake!Decision
    <3> QED
      BY <1>1, <1>4, <1>6, <2>2, <3>2, <3>3 DEF Lake!BatchDone
  <2> QED
    BY <1>2, <2>1, <2>2
<1>8. /\ cache' \in [epoch : Int, key : Int]
      /\ cache'.epoch # Lake!None => cache'.epoch = epoch.current /\ cache'.key = Watermark'
  BY <1>6, <1>7
<1>9. Covered(t.last)'
  <2>1. Watermark' # Lake!None
    BY <1>6, <1>7
  <2>2. t.last <= Effected'
    BY <1>7, <2>1 DEF Effected
  <2> QED
    BY <2>2 DEF Covered
<1>10. Covered(t.at - 1)'
  <2>1. Effected \in Nat /\ Effected' \in Nat /\ Effected <= Effected'
    BY <1>7, EffectedType DEF LakeInv, Advances
  <2>2. PICK i \in Int : i = t.at - 1
    BY <1>3
  <2>3. Covered(i)
    BY <1>2, <1>3, <2>2 DEF TaskOK
  <2>4. Covered(i)'
    BY <2>1, <2>3, CoveredStays
  <2> QED
    BY <2>2, <2>4
<1>11. CASE t.last < t.end
  <2>1. PICK r : r = [t EXCEPT !.pc = "chunk", !.first = t.last + 1]
    OBVIOUS
  <2>2. lakeRun' = [lakeRun EXCEPT ![x] = r] /\ slot' = slot
    BY <1>1, <1>3, <1>11, <2>1 DEF Lake!BatchDone
  <2>3. /\ r \in TaskRecord /\ r.pc = "chunk" /\ r.to = t.to /\ r.at = t.at /\ r.end = t.end
        /\ r.first = t.last + 1 /\ r.epoch = t.epoch
    <3>1. t \in TaskRecord /\ t.last + 1 \in Nat
      BY <1>3, <1>6
    <3> QED
      BY <2>1, <3>1 DEF TaskRecord
  <2>4. r.first - 1 = t.last
    BY <1>6, <2>3
  <2>5. Covered(r.first - 1)' /\ Covered(r.at - 1)'
    BY <1>9, <1>10, <2>3, <2>4
  <2>6. r.at <= r.first /\ r.first <= r.end /\ r.at <= r.end /\ r.at <= r.to + 1
    BY <1>3, <1>4, <1>6, <1>11, <2>3
  <2>7. TaskOK(r)'
    BY <1>4, <1>5, <2>3, <2>5, <2>6 DEF TaskOK, After
  <2>8. /\ lakeFaults' \in 0 .. MaxFaults /\ lakeFaults <= lakeFaults'
        /\ slot' \in {"free", "cur", "old"} /\ (slot' = x <=> r.pc \in {"chunk", "batch"})
        /\ (\A y \in Tasks \ {x} : slot' = y <=> slot = y) /\ slot \notin Tasks \ {x}
        /\ lakeMeta' \in MetaRecord /\ lakeMeta'.state # "none" /\ r.pc # "none"
        /\ r.to = lakeRun[x].to
    BY <1>1, <1>3, <1>4, <1>5, <2>2, <2>3 DEF Tasks
  <2> QED
    BY <1>2, <1>5, <1>7, <1>8, <2>2, <2>3, <2>7, <2>8, TaskMoves
<1>12. CASE ~ (t.last < t.end)
  <2>1. PICK r : r = NextAt(t.end + 1, t.to)
    OBVIOUS
  <2>2. lakeRun' = [lakeRun EXCEPT ![x] = r] /\ slot' = "free"
    BY <1>1, <1>3, <1>12, <2>1 DEF Lake!BatchDone, Lake!Past, NextAt
  <2>3. r \in TaskRecord /\ r.pc = "next" /\ r.at = t.end + 1 /\ r.to = t.to
    BY <1>3, <2>1, NextTask
  <2>4. r.at - 1 = t.last
    BY <1>3, <1>4, <1>6, <1>12, <2>3
  <2>5. Covered(r.at - 1)'
    BY <1>9, <2>4
  <2>6. TaskOK(r)'
    BY <1>3, <1>4, <1>5, <1>6, <2>3, <2>5 DEF TaskOK, After
  <2>7. /\ lakeFaults' \in 0 .. MaxFaults /\ lakeFaults <= lakeFaults'
        /\ slot' \in {"free", "cur", "old"} /\ (slot' = x <=> r.pc \in {"chunk", "batch"})
        /\ (\A y \in Tasks \ {x} : slot' = y <=> slot = y) /\ slot \notin Tasks \ {x}
        /\ lakeMeta' \in MetaRecord /\ lakeMeta'.state # "none" /\ r.pc # "none"
        /\ r.to = lakeRun[x].to
    BY <1>1, <1>3, <1>4, <1>5, <2>2, <2>3 DEF Tasks
  <2> QED
    BY <1>2, <1>5, <1>7, <1>8, <2>2, <2>3, <2>6, <2>7, TaskMoves
<1> QED
  BY <1>11, <1>12

\* A commit that returns an error, and may have happened.
LEMMA BatchMayHaveCommitted ==
  ASSUME LakeInv, NEW x \in Tasks, Lake!BatchErrs(x)
  PROVE  LakeInv'
<1>1. PICK t : t = lakeRun[x]
  OBVIOUS
<1>2. t.pc = "batch" /\ lakeRun[x].pc # "none" /\ Lake!Decision(x) = "apply"
  BY <1>1 DEF Lake!BatchErrs
<1>3. /\ t \in TaskRecord /\ lakeWorker.copied /\ TaskOK(t)
      /\ lakeMeta \in MetaRecord /\ lakeMeta.state # "none" /\ lakeFaults \in 0 .. MaxFaults
      /\ lakeRun \in [Tasks -> TaskRecord] /\ lakeWorker.reach \in Nat
  BY <1>1, <1>2, TaskFacts, Zenon
<1>4. slot = x /\ cache = Lake!Unknown
  BY <1>1, <1>2, BatchFacts, Zenon
<1>5. /\ epoch' = epoch /\ lakeCopy' = lakeCopy /\ lakeMeta' = lakeMeta /\ cache' = cache
      /\ lakeFaults' \in 0 .. MaxFaults /\ lakeFaults <= lakeFaults'
  BY <1>3, LakeAssumption DEF Lake!BatchErrs, Lake!Fault
<1>6. Advances
  <2>1. CASE lake' = lake
    BY <1>3, <1>5, <2>1, TaskUnmoved
  <2>2. CASE lake' = Lake!Applied(x)
    BY <1>1, <1>2, <1>5, <2>2, AppliedAdvances
  <2> QED
    BY <2>1, <2>2 DEF Lake!BatchErrs
<1>7. CASE Lake!Fails(x, FALSE)
  BY <1>2, <1>4, <1>5, <1>6, <1>7, TaskFails
<1>8. CASE /\ lakeRun' = [lakeRun EXCEPT ![x].known = Lake!KnownAfterError(x)]
           /\ slot' = slot /\ lakeWorker' = lakeWorker
  <2>1. PICK r : r = [t EXCEPT !.known = Lake!None]
    OBVIOUS
  <2>2. lakeRun' = [lakeRun EXCEPT ![x] = r]
    BY <1>1, <1>3, <1>8, <2>1 DEF Lake!KnownAfterError
  <2>3. /\ r \in TaskRecord /\ r.pc = t.pc /\ r.to = t.to /\ r.at = t.at /\ r.end = t.end
        /\ r.first = t.first /\ r.epoch = t.epoch /\ r.last = t.last /\ r.known = Lake!None
        /\ r.then = t.then
    <3>1. t \in TaskRecord
      BY <1>3
    <3> QED
      BY <2>1, <3>1 DEF TaskRecord
  <2>4. PICK s : s = [t EXCEPT !.pc = "chunk"]
    OBVIOUS
  <2>5. /\ s \in TaskRecord /\ s.pc = "chunk" /\ s.to = t.to /\ s.at = t.at /\ s.end = t.end
        /\ s.first = t.first /\ s.epoch = t.epoch /\ s.then = t.then
    <3>1. t \in TaskRecord
      BY <1>3
    <3> QED
      BY <2>4, <3>1 DEF TaskRecord
  <2>6. TaskOK(s)
    BY <1>2, <1>3, <2>5 DEF TaskOK, After
  <2>7. TaskOK(s)'
    <3>1. lakeWorker'.reach \in Nat /\ lakeWorker.reach <= lakeWorker'.reach
      BY <1>3, <1>8
    <3> QED
      BY <1>5, <1>6, <2>5, <2>6, <3>1, TaskKept
  <2>8. /\ r.first <= r.last /\ r.last <= r.end /\ (LakeSource[r.at] = "truncate" => r.last = r.end)
    BY <1>2, <1>3, <2>3 DEF TaskOK
  <2>9. TaskOK(r)'
    BY <1>2, <1>4, <1>5, <2>3, <2>5, <2>7, <2>8 DEF TaskOK, After
  <2>10. /\ slot' \in {"free", "cur", "old"} /\ (slot' = x <=> r.pc \in {"chunk", "batch"})
         /\ (\A y \in Tasks \ {x} : slot' = y <=> slot = y) /\ slot \notin Tasks \ {x}
         /\ lakeMeta' \in MetaRecord /\ lakeMeta'.state # "none" /\ r.pc # "none"
         /\ r.to = lakeRun[x].to
    BY <1>1, <1>2, <1>3, <1>4, <1>5, <1>8, <2>3 DEF Tasks
  <2>11. cache' \in [epoch : Int, key : Int] /\ cache'.epoch = Lake!None
    BY <1>4, <1>5 DEF Lake!Unknown
  <2> QED
    BY <1>2, <1>5, <1>6, <1>8, <2>2, <2>3, <2>9, <2>10, <2>11, TaskMoves
<1> QED
  BY <1>7, <1>8 DEF Lake!BatchErrs

LEMMA RefusedBatchFails ==
  ASSUME LakeInv, NEW x \in Tasks, Lake!BatchRefused(x)
  PROVE  LakeInv'
<1>1. lakeRun[x].pc # "none" /\ Lake!Fails(x, TRUE)
  BY DEF Lake!BatchRefused
<1>2. lakeWorker.copied /\ lakeFaults \in 0 .. MaxFaults
  BY <1>1, TaskFacts, Zenon
<1>3. /\ lake' = lake /\ epoch' = epoch /\ lakeCopy' = lakeCopy /\ lakeMeta' = lakeMeta
      /\ cache' = cache /\ lakeFaults' = lakeFaults
  BY DEF Lake!BatchRefused
<1>4. Advances /\ Watermark' = Watermark
  BY <1>2, <1>3, TaskUnmoved
<1>5. lakeFaults' \in 0 .. MaxFaults /\ lakeFaults <= lakeFaults'
  BY <1>2, <1>3
<1> QED
  BY <1>1, <1>3, <1>4, <1>5, TaskFails

LEMMA FailedCallFails ==
  ASSUME LakeInv, NEW x \in Tasks, Lake!CallFails(x)
  PROVE  LakeInv'
<1>1. lakeRun[x].pc # "none" /\ Lake!Fails(x, FALSE)
  BY DEF Lake!CallFails
<1>2. lakeWorker.copied /\ lakeFaults \in 0 .. MaxFaults
  BY <1>1, TaskFacts, Zenon
<1>3. /\ lake' = lake /\ epoch' = epoch /\ lakeCopy' = lakeCopy /\ lakeMeta' = lakeMeta
      /\ cache' = cache
  BY DEF Lake!CallFails
<1>4. Advances /\ Watermark' = Watermark
  BY <1>2, <1>3, TaskUnmoved
<1>5. lakeFaults' \in 0 .. MaxFaults /\ lakeFaults <= lakeFaults'
  BY <1>2, LakeAssumption DEF Lake!CallFails, Lake!Fault
<1> QED
  BY <1>1, <1>3, <1>4, <1>5, TaskFails

LEMMA RelationHandled ==
  ASSUME LakeInv, NEW x \in Tasks, Lake!HandleRelation(x)
  PROVE  LakeInv'
<1>1. PICK t : t = lakeRun[x]
  OBVIOUS
<1>2. t.pc = "next" /\ lakeRun[x].pc # "none"
  BY <1>1 DEF Lake!HandleRelation
<1>3. /\ t \in TaskRecord /\ TaskOK(t) /\ lakeWorker.copied
      /\ lakeFaults \in 0 .. MaxFaults /\ lakeMeta \in MetaRecord
      /\ slot = x <=> t.pc \in {"chunk", "batch"}
      /\ t.at \in Nat /\ t.to \in Nat /\ lakeRun \in [Tasks -> TaskRecord]
      /\ lakeCopy.at < t.at /\ t.to <= lakeWorker.reach /\ Covered(t.at - 1)
      /\ Lake!SnapshotOf(x) \in Nat
  BY <1>1, <1>2, TaskFacts, Zenon
<1>4. /\ lake' = lake /\ epoch' = epoch /\ lakeCopy' = lakeCopy
      /\ cache' = cache /\ lakeFaults' = lakeFaults
  BY DEF Lake!HandleRelation
<1>5. Advances /\ Watermark' = Watermark
  BY <1>3, <1>4, TaskUnmoved
<1>6. t.at <= t.to /\ LakeSource[t.at] = "relation"
  BY <1>1 DEF Lake!HandleRelation, Lake!AtEvent
<1>7. ASSUME NEW target \in Int, slot' = slot, lakeWorker' = lakeWorker,
             lakeMeta' = lakeMeta \/ (lakeMeta' \in MetaRecord /\ lakeMeta'.state # "none"),
             lakeRun' = [lakeRun EXCEPT ![x].pc = "ddl", ![x].end = lakeRun[x].at,
                                        ![x].target = target, ![x].then = "past"]
      PROVE  LakeInv'
  <2>1. PICK r : r = [t EXCEPT !.pc = "ddl", !.end = t.at, !.target = target, !.then = "past"]
    OBVIOUS
  <2>2. lakeRun' = [lakeRun EXCEPT ![x] = r]
    BY <1>1, <1>3, <1>7, <2>1
  <2>3. /\ r \in TaskRecord /\ r.pc = "ddl" /\ r.to = t.to /\ r.at = t.at /\ r.end = t.at
        /\ r.then = "past"
    <3>1. t \in TaskRecord /\ t.at \in Nat
      BY <1>3
    <3> QED
      BY <2>1, <3>1 DEF TaskRecord
  <2>4. TaskOK(r)
    BY <1>3, <1>6, <2>3 DEF TaskOK, After
  <2> QED
    BY <1>1, <1>2, <1>3, <1>4, <1>5, <1>7, <2>2, <2>3, <2>4, TaskWaits
<1>8. CASE lakeMeta.state # "applied" /\ lakeMeta.snapshot = Lake!SnapshotOf(x)
  <2>1. /\ slot' = slot /\ lakeWorker' = lakeWorker /\ lakeMeta' = lakeMeta
        /\ lakeRun' = [lakeRun EXCEPT ![x].pc = "ddl", ![x].end = lakeRun[x].at,
                                      ![x].target = lakeMeta.snapshot, ![x].then = "past"]
    BY <1>8 DEF Lake!HandleRelation
  <2>2. lakeMeta.snapshot \in Int
    BY <1>3 DEF MetaRecord
  <2> QED
    BY <1>7, <2>1, <2>2
<1>9. CASE lakeMeta.state # "applied" /\ lakeMeta.snapshot # Lake!SnapshotOf(x)
  <2>1. Lake!Fails(x, TRUE) /\ lakeMeta' = lakeMeta
    BY <1>9 DEF Lake!HandleRelation
  <2>2. lakeFaults' \in 0 .. MaxFaults /\ lakeFaults <= lakeFaults'
    BY <1>3, <1>4
  <2> QED
    BY <1>2, <1>4, <1>5, <2>1, <2>2, TaskFails
<1>10. CASE lakeMeta.state = "applied" /\ Lake!SnapshotOf(x) <= lakeMeta.snapshot
  <2>1. PICK r : r = NextAt(t.at + 1, t.to)
    OBVIOUS
  <2>2. r = [Lake!Past(x) EXCEPT !.at = lakeRun[x].at + 1]
    BY <1>1, <2>1 DEF NextAt, Lake!Past, Lake!NoTask
  <2>3. /\ slot' = slot /\ lakeWorker' = lakeWorker /\ lakeMeta' = lakeMeta
        /\ lakeRun' = [lakeRun EXCEPT ![x] = r]
    BY <1>10, <2>2 DEF Lake!HandleRelation
  <2>4. r \in TaskRecord /\ r.pc = "next" /\ r.at = t.at + 1 /\ r.to = t.to
    BY <1>3, <2>1, NextTask
  <2>5. Covered(t.at)
    <3>1. Effected \in Nat
      BY EffectedType DEF LakeInv
    <3> QED
      BY <1>3, <1>6, <3>1, CoveredRelation
  <2>6. r.at - 1 = t.at
    BY <1>3, <2>4
  <2>7. Covered(r.at - 1)
    BY <2>5, <2>6
  <2>8. lakeCopy.at < r.at
    BY <1>3, <2>4, SourceFacts DEF LakeInv, LakeTypes
  <2>9. TaskOK(r)
    BY <1>3, <1>6, <2>4, <2>7, <2>8 DEF TaskOK, After
  <2> QED
    BY <1>1, <1>2, <1>3, <1>4, <1>5, <2>3, <2>4, <2>9, TaskWaits
<1>11. CASE lakeMeta.state = "applied" /\ ~ (Lake!SnapshotOf(x) <= lakeMeta.snapshot)
  <2>1. /\ slot' = slot /\ lakeWorker' = lakeWorker
        /\ lakeMeta' = [state |-> "applying", snapshot |-> Lake!SnapshotOf(x)]
        /\ lakeRun' = [lakeRun EXCEPT ![x].pc = "ddl", ![x].end = lakeRun[x].at,
                                      ![x].target = Lake!SnapshotOf(x), ![x].then = "past"]
    BY <1>11 DEF Lake!HandleRelation
  <2>2. Lake!SnapshotOf(x) \in Int /\ lakeMeta' \in MetaRecord /\ lakeMeta'.state # "none"
    BY <1>3, <2>1 DEF MetaRecord
  <2> QED
    BY <1>7, <2>1, <2>2
<1> QED
  BY <1>8, <1>9, <1>10, <1>11

LEMMA PlanApplied ==
  ASSUME LakeInv, NEW x \in Tasks, Lake!ApplySchemaPlan(x)
  PROVE  LakeInv'
<1>1. PICK t : t = lakeRun[x]
  OBVIOUS
<1>2. t.pc = "ddl" /\ lakeRun[x].pc # "none"
  BY <1>1 DEF Lake!ApplySchemaPlan
<1>3. /\ t \in TaskRecord /\ TaskOK(t) /\ lakeWorker.copied /\ lakeFaults \in 0 .. MaxFaults
      /\ lakeRun \in [Tasks -> TaskRecord]
  BY <1>1, <1>2, TaskFacts, Zenon
<1>4. /\ epoch' = epoch /\ lakeCopy' = lakeCopy /\ lakeMeta' = lakeMeta /\ cache' = cache
      /\ slot = "free"
  BY DEF Lake!ApplySchemaPlan
<1>5. Advances /\ Watermark' = Watermark
  <2>1. lake' \in {lake, Lake!Altered(t.target)}
    BY <1>1 DEF Lake!ApplySchemaPlan
  <2>2. /\ LakeShape' /\ lake'.rows = lake.rows /\ lake'.progress = lake.progress
        /\ lake'.markers = lake.markers
    BY <2>1, AlteredShape
  <2> QED
    BY <1>3, <1>4, <2>2, UnmovedAdvances
<1>6. CASE Lake!Goto(x, "store") /\ slot' = slot /\ lakeWorker' = lakeWorker /\ lakeFaults' = lakeFaults
  <2>1. PICK r : r = [t EXCEPT !.pc = "store"]
    OBVIOUS
  <2>2. lakeRun' = [lakeRun EXCEPT ![x] = r]
    BY <1>1, <1>3, <1>6, <2>1 DEF Lake!Goto
  <2>3. /\ r \in TaskRecord /\ r.pc = "store" /\ r.to = t.to /\ r.at = t.at /\ r.end = t.end
        /\ r.then = t.then /\ r.first = t.first /\ r.epoch = t.epoch
    <3>1. t \in TaskRecord
      BY <1>3
    <3> QED
      BY <2>1, <3>1 DEF TaskRecord
  <2>4. TaskOK(r)
    BY <1>2, <1>3, <2>3 DEF TaskOK, After
  <2>5. slot = x <=> r.pc \in {"chunk", "batch"}
    BY <1>4, <2>3 DEF Tasks
  <2> QED
    BY <1>1, <1>2, <1>4, <1>5, <1>6, <2>2, <2>3, <2>4, <2>5, TaskWaits
<1>7. CASE Lake!Fault /\ Lake!Fails(x, FALSE)
  <2>1. lakeFaults' \in 0 .. MaxFaults /\ lakeFaults <= lakeFaults'
    BY <1>3, <1>7, LakeAssumption DEF Lake!Fault
  <2> QED
    BY <1>2, <1>4, <1>5, <1>7, <2>1, TaskFails
<1> QED
  BY <1>6, <1>7 DEF Lake!ApplySchemaPlan

LEMMA SchemaIsApplied ==
  ASSUME LakeInv, NEW x \in Tasks, Lake!SchemaApplied(x)
  PROVE  LakeInv'
<1>1. PICK t : t = lakeRun[x]
  OBVIOUS
<1>2. t.pc = "store" /\ lakeRun[x].pc # "none"
  BY <1>1 DEF Lake!SchemaApplied
<1>3. /\ t \in TaskRecord /\ TaskOK(t) /\ lakeWorker.copied
      /\ slot = x <=> t.pc \in {"chunk", "batch"}
      /\ t.at \in Nat /\ t.to \in Nat /\ t.end \in Nat /\ lakeRun \in [Tasks -> TaskRecord]
      /\ lakeCopy.at < t.at /\ t.to <= lakeWorker.reach /\ Covered(t.at - 1)
  BY <1>1, <1>2, TaskFacts, Zenon
<1>4. /\ lake' = lake /\ epoch' = epoch /\ lakeCopy' = lakeCopy /\ cache' = cache
      /\ slot' = slot /\ lakeWorker' = lakeWorker /\ lakeFaults' = lakeFaults
  BY DEF Lake!SchemaApplied
<1>5. Advances /\ Watermark' = Watermark
  BY <1>3, <1>4, TaskUnmoved
<1>6. lakeMeta' \in MetaRecord /\ lakeMeta'.state # "none"
  <2>1. lakeMeta' = [state |-> "applied", snapshot |-> t.target] /\ t.target \in Int
    BY <1>1, <1>3 DEF Lake!SchemaApplied, TaskRecord
  <2> QED
    BY <2>1 DEF MetaRecord
<1>7. t.then \in {"past", "cursor", "acquire"}
  <2>1. t.then # "none"
    BY <1>2, <1>3 DEF TaskOK
  <2>2. t.then \in {"none", "past", "cursor", "acquire"}
    BY <1>3 DEF TaskRecord
  <2> QED
    BY <2>1, <2>2
<1>8. CASE t.then = "past"
  <2>1. PICK r : r = NextAt(t.end + 1, t.to)
    OBVIOUS
  <2>2. lakeRun' = [lakeRun EXCEPT ![x] = r]
    BY <1>1, <1>8, <2>1 DEF Lake!SchemaApplied, Lake!Past, NextAt
  <2>3. r \in TaskRecord /\ r.pc = "next" /\ r.at = t.end + 1 /\ r.to = t.to
    BY <1>3, <2>1, NextTask
  <2>4. LakeSource[t.at] = "relation" /\ t.end = t.at /\ t.end <= t.to
    BY <1>2, <1>3, <1>8 DEF TaskOK, After
  <2>5. Covered(t.at)
    <3>1. Effected \in Nat
      BY EffectedType DEF LakeInv
    <3> QED
      BY <1>3, <2>4, <3>1, CoveredRelation
  <2>6. r.at - 1 = t.at
    BY <1>3, <2>3, <2>4
  <2>7. Covered(r.at - 1)
    BY <2>5, <2>6
  <2>8. lakeCopy.at < r.at
    BY <1>3, <2>3, <2>4, SourceFacts DEF LakeInv, LakeTypes
  <2>9. TaskOK(r)
    BY <1>3, <2>3, <2>4, <2>7, <2>8 DEF TaskOK, After
  <2> QED
    BY <1>1, <1>2, <1>3, <1>4, <1>5, <1>6, <2>2, <2>3, <2>9, TaskWaits
<1>9. CASE t.then \in {"cursor", "acquire"}
  <2>1. PICK r : r = [t EXCEPT !.pc = t.then]
    OBVIOUS
  <2>2. lakeRun' = [lakeRun EXCEPT ![x] = r]
    BY <1>1, <1>9, <2>1 DEF Lake!SchemaApplied
  <2>3. /\ r \in TaskRecord /\ r.pc = t.then /\ r.to = t.to /\ r.at = t.at /\ r.end = t.end
        /\ r.first = t.first /\ r.epoch = t.epoch
    <3>1. t \in TaskRecord
      BY <1>3
    <3> QED
      BY <1>9, <2>1, <3>1 DEF TaskRecord
  <2>4. TaskOK(r)
    BY <1>2, <1>3, <1>9, <2>3 DEF TaskOK, After
  <2> QED
    BY <1>1, <1>2, <1>3, <1>4, <1>5, <1>6, <1>9, <2>2, <2>3, <2>4, TaskWaits
<1> QED
  BY <1>7, <1>8, <1>9

--------------------------------------------------------------------------------
(* The worker of a copied table.                                            *)

LEMMA CopiedFacts ==
  ASSUME LakeInv, lakeWorker.copied
  PROVE  /\ lakeRun \in [Tasks -> TaskRecord] /\ lakeWorker \in LakeWorker
         /\ lakeMeta \in MetaRecord /\ lakeMeta.state # "none"
         /\ cache \in [epoch : Int, key : Int] /\ slot \in {"free", "cur", "old"}
         /\ lakeFaults \in 0 .. MaxFaults /\ lakeWorker.phase \in CopiedPhases
         /\ lakeWorker.checkpoint \in Nat /\ lakeWorker.acked \in Nat /\ lakeWorker.sent \in Nat
         /\ lakeWorker.reach \in Nat /\ lakeCopy.at \in Nat
         /\ lakeCopy.at <= lakeWorker.checkpoint /\ lakeWorker.checkpoint <= lakeWorker.acked
         /\ lakeWorker.acked <= lakeWorker.sent /\ lakeWorker.sent <= lakeWorker.reach
         /\ Covered(lakeWorker.checkpoint) /\ Covered(lakeWorker.acked)
         /\ \A x \in Tasks : lakeRun[x] \in TaskRecord /\ TaskOK(lakeRun[x])
<1>1. LakeTypes /\ ReplayInv /\ UnwrittenInv /\ \A x \in Tasks : TaskOK(lakeRun[x])
  BY DEF LakeInv
<1>2. /\ lakeRun \in [Tasks -> TaskRecord] /\ lakeWorker \in LakeWorker
      /\ lakeMeta \in MetaRecord
      /\ cache \in [epoch : Int, key : Int] /\ slot \in {"free", "cur", "old"}
      /\ lakeFaults \in 0 .. MaxFaults /\ lakeCopy.at \in Nat
  BY <1>1, SourceFacts DEF LakeTypes, MetaRecord
<1>3. lakeMeta.state # "none"
  BY <1>1 DEF UnwrittenInv
<1>4. /\ lakeWorker.checkpoint \in Nat /\ lakeWorker.acked \in Nat /\ lakeWorker.sent \in Nat
      /\ lakeWorker.reach \in Nat
  BY <1>2, SourceFacts DEF LakeWorker
<1>5. /\ lakeCopy.at <= lakeWorker.checkpoint /\ lakeWorker.checkpoint <= lakeWorker.acked
      /\ lakeWorker.acked <= lakeWorker.sent /\ lakeWorker.sent <= lakeWorker.reach
      /\ Covered(lakeWorker.checkpoint) /\ Covered(lakeWorker.acked)
      /\ lakeWorker.phase \in CopiedPhases
  BY <1>1 DEF ReplayInv, CopiedPhases
<1>6. \A x \in Tasks : lakeRun[x] \in TaskRecord
  BY <1>2
<1> QED
  BY <1>1, <1>2, <1>3, <1>4, <1>5, <1>6

\* A step of the worker that leaves the table alone.  `c` and `a` are the
\* checkpoint and the acknowledged position after it.
LEMMA WorkerMoves ==
  ASSUME LakeInv, lakeWorker.copied,
         lake' = lake, epoch' = epoch, lakeMeta' = lakeMeta, cache' = cache, lakeCopy' = lakeCopy,
         lakeFaults' \in 0 .. MaxFaults, lakeFaults <= lakeFaults',
         slot' \in {"free", "cur", "old"}, lakeRun' \in [Tasks -> TaskRecord],
         lakeWorker' \in LakeWorker, lakeWorker'.copied, lakeWorker'.phase \in CopiedPhases,
         lakeWorker'.resets = lakeWorker.resets, lakeWorker.reach <= lakeWorker'.reach,
         NEW c \in Int, Covered(c), lakeWorker'.checkpoint = c,
         NEW a \in Int, Covered(a), lakeWorker'.acked = a,
         lakeCopy.at <= c, c <= a, a <= lakeWorker'.sent, lakeWorker'.sent <= lakeWorker'.reach
  PROVE  /\ LakeTypes' /\ EpochInv' /\ UnwrittenInv' /\ StagedInv' /\ ReplayInv' /\ CacheInv'
         /\ Advances /\ Watermark' = Watermark
<1>1. Advances /\ Watermark' = Watermark
  BY TaskUnmoved
<1>2. Effected \in Nat /\ Effected' \in Nat /\ Effected <= Effected'
  BY <1>1, EffectedType DEF Advances, LakeInv
<1>3. Covered(c)' /\ Covered(a)'
  BY <1>2, CoveredStays
<1>4. Covered(lakeWorker.checkpoint)' /\ Covered(lakeWorker.acked)'
  BY <1>3 DEF Covered, Keyless
<1>5. /\ lakeMeta' \in MetaRecord /\ lakeMeta'.state # "none"
      /\ cache' \in [epoch : Int, key : Int]
  BY CopiedFacts
<1>6. LakeTypes' /\ EpochInv' /\ UnwrittenInv' /\ StagedInv' /\ ReplayInv'
  BY <1>1, <1>4, <1>5, CopiedTableKept
<1>7. CacheInv'
  BY <1>1 DEF LakeInv, CacheInv, CopiedPhases
<1> QED
  BY <1>1, <1>6, <1>7

\* The tasks of a step that leaves the table alone.
LEMMA TaskUntouched ==
  ASSUME LakeInv, lakeWorker.copied, lake' = lake, epoch' = epoch, lakeCopy' = lakeCopy,
         cache' = cache, lakeWorker'.reach \in Nat, lakeWorker.reach <= lakeWorker'.reach,
         NEW x, NEW y \in Tasks, lakeRun'[x] = lakeRun[y]
  PROVE  TaskOK(lakeRun[x])'
<1>1. PICK t : t = lakeRun[y]
  OBVIOUS
<1>2. t \in TaskRecord /\ TaskOK(t)
  BY <1>1, CopiedFacts
<1>3. Advances /\ Watermark' = Watermark
  BY TaskUnmoved
<1>4. TaskOK(t)'
  BY <1>2, <1>3, TaskKept
<1> QED
  BY <1>1, <1>4, TaskOKNext

LEMMA NoTaskOK ==
  ASSUME NEW x, lakeRun'[x].pc = "none"
  PROVE  TaskOK(lakeRun[x])'
BY DEF TaskOK

LEMMA NoTaskType == Lake!NoTask \in TaskRecord /\ Lake!NoTask.pc = "none"
BY DEF Lake!NoTask, TaskRecord

LEMMA WrittenEventsAcked ==
  ASSUME LakeInv, NEW x \in Tasks, Lake!EventsWritten(x)
  PROVE  LakeInv'
<1>1. PICK t : t = lakeRun[x]
  OBVIOUS
<1>2. t.pc = "next" /\ lakeRun[x].pc # "none" /\ t.at > t.to
  BY <1>1 DEF Lake!EventsWritten
<1>3. /\ lakeWorker.copied /\ t.at \in Nat /\ t.to \in Nat /\ t.at <= t.to + 1
      /\ t.to \in Lake!Positions /\ Covered(t.at - 1) /\ slot # x
  <2>1. /\ lakeWorker.copied /\ t.at \in Nat /\ t.to \in Nat /\ t.at <= t.to + 1
        /\ t.to \in Lake!Positions /\ Covered(t.at - 1)
        /\ slot = x <=> t.pc \in {"chunk", "batch"}
    BY <1>1, <1>2, TaskFacts, Zenon
  <2> QED
    BY <1>2, <2>1
<1>4. Covered(t.to)
  <2>1. t.at - 1 = t.to
    BY <1>2, <1>3
  <2> QED
    BY <1>3, <2>1
<1>5. /\ lake' = lake /\ epoch' = epoch /\ lakeMeta' = lakeMeta /\ cache' = cache
      /\ lakeCopy' = lakeCopy /\ lakeFaults' = lakeFaults /\ slot' = slot
      /\ lakeRun' = [lakeRun EXCEPT ![x] = Lake!NoTask]
      /\ lakeWorker' = IF x = "cur" THEN [lakeWorker EXCEPT !.acked = t.to] ELSE lakeWorker
  BY <1>1 DEF Lake!EventsWritten
<1>6. /\ lakeRun' \in [Tasks -> TaskRecord] /\ lakeRun'[x].pc = "none"
      /\ \A y \in Tasks \ {x} : lakeRun'[y] = lakeRun[y]
  BY <1>3, <1>5, NoTaskType, CopiedFacts
<1>7. lakeWorker \in LakeWorker
  BY <1>3, CopiedFacts
<1>8. /\ lakeWorker' \in LakeWorker /\ lakeWorker'.copied /\ lakeWorker'.phase = lakeWorker.phase
      /\ lakeWorker'.resets = lakeWorker.resets /\ lakeWorker'.reach = lakeWorker.reach
      /\ lakeWorker'.checkpoint = lakeWorker.checkpoint /\ lakeWorker'.sent = lakeWorker.sent
      /\ lakeWorker'.acked = IF x = "cur" THEN t.to ELSE lakeWorker.acked
  BY <1>3, <1>5, <1>7 DEF LakeWorker
<1>9. TasksInv /\ "cur" \in Tasks /\ "old" \in Tasks /\ Tasks = {"cur", "old"}
  BY DEF LakeInv, Tasks
<1>10. x = "cur" => lakeWorker.sent = t.to
  BY <1>1, <1>2, <1>9 DEF TasksInv
<1>11. PICK a \in Int : a = IF x = "cur" THEN t.to ELSE lakeWorker.acked
  BY <1>3, CopiedFacts
<1>12. PICK c \in Int : c = lakeWorker.checkpoint
  BY <1>3, CopiedFacts
<1>13. Covered(a) /\ Covered(c)
  <2>1. Covered(lakeWorker.acked) /\ Covered(lakeWorker.checkpoint)
    BY <1>3, CopiedFacts
  <2> QED
    BY <1>4, <1>11, <1>12, <2>1
<1>14. /\ lakeCopy.at <= c /\ c <= a /\ a <= lakeWorker'.sent /\ lakeWorker'.sent <= lakeWorker'.reach
       /\ lakeWorker.reach <= lakeWorker'.reach /\ lakeWorker'.reach \in Nat
       /\ lakeFaults' \in 0 .. MaxFaults /\ lakeFaults <= lakeFaults'
       /\ slot' \in {"free", "cur", "old"} /\ lakeWorker'.phase \in CopiedPhases
  BY <1>3, <1>5, <1>8, <1>10, <1>11, <1>12, CopiedFacts
<1>15. LakeTypes' /\ EpochInv' /\ UnwrittenInv' /\ StagedInv' /\ ReplayInv' /\ CacheInv'
  BY <1>3, <1>5, <1>6, <1>8, <1>11, <1>12, <1>13, <1>14, WorkerMoves
<1>16. TasksInv'
  <2>1. \A y \in Tasks : slot' = y <=> lakeRun'[y].pc \in {"chunk", "batch"}
    BY <1>3, <1>5, <1>6, <1>9 DEF TasksInv
  <2>2. CASE x = "cur"
    BY <1>6, <1>8, <1>9, <1>10, <2>1, <2>2 DEF TasksInv
  <2>3. CASE x = "old"
    <3>1. lakeRun'["cur"] = lakeRun["cur"]
      BY <1>6, <1>9, <2>3
    <3> QED
      BY <1>3, <1>8, <1>9, <2>1, <2>3, <3>1 DEF TasksInv
  <2> QED
    BY <1>9, <2>2, <2>3
<1>17. ASSUME NEW y \in Tasks PROVE TaskOK(lakeRun[y])'
  <2>1. CASE y = x
    BY <1>6, <2>1, NoTaskOK
  <2>2. CASE y # x
    BY <1>3, <1>5, <1>6, <1>14, <2>2, TaskUntouched
  <2> QED
    BY <2>1, <2>2
<1> QED
  BY <1>15, <1>16, <1>17 DEF LakeInv

LEMMA EventsDispatched ==
  ASSUME LakeInv, Lake!write_events
  PROVE  LakeInv'
<1>1. TasksInv /\ "cur" \in Tasks /\ "old" \in Tasks /\ Tasks = {"cur", "old"}
  BY DEF LakeInv, Tasks
<1>2. lakeWorker.phase = "stream" /\ lakeRun["cur"].pc = "none"
  BY DEF Lake!write_events
<1>3. lakeWorker.copied /\ lakeWorker.sent = lakeWorker.acked
  BY <1>1, <1>2 DEF TasksInv
<1>4. PICK to \in lakeWorker.sent + 1 .. Len(LakeSource) :
        /\ lakeRun' = [lakeRun EXCEPT !["cur"] = [Lake!NoTask EXCEPT !.pc = "next",
                                                   !.at = lakeWorker.sent + 1, !.to = to]]
        /\ lakeWorker' = [lakeWorker EXCEPT !.sent = to,
                                            !.reach = Lake!Max({lakeWorker.reach, to})]
  BY DEF Lake!write_events
<1>5. /\ lake' = lake /\ epoch' = epoch /\ lakeMeta' = lakeMeta /\ cache' = cache
      /\ lakeCopy' = lakeCopy /\ lakeFaults' = lakeFaults /\ slot' = slot
  BY DEF Lake!write_events
<1>6. lakeWorker.sent \in Nat /\ lakeWorker.reach \in Nat /\ lakeWorker \in LakeWorker
  BY <1>3, CopiedFacts
<1>7. to \in Nat /\ to \in Lake!Positions /\ lakeWorker.sent < to
  BY <1>4, <1>6, SourceFacts
<1>8. PICK reach : reach = Lake!Max({lakeWorker.reach, to})
  OBVIOUS
<1>9. reach \in {lakeWorker.reach, to} /\ reach >= lakeWorker.reach /\ reach >= to
  <2>1. lakeWorker.reach \in Int /\ to \in Int
    BY <1>6, <1>7
  <2> QED
    BY <1>8, <2>1, LakeMax, Zenon
<1>10. reach \in Lake!Positions /\ reach \in Nat
  BY <1>6, <1>7, <1>9 DEF LakeWorker
<1>11. PICK r : r = NextAt(lakeWorker.sent + 1, to)
  OBVIOUS
<1>12. r \in TaskRecord /\ r.pc = "next" /\ r.at = lakeWorker.sent + 1 /\ r.to = to
  BY <1>6, <1>7, <1>11, NextTask
<1>13. /\ lakeRun' = [lakeRun EXCEPT !["cur"] = r]
       /\ lakeWorker' = [lakeWorker EXCEPT !.sent = to, !.reach = reach]
  BY <1>4, <1>8, <1>11 DEF NextAt
<1>14. /\ lakeRun' \in [Tasks -> TaskRecord] /\ lakeRun'["cur"] = r
       /\ \A y \in Tasks \ {"cur"} : lakeRun'[y] = lakeRun[y]
  BY <1>1, <1>3, <1>12, <1>13, CopiedFacts
<1>15. /\ lakeWorker' \in LakeWorker /\ lakeWorker'.copied /\ lakeWorker'.phase = "stream"
       /\ lakeWorker'.resets = lakeWorker.resets /\ lakeWorker'.reach = reach
       /\ lakeWorker'.checkpoint = lakeWorker.checkpoint /\ lakeWorker'.sent = to
       /\ lakeWorker'.acked = lakeWorker.acked
  BY <1>2, <1>3, <1>6, <1>7, <1>10, <1>13 DEF LakeWorker
<1>16. PICK a \in Int : a = lakeWorker.acked
  BY <1>3, CopiedFacts
<1>17. PICK c \in Int : c = lakeWorker.checkpoint
  BY <1>3, CopiedFacts
<1>18. Covered(a) /\ Covered(c)
  BY <1>3, <1>16, <1>17, CopiedFacts
<1>19. /\ lakeCopy.at <= c /\ c <= a /\ a <= lakeWorker'.sent /\ lakeWorker'.sent <= lakeWorker'.reach
       /\ lakeWorker.reach <= lakeWorker'.reach /\ lakeWorker'.reach \in Nat
       /\ lakeFaults' \in 0 .. MaxFaults /\ lakeFaults <= lakeFaults'
       /\ slot' \in {"free", "cur", "old"} /\ lakeWorker'.phase \in CopiedPhases
  <2>1. /\ lakeCopy.at <= c /\ c <= a /\ a <= lakeWorker'.sent
    BY <1>3, <1>6, <1>7, <1>15, <1>16, <1>17, CopiedFacts
  <2>2. /\ lakeFaults' \in 0 .. MaxFaults /\ lakeFaults <= lakeFaults'
        /\ slot' \in {"free", "cur", "old"} /\ lakeWorker'.phase \in CopiedPhases
    BY <1>3, <1>5, <1>15, CopiedFacts DEF CopiedPhases
  <2> QED
    BY <1>6, <1>7, <1>9, <1>10, <1>15, <2>1, <2>2
<1>20. LakeTypes' /\ EpochInv' /\ UnwrittenInv' /\ StagedInv' /\ ReplayInv' /\ CacheInv'
  BY <1>3, <1>5, <1>14, <1>15, <1>16, <1>17, <1>18, <1>19, WorkerMoves
<1>21. TasksInv'
  <2>1. \A y \in Tasks : slot' = y <=> lakeRun'[y].pc \in {"chunk", "batch"}
    BY <1>1, <1>2, <1>5, <1>12, <1>14 DEF TasksInv
  <2> QED
    BY <1>12, <1>14, <1>15, <2>1 DEF TasksInv
<1>22. ASSUME NEW y \in Tasks PROVE TaskOK(lakeRun[y])'
  <2>1. CASE y = "cur"
    <3>1. TaskOK(r)'
      <4>1. r.at - 1 = a
        BY <1>3, <1>6, <1>12, <1>16
      <4>2. Covered(a)'
        <5>1. Advances
          BY <1>3, <1>5, TaskUnmoved
        <5>2. Effected \in Nat /\ Effected' \in Nat /\ Effected <= Effected'
          BY <5>1, EffectedType DEF LakeInv, Advances
        <5> QED
          BY <1>18, <5>2, CoveredStays
      <4>3. Covered(r.at - 1)'
        BY <4>1, <4>2
      <4>4. lakeCopy'.at < r.at /\ r.at <= r.to + 1 /\ r.to <= lakeWorker'.reach
        <5>1. lakeCopy.at \in Nat /\ lakeCopy.at <= lakeWorker.acked
          BY <1>3, CopiedFacts
        <5> QED
          BY <1>3, <1>5, <1>6, <1>7, <1>9, <1>12, <1>15, <5>1
      <4> QED
        BY <1>12, <4>3, <4>4 DEF TaskOK, After
    <3> QED
      BY <1>14, <2>1, <3>1, TaskOKNext
  <2>2. CASE y # "cur"
    BY <1>3, <1>5, <1>14, <1>19, <2>2, TaskUntouched
  <2> QED
    BY <2>1, <2>2
<1> QED
  BY <1>20, <1>21, <1>22 DEF LakeInv

LEMMA CheckpointPersisted ==
  ASSUME LakeInv, Lake!PersistCheckpoint
  PROVE  LakeInv'
<1>1. TasksInv /\ "cur" \in Tasks /\ "old" \in Tasks
  BY DEF LakeInv, Tasks
<1>2. /\ lake' = lake /\ epoch' = epoch /\ lakeMeta' = lakeMeta /\ cache' = cache
      /\ lakeCopy' = lakeCopy /\ lakeFaults' = lakeFaults /\ slot' = slot /\ lakeRun' = lakeRun
      /\ lakeWorker.phase = "stream"
      /\ lakeWorker' = [lakeWorker EXCEPT !.checkpoint = lakeWorker.acked]
  BY DEF Lake!PersistCheckpoint
<1>3. lakeWorker.copied
  BY <1>1, <1>2 DEF TasksInv
<1>4. /\ lakeWorker' \in LakeWorker /\ lakeWorker'.copied /\ lakeWorker'.phase = lakeWorker.phase
      /\ lakeWorker'.resets = lakeWorker.resets /\ lakeWorker'.reach = lakeWorker.reach
      /\ lakeWorker'.checkpoint = lakeWorker.acked /\ lakeWorker'.sent = lakeWorker.sent
      /\ lakeWorker'.acked = lakeWorker.acked
  <2>1. lakeWorker \in LakeWorker
    BY <1>3, CopiedFacts
  <2> QED
    BY <1>2, <1>3, <2>1 DEF LakeWorker
<1>5. PICK a \in Int : a = lakeWorker.acked
  BY <1>3, CopiedFacts
<1>6. Covered(a)
  BY <1>3, <1>5, CopiedFacts
<1>7. /\ lakeCopy.at <= a /\ a <= a /\ a <= lakeWorker'.sent /\ lakeWorker'.sent <= lakeWorker'.reach
      /\ lakeWorker.reach <= lakeWorker'.reach /\ lakeWorker'.reach \in Nat
      /\ lakeFaults' \in 0 .. MaxFaults /\ lakeFaults <= lakeFaults'
      /\ slot' \in {"free", "cur", "old"} /\ lakeWorker'.phase \in CopiedPhases
      /\ lakeRun' \in [Tasks -> TaskRecord]
  BY <1>2, <1>3, <1>4, <1>5, CopiedFacts
<1>8. LakeTypes' /\ EpochInv' /\ UnwrittenInv' /\ StagedInv' /\ ReplayInv' /\ CacheInv'
  BY <1>2, <1>3, <1>4, <1>5, <1>6, <1>7, WorkerMoves
<1>9. TasksInv'
  BY <1>1, <1>2, <1>3, <1>4 DEF TasksInv
<1>10. ASSUME NEW y \in Tasks PROVE TaskOK(lakeRun[y])'
  BY <1>2, <1>3, <1>7, TaskUntouched
<1> QED
  BY <1>8, <1>9, <1>10 DEF LakeInv

\* The stream goes on from the checkpoint, perhaps beside a task left over.
LEMMA StreamRetried ==
  ASSUME LakeInv, Lake!RetryStream
  PROVE  LakeInv'
<1>1. TasksInv /\ "cur" \in Tasks /\ "old" \in Tasks
  BY DEF LakeInv, Tasks
<1>2. /\ lake' = lake /\ epoch' = epoch /\ lakeMeta' = lakeMeta /\ cache' = cache
      /\ lakeCopy' = lakeCopy /\ lakeFaults' = lakeFaults /\ slot' = slot /\ lakeRun' = lakeRun
      /\ lakeWorker.phase = "failed" /\ lakeWorker.copied
      /\ lakeWorker' = [lakeWorker EXCEPT !.phase = "stream", !.sent = lakeWorker.checkpoint,
                                          !.acked = lakeWorker.checkpoint]
  BY DEF Lake!RetryStream
<1>3. lakeRun["cur"].pc = "none"
  BY <1>1, <1>2 DEF TasksInv
<1>4. /\ lakeWorker' \in LakeWorker /\ lakeWorker'.copied /\ lakeWorker'.phase = "stream"
      /\ lakeWorker'.resets = lakeWorker.resets /\ lakeWorker'.reach = lakeWorker.reach
      /\ lakeWorker'.checkpoint = lakeWorker.checkpoint
      /\ lakeWorker'.sent = lakeWorker.checkpoint /\ lakeWorker'.acked = lakeWorker.checkpoint
  <2>1. lakeWorker \in LakeWorker
    BY <1>2, CopiedFacts
  <2> QED
    BY <1>2, <2>1 DEF LakeWorker
<1>5. PICK c \in Int : c = lakeWorker.checkpoint
  BY <1>2, CopiedFacts
<1>6. Covered(c)
  BY <1>2, <1>5, CopiedFacts
<1>7. /\ lakeCopy.at <= c /\ c <= c /\ c <= lakeWorker'.sent /\ lakeWorker'.sent <= lakeWorker'.reach
      /\ lakeWorker.reach <= lakeWorker'.reach /\ lakeWorker'.reach \in Nat
      /\ lakeFaults' \in 0 .. MaxFaults /\ lakeFaults <= lakeFaults'
      /\ slot' \in {"free", "cur", "old"} /\ lakeWorker'.phase \in CopiedPhases
      /\ lakeRun' \in [Tasks -> TaskRecord]
  BY <1>2, <1>4, <1>5, CopiedFacts DEF CopiedPhases
<1>8. LakeTypes' /\ EpochInv' /\ UnwrittenInv' /\ StagedInv' /\ ReplayInv' /\ CacheInv'
  BY <1>2, <1>4, <1>5, <1>6, <1>7, WorkerMoves
<1>9. TasksInv'
  BY <1>1, <1>2, <1>3, <1>4 DEF TasksInv
<1>10. ASSUME NEW y \in Tasks PROVE TaskOK(lakeRun[y])'
  BY <1>2, <1>7, TaskUntouched
<1> QED
  BY <1>8, <1>9, <1>10 DEF LakeInv

\* The worker ends while its task runs on.
LEMMA WorkerLeavesTask ==
  ASSUME LakeInv, Lake!WorkerFails
  PROVE  LakeInv'
<1>1. TasksInv /\ "cur" \in Tasks /\ "old" \in Tasks /\ Tasks = {"cur", "old"}
  BY DEF LakeInv, Tasks
<1>2. /\ lake' = lake /\ epoch' = epoch /\ lakeMeta' = lakeMeta /\ cache' = cache
      /\ lakeCopy' = lakeCopy /\ lakeWorker.phase = "stream"
      /\ lakeWorker' = [lakeWorker EXCEPT !.phase = "failed", !.manual = FALSE]
  BY DEF Lake!WorkerFails, Lake!WorkerFailsAs
<1>3. lakeWorker.copied
  BY <1>1, <1>2 DEF TasksInv
<1>4. /\ lakeWorker' \in LakeWorker /\ lakeWorker'.copied /\ lakeWorker'.phase = "failed"
      /\ lakeWorker'.resets = lakeWorker.resets /\ lakeWorker'.reach = lakeWorker.reach
      /\ lakeWorker'.checkpoint = lakeWorker.checkpoint
      /\ lakeWorker'.sent = lakeWorker.sent /\ lakeWorker'.acked = lakeWorker.acked
  <2>1. lakeWorker \in LakeWorker
    BY <1>3, CopiedFacts
  <2> QED
    BY <1>2, <1>3, <2>1 DEF LakeWorker
<1>5. PICK a \in Int : a = lakeWorker.acked
  BY <1>3, CopiedFacts
<1>6. PICK c \in Int : c = lakeWorker.checkpoint
  BY <1>3, CopiedFacts
<1>7. Covered(a) /\ Covered(c)
  BY <1>3, <1>5, <1>6, CopiedFacts
<1>8. /\ lakeRun' \in [Tasks -> TaskRecord] /\ lakeRun'["cur"].pc = "none"
      /\ lakeRun'["old"] = lakeRun["old"] \/ lakeRun'["old"] = lakeRun["cur"]
      /\ slot' \in {"free", "cur", "old"}
      /\ \A y \in Tasks : slot' = y <=> lakeRun'[y].pc \in {"chunk", "batch"}
  <2>1. lakeRun \in [Tasks -> TaskRecord] /\ slot \in {"free", "cur", "old"}
    BY <1>3, CopiedFacts
  <2>2. \A y \in Tasks : slot = y <=> lakeRun[y].pc \in {"chunk", "batch"}
    BY <1>1 DEF TasksInv
  <2>3. CASE lakeRun["cur"].pc = "none" /\ UNCHANGED <<lakeRun, slot>>
    BY <2>1, <2>2, <2>3
  <2>4. CASE /\ lakeRun["cur"].pc # "none" /\ lakeRun["old"].pc = "none"
             /\ lakeRun' = [lakeRun EXCEPT !["old"] = lakeRun["cur"], !["cur"] = Lake!NoTask]
             /\ slot' = IF slot = "cur" THEN "old" ELSE slot
    <3>1. /\ lakeRun' \in [Tasks -> TaskRecord] /\ lakeRun'["cur"].pc = "none"
          /\ lakeRun'["old"] = lakeRun["cur"]
      BY <1>1, <2>1, <2>4, NoTaskType
    <3> QED
      BY <1>1, <2>1, <2>2, <2>4, <3>1
  <2> QED
    BY <2>3, <2>4 DEF Lake!WorkerFails
<1>9. /\ lakeCopy.at <= c /\ c <= a /\ a <= lakeWorker'.sent /\ lakeWorker'.sent <= lakeWorker'.reach
      /\ lakeWorker.reach <= lakeWorker'.reach /\ lakeWorker'.reach \in Nat
      /\ lakeFaults' \in 0 .. MaxFaults /\ lakeFaults <= lakeFaults'
      /\ lakeWorker'.phase \in CopiedPhases
  <2>1. lakeFaults \in 0 .. MaxFaults
    BY <1>3, CopiedFacts
  <2>2. lakeFaults' \in 0 .. MaxFaults /\ lakeFaults <= lakeFaults'
    BY <2>1, LakeAssumption DEF Lake!WorkerFails, Lake!Fault
  <2> QED
    BY <1>3, <1>4, <1>5, <1>6, <2>2, CopiedFacts DEF CopiedPhases
<1>10. LakeTypes' /\ EpochInv' /\ UnwrittenInv' /\ StagedInv' /\ ReplayInv' /\ CacheInv'
  BY <1>2, <1>3, <1>4, <1>5, <1>6, <1>7, <1>8, <1>9, WorkerMoves
<1>11. TasksInv'
  BY <1>1, <1>4, <1>8 DEF TasksInv
<1>12. ASSUME NEW y \in Tasks PROVE TaskOK(lakeRun[y])'
  <2>1. CASE y = "cur"
    BY <1>8, <2>1, NoTaskOK
  <2>2. CASE y = "old"
    <3>1. PICK z \in Tasks : lakeRun'[y] = lakeRun[z]
      BY <1>1, <1>8, <2>2
    <3> QED
      BY <1>2, <1>3, <1>9, <3>1, TaskUntouched
  <2> QED
    BY <1>1, <2>1, <2>2
<1> QED
  BY <1>10, <1>11, <1>12 DEF LakeInv

--------------------------------------------------------------------------------
(* The worker of a table that is not copied.                                *)

LEMMA UncopiedFacts ==
  ASSUME LakeInv
  PROVE  /\ LakeTypes /\ EpochInv /\ UnwrittenInv /\ StagedInv /\ CacheInv /\ TasksInv /\ LakeShape
         /\ lakeWorker.phase \notin CopiedPhases => ~lakeWorker.copied
         /\ lakeFaults \in 0 .. MaxFaults /\ lakeFaults \in Nat
         /\ lakeWorker \in LakeWorker /\ lakeWorker.resets \in Nat
         /\ epoch.current \in Lake!Epochs /\ epoch.current \in Nat
         /\ Lake!Epochs = 0 .. MaxResets + 2 * MaxFaults + 1
<1>1. /\ LakeTypes /\ EpochInv /\ UnwrittenInv /\ StagedInv /\ CacheInv /\ TasksInv /\ LakeShape
      /\ ReplayInv
  BY DEF LakeInv, LakeTypes
<1>2. lakeWorker.phase \notin CopiedPhases => ~lakeWorker.copied
  BY <1>1 DEF ReplayInv, CopiedPhases
<1>3. /\ lakeFaults \in 0 .. MaxFaults /\ lakeWorker \in LakeWorker /\ epoch.current \in Lake!Epochs
  BY <1>1 DEF LakeTypes
<1>4. lakeWorker.resets \in Nat
  BY <1>3 DEF LakeWorker
<1>5. lakeFaults \in Nat /\ epoch.current \in Nat
  BY <1>3, LakeAssumption DEF Lake!Epochs
<1> QED
  BY <1>1, <1>2, <1>3, <1>4, <1>5 DEF Lake!Epochs

\* No task runs on a table that is not copied.
LEMMA UncopiedNext ==
  ASSUME LakeInv, ~lakeWorker.copied, ~lakeWorker'.copied, lakeWorker'.phase # "stream",
         lakeRun' = lakeRun, slot' = slot
  PROVE  ReplayInv' /\ TasksInv' /\ \A x \in Tasks : TaskOK(lakeRun[x])'
<1>1. TasksInv
  BY DEF LakeInv
<1>2. \A x \in Tasks : lakeRun'[x].pc = "none"
  BY <1>1 DEF TasksInv
<1>3. ReplayInv'
  BY DEF ReplayInv
<1>4. "cur" \in Tasks /\ "old" \in Tasks
  BY DEF Tasks
<1>5. TasksInv'
  BY <1>1, <1>2, <1>4 DEF TasksInv
<1>6. \A x \in Tasks : TaskOK(lakeRun[x])'
  BY <1>2, NoTaskOK
<1> QED
  BY <1>3, <1>5, <1>6

LEMMA LakeKept ==
  ASSUME epoch' = epoch, lake'.rows = lake.rows, lake'.progress = lake.progress,
         lake'.markers = lake.markers
  PROVE  /\ Watermark' = Watermark /\ Marked' = Marked /\ (Unwritten' <=> Unwritten)
<1>1. Watermark' = Watermark
  BY DEF Watermark
<1>2. Marked' = Marked
  BY DEF Marked
<1> QED
  BY <1>1, <1>2 DEF Unwritten

\* A step within an epoch.
LEMMA EpochKept ==
  ASSUME LakeInv, epoch' = epoch, lake'.progress = lake.progress,
         \A e \in Lake!Epochs, r \in Lake!Positions :
           e > epoch.current /\ <<e, r>> \in lake'.markers => <<e, r>> \in lake.markers,
         lakeWorker'.resets = lakeWorker.resets,
         lakeFaults' = lakeFaults \/ (lakeFaults < MaxFaults /\ lakeFaults' = lakeFaults + 1),
         lakeWorker'.phase \in {"drop_table", "complete"} => epoch.pending # Lake!None,
         Unpaid' => Unpaid \/ lakeFaults' = lakeFaults + 1
  PROVE  EpochInv' /\ lakeFaults' \in 0 .. MaxFaults
<1>1. /\ EpochInv /\ lakeFaults \in Nat /\ lakeFaults \in 0 .. MaxFaults /\ lakeWorker.resets \in Nat
      /\ epoch.current \in Nat /\ MaxFaults \in Nat
  BY UncopiedFacts, LakeAssumption
<1>2. lakeFaults' \in 0 .. MaxFaults
  BY <1>1
<1>3. epoch'.current + (IF Unpaid' THEN 1 ELSE 0) <= lakeWorker'.resets + lakeFaults'
  <2>1. epoch.current + (IF Unpaid THEN 1 ELSE 0) <= lakeWorker.resets + lakeFaults
    BY <1>1 DEF EpochInv
  <2>2. CASE Unpaid' /\ ~ Unpaid
    BY <1>1, <2>1, <2>2
  <2>3. CASE Unpaid' /\ Unpaid
    BY <1>1, <2>1, <2>3
  <2>4. CASE ~ Unpaid' /\ Unpaid
    BY <1>1, <2>1, <2>4
  <2>5. CASE ~ Unpaid' /\ ~ Unpaid
    BY <1>1, <2>1, <2>5
  <2> QED
    BY <2>2, <2>3, <2>4, <2>5
<1>4. \A e \in Lake!Epochs : e > epoch'.current =>
        lake'.progress[e] = Lake!None /\ \A r \in Lake!Positions : <<e, r>> \notin lake'.markers
  BY <1>1 DEF EpochInv
<1>5. /\ epoch'.pending \in {Lake!None, epoch'.current + 1}
      /\ lakeWorker'.phase \in {"drop_table", "complete"} => epoch'.pending # Lake!None
      /\ lakeWorker'.resets <= MaxResets
  BY <1>1 DEF EpochInv
<1> QED
  BY <1>2, <1>3, <1>4, <1>5 DEF EpochInv

LEMMA PhaseChange ==
  ASSUME lakeWorker \in LakeWorker,
         NEW p \in {"drop", "drop_table", "complete", "prepare", "create", "create_table",
                    "create_store", "copying", "stream", "failed", "stopped", "recover",
                    "recover_store"},
         \/ lakeWorker' = [lakeWorker EXCEPT !.phase = p]
         \/ lakeWorker' = [lakeWorker EXCEPT !.phase = p, !.manual = FALSE]
  PROVE  /\ lakeWorker' \in LakeWorker /\ lakeWorker'.phase = p
         /\ lakeWorker'.copied = lakeWorker.copied /\ lakeWorker'.resets = lakeWorker.resets
         /\ lakeWorker'.sent = lakeWorker.sent /\ lakeWorker'.acked = lakeWorker.acked
         /\ lakeWorker'.checkpoint = lakeWorker.checkpoint /\ lakeWorker'.reach = lakeWorker.reach
<1>1. CASE lakeWorker' = [lakeWorker EXCEPT !.phase = p]
  BY <1>1 DEF LakeWorker
<1>2. CASE lakeWorker' = [lakeWorker EXCEPT !.phase = p, !.manual = FALSE]
  BY <1>2 DEF LakeWorker
<1> QED
  BY <1>1, <1>2

LEMMA TableCreated ==
  ASSUME LakeInv, Lake!CreateTable
  PROVE  LakeInv'
<1>1. /\ LakeTypes /\ EpochInv /\ UnwrittenInv /\ StagedInv /\ CacheInv /\ LakeShape
      /\ lakeWorker \in LakeWorker
  BY UncopiedFacts
<1>2. epoch' = epoch /\ cache' = cache /\ slot' = slot /\ lakeRun' = lakeRun /\ lakeFaults' = lakeFaults
  BY DEF Lake!CreateTable
<1>3. CASE lakeWorker.phase = "create"
  <2>1. PICK at \in lakeWorker.reach .. Len(LakeSource) :
          /\ lakeCopy' = [lakeCopy EXCEPT !.at = at, !.accepted = {}, !.staged = {}]
          /\ lakeMeta' = [state |-> "creating", snapshot |-> Lake!SnapshotAt(at)]
    BY <1>3 DEF Lake!CreateTable
  <2>2. lake' = lake /\ lakeWorker' = [lakeWorker EXCEPT !.phase = "create_table"]
    BY <1>3 DEF Lake!CreateTable, Lake!At
  <2>3. /\ lakeWorker' \in LakeWorker /\ lakeWorker'.phase = "create_table"
        /\ lakeWorker'.copied = lakeWorker.copied /\ lakeWorker'.resets = lakeWorker.resets
    BY <1>1, <2>2, PhaseChange
  <2>4. ~lakeWorker.copied /\ ~lakeWorker'.copied /\ Unwritten
    BY <1>1, <1>3, <2>3, UncopiedFacts DEF CopiedPhases, UnwrittenInv
  <2>5. at \in Nat /\ at \in Lake!Positions /\ Lake!SnapshotAt(at) \in Nat
    <3>1. lakeWorker.reach \in Nat
      BY <1>1, SourceFacts DEF LakeWorker
    <3>2. at \in Nat /\ at \in Lake!Positions
      BY <2>1, <3>1, SourceFacts
    <3> QED
      BY <3>2, SnapshotType
  <2>6. /\ lakeCopy' \in [buffered : BOOLEAN, at : Lake!Positions, accepted : SUBSET Lake!Positions,
                           staged : SUBSET Lake!Positions]
        /\ lakeCopy'.accepted = {} /\ lakeCopy'.staged = {}
    BY <1>1, <2>1, <2>5 DEF LakeTypes
  <2>7. lakeMeta' \in MetaRecord /\ lakeMeta'.state # "none"
    BY <2>1, <2>5 DEF MetaRecord
  <2>8. Unwritten' /\ Watermark' = Watermark
    BY <1>2, <2>2, <2>4, LakeKept
  <2>9. EpochInv' /\ lakeFaults' \in 0 .. MaxFaults
    BY <1>2, <2>2, <2>3, EpochKept DEF Unpaid
  <2>10. LakeShape'
    BY <1>1, <2>2 DEF LakeShape
  <2>11. LakeTypes'
    BY <1>1, <1>2, <2>3, <2>6, <2>7, <2>9, <2>10 DEF LakeTypes, MetaRecord
  <2>12. UnwrittenInv' /\ StagedInv'
    BY <2>3, <2>4, <2>6, <2>7, <2>8 DEF UnwrittenInv, StagedInv
  <2>13. CacheInv'
    BY <1>1, <1>2, <2>3, <2>8 DEF CacheInv
  <2>14. ReplayInv' /\ TasksInv' /\ \A x \in Tasks : TaskOK(lakeRun[x])'
    BY <1>2, <2>3, <2>4, UncopiedNext
  <2> QED
    BY <2>9, <2>11, <2>12, <2>13, <2>14 DEF LakeInv
<1>4. CASE lakeWorker.phase = "create_table"
  <2>1. /\ lakeCopy' = lakeCopy /\ lakeMeta' = lakeMeta
        /\ lakeWorker' = [lakeWorker EXCEPT !.phase = "create_store"]
        /\ lake' = IF lake.shape = Lake!None THEN [lake EXCEPT !.shape = lakeMeta.snapshot] ELSE lake
    BY <1>4 DEF Lake!CreateTable, Lake!At
  <2>2. /\ LakeShape' /\ lake'.rows = lake.rows /\ lake'.progress = lake.progress
        /\ lake'.markers = lake.markers
    BY <1>1, <2>1 DEF LakeShape
  <2>3. /\ lakeWorker' \in LakeWorker /\ lakeWorker'.phase = "create_store"
        /\ lakeWorker'.copied = lakeWorker.copied /\ lakeWorker'.resets = lakeWorker.resets
    BY <1>1, <2>1, PhaseChange
  <2>4. ~lakeWorker.copied /\ ~lakeWorker'.copied /\ Unwritten
    BY <1>1, <1>4, <2>3, UncopiedFacts DEF CopiedPhases, UnwrittenInv
  <2>5. Unwritten' /\ Watermark' = Watermark
    BY <1>2, <2>2, <2>4, LakeKept
  <2>6. EpochInv' /\ lakeFaults' \in 0 .. MaxFaults
    BY <1>2, <2>2, <2>3, EpochKept DEF Unpaid
  <2>7. LakeTypes'
    BY <1>1, <1>2, <2>1, <2>2, <2>3, <2>6 DEF LakeTypes
  <2>8. UnwrittenInv' /\ StagedInv'
    BY <1>1, <1>4, <2>1, <2>3, <2>4, <2>5 DEF UnwrittenInv, StagedInv
  <2>9. CacheInv'
    BY <1>1, <1>2, <2>3, <2>5 DEF CacheInv
  <2>10. ReplayInv' /\ TasksInv' /\ \A x \in Tasks : TaskOK(lakeRun[x])'
    BY <1>2, <2>3, <2>4, UncopiedNext
  <2> QED
    BY <2>6, <2>7, <2>8, <2>9, <2>10 DEF LakeInv
<1>5. CASE lakeWorker.phase = "create_store"
  <2>1. /\ lakeCopy' = lakeCopy /\ lakeMeta' = [lakeMeta EXCEPT !.state = "applied"]
        /\ lakeWorker' = [lakeWorker EXCEPT !.phase = "copying"] /\ lake' = lake
    BY <1>5 DEF Lake!CreateTable, Lake!At
  <2>2. LakeShape'
    BY <1>1, <2>1 DEF LakeShape
  <2>3. /\ lakeWorker' \in LakeWorker /\ lakeWorker'.phase = "copying"
        /\ lakeWorker'.copied = lakeWorker.copied /\ lakeWorker'.resets = lakeWorker.resets
    BY <1>1, <2>1, PhaseChange
  <2>4. ~lakeWorker.copied /\ ~lakeWorker'.copied /\ Unwritten
    BY <1>1, <1>5, <2>3, UncopiedFacts DEF CopiedPhases, UnwrittenInv
  <2>5. Unwritten' /\ Watermark' = Watermark
    BY <1>2, <2>1, <2>4, LakeKept
  <2>6. EpochInv' /\ lakeFaults' \in 0 .. MaxFaults
    BY <1>2, <2>1, <2>3, EpochKept DEF Unpaid
  <2>7. lakeMeta' \in MetaRecord /\ lakeMeta'.state # "none"
    BY <1>1, <2>1 DEF LakeTypes, MetaRecord
  <2>8. LakeTypes'
    BY <1>1, <1>2, <2>1, <2>2, <2>3, <2>6, <2>7 DEF LakeTypes, MetaRecord
  <2>9. UnwrittenInv'
    BY <2>3, <2>4, <2>7 DEF UnwrittenInv
  <2>10. StagedInv'
    <3>1. lakeCopy'.accepted = {} /\ lakeCopy'.staged = {}
      BY <1>1, <1>5, <2>1 DEF UnwrittenInv
    <3>2. lake'.rows = Lake!NoRows /\ Watermark' = Lake!None /\ Marked' = {}
      BY <2>5 DEF Unwritten
    <3>3. Lake!NoRows = Indicator({})
      BY DEF Lake!NoRows, Indicator
    <3>4. lake'.rows = Indicator(Marked')
      BY <3>2, <3>3, Zenon
    <3> QED
      BY <3>1, <3>2, <3>4 DEF StagedInv
  <2>11. CacheInv'
    BY <1>1, <1>2, <2>3, <2>5 DEF CacheInv
  <2>12. ReplayInv' /\ TasksInv' /\ \A x \in Tasks : TaskOK(lakeRun[x])'
    BY <1>2, <2>3, <2>4, UncopiedNext
  <2> QED
    BY <2>6, <2>8, <2>9, <2>10, <2>11, <2>12 DEF LakeInv
<1> QED
  BY <1>3, <1>4, <1>5 DEF Lake!CreateTable

\* A copy commits its batches without a marker, with their markers, or nothing.
LEMMA CopyWrites ==
  ASSUME LakeInv, lakeWorker.phase = "copying", epoch' = epoch,
         NEW B, B \subseteq Lake!RowsAt(lakeCopy.at), lake' \in {lake, Lake!Inserted(B)}
  PROVE  /\ LakeShape' /\ lake'.progress = lake.progress /\ Watermark' = Lake!None
         /\ lake'.rows = Indicator(Marked') /\ Marked' \subseteq Lake!RowsAt(lakeCopy.at)
         /\ Marked \subseteq Marked' /\ (lake' = Lake!Inserted(B) => B \subseteq Marked')
         /\ \A e \in Lake!Epochs, r \in Lake!Positions :
              e > epoch.current /\ <<e, r>> \in lake'.markers => <<e, r>> \in lake.markers
<1>1. /\ LakeShape /\ StagedInv /\ LakeTypes /\ epoch.current \in Nat /\ Lake!Epochs \subseteq Nat
  BY UncopiedFacts, LakeAssumption
<1>2. /\ lake.rows = Indicator(Marked) /\ Watermark = Lake!None
      /\ Marked \subseteq Lake!RowsAt(lakeCopy.at)
  BY <1>1 DEF StagedInv
<1>3. B \subseteq Lake!Positions
  BY <1>1, RowsInSource DEF LakeTypes
<1>4. PICK new : new = {r \in B : <<epoch.current, r>> \notin lake.markers}
  OBVIOUS
<1>5. PICK rows : rows = [i \in Lake!Positions |-> IF i \in new THEN lake.rows[i] + 1 ELSE lake.rows[i]]
  OBVIOUS
<1>6. PICK markers : markers = lake.markers \cup {<<epoch.current, r>> : r \in new}
  OBVIOUS
<1>7. Lake!Inserted(B) = [lake EXCEPT !.rows = rows, !.markers = markers]
  BY <1>4, <1>5, <1>6 DEF Lake!Inserted, Lake!Marker
<1>8. CASE lake' = lake /\ lake' # Lake!Inserted(B)
  <2>1. LakeShape'
    BY <1>1, <1>8 DEF LakeShape
  <2>2. Watermark' = Watermark /\ Marked' = Marked
    BY <1>8 DEF Watermark, Marked
  <2> QED
    BY <1>2, <1>8, <2>1, <2>2
<1>9. CASE lake' = Lake!Inserted(B)
  <2>1. lake' = [lake EXCEPT !.rows = rows, !.markers = markers]
    BY <1>7, <1>9
  <2>2. rows \in [Lake!Positions -> Nat]
    BY <1>1, <1>5 DEF LakeShape
  <2>3. /\ LakeShape' /\ lake'.progress = lake.progress /\ lake'.rows = rows
        /\ lake'.markers = markers
    BY <1>1, <2>1, <2>2 DEF LakeShape
  <2>4. Watermark' = Lake!None
    BY <1>2, <2>3 DEF Watermark
  <2>5. Marked' = Marked \cup new
    <3>1. Marked' = {r \in Lake!Positions : <<epoch.current, r>> \in markers}
      BY <2>3 DEF Marked
    <3>2. \A r \in Lake!Positions : <<epoch.current, r>> \in markers <=>
            <<epoch.current, r>> \in lake.markers \/ r \in new
      BY <1>6
    <3>3. new \subseteq Lake!Positions
      BY <1>3, <1>4
    <3>4. PICK M : M = Marked'
      OBVIOUS
    <3>5. M = Marked \cup new
      BY <3>1, <3>2, <3>3, <3>4 DEF Marked
    <3> QED
      BY <3>4, <3>5
  <2>6. new \cap Marked = {} /\ B \subseteq Marked \cup new /\ new \subseteq B
    BY <1>3, <1>4 DEF Marked
  <2>7. rows = Indicator(Marked \cup new)
    BY <1>2, <1>5, <2>6 DEF Indicator
  <2>8. lake'.rows = Indicator(Marked')
    BY <2>3, <2>5, <2>7, Zenon
  <2>9. \A e \in Lake!Epochs, r \in Lake!Positions :
          e > epoch.current /\ <<e, r>> \in markers => <<e, r>> \in lake.markers
    BY <1>1, <1>6
  <2> QED
    BY <1>2, <2>3, <2>4, <2>5, <2>6, <2>8, <2>9
<1> QED
  BY <1>8, <1>9

\* A step of the copy that goes on, or fails.
LEMMA CopyMoves ==
  ASSUME LakeInv, lakeWorker.phase = "copying",
         NEW B, B \subseteq Lake!RowsAt(lakeCopy.at), lake' \in {lake, Lake!Inserted(B)},
         epoch' = epoch, lakeMeta' = lakeMeta, cache' = cache, slot' = slot, lakeRun' = lakeRun,
         lakeFaults' = lakeFaults \/ (lakeFaults < MaxFaults /\ lakeFaults' = lakeFaults + 1),
         \/ lakeWorker' = lakeWorker
         \/ /\ lakeWorker' = [lakeWorker EXCEPT !.phase = "failed", !.manual = FALSE]
            /\ lakeFaults' = lakeFaults + 1,
         lakeCopy' \in [buffered : BOOLEAN, at : {lakeCopy.at}, accepted : SUBSET Lake!Positions,
                        staged : SUBSET Lake!RowsAt(lakeCopy.at)],
         ~lakeCopy'.buffered => lakeCopy'.staged = {},
         lakeCopy'.accepted \subseteq Marked' \cup lakeCopy'.staged \/ lakeWorker' # lakeWorker
  PROVE  LakeInv'
<1>1. /\ LakeTypes /\ UnwrittenInv /\ StagedInv /\ CacheInv /\ lakeWorker \in LakeWorker
      /\ ~lakeWorker.copied
  BY UncopiedFacts DEF CopiedPhases
<1>2. /\ LakeShape' /\ lake'.progress = lake.progress /\ Watermark' = Lake!None
      /\ lake'.rows = Indicator(Marked') /\ Marked' \subseteq Lake!RowsAt(lakeCopy.at)
      /\ \A e \in Lake!Epochs, r \in Lake!Positions :
           e > epoch.current /\ <<e, r>> \in lake'.markers => <<e, r>> \in lake.markers
  BY CopyWrites
<1>3. /\ lakeWorker' \in LakeWorker /\ lakeWorker'.copied = lakeWorker.copied
      /\ lakeWorker'.resets = lakeWorker.resets
      /\ \/ lakeWorker'.phase = "copying" /\ lakeWorker' = lakeWorker
         \/ lakeWorker'.phase = "failed" /\ lakeFaults' = lakeFaults + 1
  <2>1. CASE lakeWorker' = lakeWorker
    BY <1>1, <2>1
  <2>2. CASE /\ lakeWorker' = [lakeWorker EXCEPT !.phase = "failed", !.manual = FALSE]
             /\ lakeFaults' = lakeFaults + 1
    BY <1>1, <2>2, PhaseChange
  <2> QED
    BY <2>1, <2>2
<1>4. EpochInv' /\ lakeFaults' \in 0 .. MaxFaults
  BY <1>2, <1>3, EpochKept DEF Unpaid
<1>5. /\ lakeCopy'.at = lakeCopy.at /\ lakeCopy'.staged \subseteq Lake!RowsAt(lakeCopy.at)
      /\ lakeCopy' \in [buffered : BOOLEAN, at : Lake!Positions, accepted : SUBSET Lake!Positions,
                        staged : SUBSET Lake!Positions]
  <2>1. lakeCopy.at \in Lake!Positions
    BY <1>1 DEF LakeTypes
  <2>2. Lake!RowsAt(lakeCopy.at) \subseteq Lake!Positions
    BY <2>1, RowsInSource
  <2> QED
    BY <2>1, <2>2
<1>6. LakeTypes'
  BY <1>1, <1>2, <1>3, <1>4, <1>5 DEF LakeTypes
<1>7. lakeMeta.state # "none"
  BY <1>1 DEF UnwrittenInv
<1>8. UnwrittenInv'
  BY <1>1, <1>3, <1>7 DEF UnwrittenInv
<1>9. StagedInv'
  <2>1. Lake!RowsAt(lakeCopy'.at) = Lake!RowsAt(lakeCopy.at)
    BY <1>5
  <2>2. lakeWorker'.phase = "copying" => lakeCopy'.accepted \subseteq Marked' \cup lakeCopy'.staged
    BY <1>3
  <2> QED
    BY <1>2, <1>5, <2>1, <2>2 DEF StagedInv
<1>10. CacheInv'
  <2>1. Watermark' = Watermark
    BY <1>1, <1>2 DEF StagedInv
  <2> QED
    BY <1>1, <1>3, <2>1 DEF CacheInv
<1>11. ReplayInv' /\ TasksInv' /\ \A x \in Tasks : TaskOK(lakeRun[x])'
  BY <1>1, <1>3, UncopiedNext
<1> QED
  BY <1>4, <1>6, <1>8, <1>9, <1>10, <1>11 DEF LakeInv

LEMMA RowsCopied ==
  ASSUME LakeInv, NEW r \in Lake!Positions, Lake!WriteTableRows(r)
  PROVE  LakeInv'
<1>1. /\ lakeWorker.phase = "copying" /\ r \in Lake!RowsAt(lakeCopy.at)
      /\ epoch' = epoch /\ lakeMeta' = lakeMeta /\ cache' = cache /\ slot' = slot
      /\ lakeRun' = lakeRun /\ lakeFaults' = lakeFaults /\ lakeWorker' = lakeWorker
      /\ lake' = IF lakeCopy.buffered THEN lake ELSE Lake!Inserted({r})
      /\ lakeCopy' = [lakeCopy EXCEPT !.accepted = lakeCopy.accepted \cup {r},
                        !.staged = IF lakeCopy.buffered THEN lakeCopy.staged \cup {r} ELSE {}]
  BY DEF Lake!WriteTableRows
<1>2. LakeTypes /\ StagedInv
  BY UncopiedFacts
<1>3. /\ lakeCopy.staged \subseteq Lake!RowsAt(lakeCopy.at)
      /\ lakeCopy.accepted \subseteq Marked \cup lakeCopy.staged
      /\ ~lakeCopy.buffered => lakeCopy.staged = {}
  BY <1>1, <1>2 DEF StagedInv
<1>4. lakeCopy \in [buffered : BOOLEAN, at : {lakeCopy.at}, accepted : SUBSET Lake!Positions,
                    staged : SUBSET Lake!RowsAt(lakeCopy.at)]
  BY <1>2, <1>3 DEF LakeTypes
<1>5. /\ lakeCopy' \in [buffered : BOOLEAN, at : {lakeCopy.at}, accepted : SUBSET Lake!Positions,
                        staged : SUBSET Lake!RowsAt(lakeCopy.at)]
      /\ lakeCopy'.accepted = lakeCopy.accepted \cup {r}
      /\ lakeCopy'.staged = (IF lakeCopy.buffered THEN lakeCopy.staged \cup {r} ELSE {})
      /\ lakeCopy'.buffered = lakeCopy.buffered
  BY <1>1, <1>4
<1>6. /\ Marked \subseteq Marked' /\ (lake' = Lake!Inserted({r}) => r \in Marked')
  <2>1. {r} \subseteq Lake!RowsAt(lakeCopy.at) /\ lake' \in {lake, Lake!Inserted({r})}
    BY <1>1
  <2> QED
    BY <1>1, <2>1, CopyWrites
<1>7. lakeCopy'.accepted \subseteq Marked' \cup lakeCopy'.staged
  <2>1. CASE lakeCopy.buffered
    BY <1>3, <1>5, <1>6, <2>1
  <2>2. CASE ~lakeCopy.buffered
    BY <1>1, <1>3, <1>5, <1>6, <2>2
  <2> QED
    BY <2>1, <2>2
<1> QED
  <2>1. {r} \subseteq Lake!RowsAt(lakeCopy.at) /\ lake' \in {lake, Lake!Inserted({r})}
    BY <1>1
  <2> QED
    BY <1>1, <1>5, <1>7, <2>1, CopyMoves

LEMMA CopyBatchMayHaveCommitted ==
  ASSUME LakeInv, NEW r \in Lake!Positions, Lake!CopyBatchErrs(r)
  PROVE  LakeInv'
<1>1. /\ lakeWorker.phase = "copying" /\ {r} \subseteq Lake!RowsAt(lakeCopy.at)
      /\ epoch' = epoch /\ lakeMeta' = lakeMeta /\ cache' = cache /\ slot' = slot
      /\ lakeRun' = lakeRun /\ lakeCopy' = lakeCopy
      /\ lakeFaults < MaxFaults /\ lakeFaults' = lakeFaults + 1
      /\ lake' \in {lake, Lake!Inserted({r})}
      /\ \/ lakeWorker' = lakeWorker
         \/ lakeWorker' = [lakeWorker EXCEPT !.phase = "failed", !.manual = FALSE]
  BY DEF Lake!CopyBatchErrs, Lake!Fault, Lake!WorkerFailsAs
<1>2. LakeTypes /\ StagedInv
  BY UncopiedFacts
<1>3. /\ lakeCopy.staged \subseteq Lake!RowsAt(lakeCopy.at)
      /\ lakeCopy.accepted \subseteq Marked \cup lakeCopy.staged
      /\ ~lakeCopy.buffered => lakeCopy.staged = {}
  BY <1>1, <1>2 DEF StagedInv
<1>4. lakeCopy' \in [buffered : BOOLEAN, at : {lakeCopy.at}, accepted : SUBSET Lake!Positions,
                     staged : SUBSET Lake!RowsAt(lakeCopy.at)]
  BY <1>1, <1>2, <1>3 DEF LakeTypes
<1>5. Marked \subseteq Marked'
  BY <1>1, CopyWrites
<1>6. /\ lakeCopy'.accepted \subseteq Marked' \cup lakeCopy'.staged
      /\ ~lakeCopy'.buffered => lakeCopy'.staged = {}
  BY <1>1, <1>3, <1>5
<1> QED
  BY <1>1, <1>4, <1>6, CopyMoves

LEMMA BufferFlushed ==
  ASSUME LakeInv, Lake!FlushCopyBuffer \/ Lake!FlushErrs
  PROVE  LakeInv'
<1>1. /\ lakeWorker.phase = "copying"
      /\ epoch' = epoch /\ lakeMeta' = lakeMeta /\ cache' = cache /\ slot' = slot
      /\ lakeRun' = lakeRun /\ lakeCopy' = [lakeCopy EXCEPT !.staged = {}]
      /\ lake' \in {lake, Lake!Inserted(lakeCopy.staged)}
      /\ \/ /\ lakeWorker' = lakeWorker /\ lakeFaults' = lakeFaults
            /\ lake' = Lake!Inserted(lakeCopy.staged)
         \/ /\ lakeWorker' = [lakeWorker EXCEPT !.phase = "failed", !.manual = FALSE]
            /\ lakeFaults < MaxFaults /\ lakeFaults' = lakeFaults + 1
  BY DEF Lake!FlushCopyBuffer, Lake!FlushErrs, Lake!Fault, Lake!WorkerFailsAs
<1>2. LakeTypes /\ StagedInv /\ lakeWorker \in LakeWorker
  BY UncopiedFacts
<1>3. /\ lakeCopy.staged \subseteq Lake!RowsAt(lakeCopy.at)
      /\ lakeCopy.accepted \subseteq Marked \cup lakeCopy.staged
  BY <1>1, <1>2 DEF StagedInv
<1>4. /\ lakeCopy' \in [buffered : BOOLEAN, at : {lakeCopy.at}, accepted : SUBSET Lake!Positions,
                        staged : SUBSET Lake!RowsAt(lakeCopy.at)]
      /\ lakeCopy'.accepted = lakeCopy.accepted /\ lakeCopy'.staged = {}
  BY <1>1, <1>2 DEF LakeTypes
<1>5. PICK B : B = lakeCopy.staged
  OBVIOUS
<1>6. /\ B \subseteq Lake!RowsAt(lakeCopy.at) /\ lake' \in {lake, Lake!Inserted(B)}
      /\ (lake' = Lake!Inserted(lakeCopy.staged) => lake' = Lake!Inserted(B))
  BY <1>1, <1>3, <1>5
<1>7. Marked \subseteq Marked' /\ (lake' = Lake!Inserted(B) => B \subseteq Marked')
  BY <1>1, <1>6, CopyWrites
<1>8. lakeCopy'.accepted \subseteq Marked' \cup lakeCopy'.staged \/ lakeWorker' # lakeWorker
  <2>1. CASE lake' = Lake!Inserted(lakeCopy.staged)
    BY <1>3, <1>4, <1>5, <1>6, <1>7, <2>1
  <2>2. CASE lake' # Lake!Inserted(lakeCopy.staged)
    <3>1. lakeWorker'.phase = "failed"
      BY <1>1, <1>2, <2>2, PhaseChange
    <3> QED
      BY <1>1, <3>1
  <2> QED
    BY <2>1, <2>2
<1> QED
  BY <1>1, <1>4, <1>6, <1>8, CopyMoves

\* The barrier makes the copy durable; the stream starts at its position.
LEMMA CopyIsDurable ==
  ASSUME LakeInv, Lake!CopyDone
  PROVE  LakeInv'
<1>1. /\ lakeWorker.phase = "copying" /\ lakeCopy.accepted = Lake!RowsAt(lakeCopy.at)
      /\ epoch' = epoch /\ lakeMeta' = lakeMeta /\ cache' = cache /\ slot' = slot
      /\ lakeRun' = lakeRun /\ lakeFaults' = lakeFaults
      /\ lakeCopy' = [lakeCopy EXCEPT !.staged = {}, !.accepted = {}]
      /\ lake' = Lake!Inserted(lakeCopy.staged)
      /\ lakeWorker' = [lakeWorker EXCEPT !.phase = "stream", !.copied = TRUE, !.sent = lakeCopy.at,
                          !.acked = lakeCopy.at, !.checkpoint = lakeCopy.at, !.reach = lakeCopy.at]
  BY DEF Lake!CopyDone
<1>2. /\ LakeTypes /\ UnwrittenInv /\ StagedInv /\ CacheInv /\ TasksInv /\ lakeWorker \in LakeWorker
      /\ ~lakeWorker.copied
  BY <1>1, UncopiedFacts DEF CopiedPhases
<1>3. /\ lakeCopy.staged \subseteq Lake!RowsAt(lakeCopy.at)
      /\ lakeCopy.accepted \subseteq Marked \cup lakeCopy.staged
      /\ Watermark = Lake!None
  BY <1>1, <1>2 DEF StagedInv
<1>4. PICK B : B = lakeCopy.staged
  OBVIOUS
<1>5. B \subseteq Lake!RowsAt(lakeCopy.at) /\ lake' = Lake!Inserted(B)
  BY <1>1, <1>3, <1>4
<1>6. /\ LakeShape' /\ lake'.progress = lake.progress /\ Watermark' = Lake!None
      /\ lake'.rows = Indicator(Marked') /\ Marked' \subseteq Lake!RowsAt(lakeCopy.at)
      /\ Marked \subseteq Marked' /\ B \subseteq Marked'
      /\ \A e \in Lake!Epochs, r \in Lake!Positions :
           e > epoch.current /\ <<e, r>> \in lake'.markers => <<e, r>> \in lake.markers
  BY <1>1, <1>5, CopyWrites
<1>7. Marked' = Lake!RowsAt(lakeCopy.at)
  BY <1>1, <1>3, <1>4, <1>6
<1>8. lakeCopy.at \in Lake!Positions /\ lakeCopy.at \in Nat
  BY <1>2, SourceFacts DEF LakeTypes
<1>9. /\ lakeWorker' \in LakeWorker /\ lakeWorker'.phase = "stream" /\ lakeWorker'.copied
      /\ lakeWorker'.resets = lakeWorker.resets /\ lakeWorker'.sent = lakeCopy.at
      /\ lakeWorker'.acked = lakeCopy.at /\ lakeWorker'.checkpoint = lakeCopy.at
      /\ lakeWorker'.reach = lakeCopy.at
  BY <1>1, <1>2, <1>8 DEF LakeWorker
<1>10. /\ lakeCopy'.at = lakeCopy.at
       /\ lakeCopy' \in [buffered : BOOLEAN, at : Lake!Positions, accepted : SUBSET Lake!Positions,
                          staged : SUBSET Lake!Positions]
  BY <1>1, <1>2 DEF LakeTypes
<1>11. EpochInv' /\ lakeFaults' \in 0 .. MaxFaults
  BY <1>1, <1>6, <1>9, EpochKept DEF Unpaid
<1>12. LakeTypes'
  BY <1>1, <1>2, <1>6, <1>9, <1>10, <1>11 DEF LakeTypes
<1>13. lakeMeta.state # "none"
  BY <1>1, <1>2 DEF UnwrittenInv
<1>14. UnwrittenInv' /\ StagedInv'
  BY <1>1, <1>9, <1>13 DEF UnwrittenInv, StagedInv
<1>15. CacheInv'
  BY <1>1, <1>2, <1>3, <1>6, <1>9 DEF CacheInv
<1>16. Effected' = lakeCopy.at
  BY <1>6, <1>10 DEF Effected
<1>17. ReplayInv'
  <2>1. lake'.rows = Indicator(Lake!RowsAt(Effected'))
    BY <1>6, <1>7, <1>16, Zenon
  <2>2. Covered(lakeWorker.checkpoint)' /\ Covered(lakeWorker.acked)'
    BY <1>8, <1>9, <1>16 DEF Covered
  <2> QED
    BY <1>8, <1>9, <1>10, <1>16, <2>1, <2>2 DEF ReplayInv
<1>18. \A x \in Tasks : lakeRun'[x].pc = "none"
  BY <1>1, <1>2 DEF TasksInv
<1>19. TasksInv'
  <2>1. "cur" \in Tasks /\ "old" \in Tasks
    BY DEF Tasks
  <2> QED
    BY <1>1, <1>2, <1>9, <1>18, <2>1 DEF TasksInv
<1>20. \A x \in Tasks : TaskOK(lakeRun[x])'
  BY <1>18, NoTaskOK
<1> QED
  BY <1>11, <1>12, <1>14, <1>15, <1>17, <1>19, <1>20 DEF LakeInv

\* A step of the worker of an uncopied table, outside the copy itself: what the
\* steps of the reset and of a failure have in common.
LEMMA UncopiedMoves ==
  ASSUME LakeInv, ~lakeWorker.copied,
         LakeShape', lake'.progress = lake.progress, lake'.markers = lake.markers,
         lake'.rows \in {lake.rows, Lake!NoRows},
         epoch' \in [current : {epoch.current}, pending : {epoch.pending, epoch.current + 1}],
         cache' \in {cache, Lake!Unknown}, slot' = slot, lakeRun' = lakeRun,
         lakeMeta' \in MetaRecord, lakeMeta'.state = "none" => Unwritten' /\ lakeMeta' = Lake!NoMetadata,
         lakeCopy' \in {lakeCopy, [lakeCopy EXCEPT !.staged = {}]},
         lakeFaults' = lakeFaults \/ (lakeFaults < MaxFaults /\ lakeFaults' = lakeFaults + 1),
         lakeWorker' \in LakeWorker, ~lakeWorker'.copied, lakeWorker'.resets = lakeWorker.resets,
         lakeWorker'.phase \notin {"create_table", "create_store", "copying", "stream"},
         lakeWorker'.phase \in {"prepare", "create"} => Unwritten',
         lakeWorker'.phase = "complete" => lake'.rows = Lake!NoRows,
         lakeWorker'.phase \in {"drop_table", "complete"} =>
           epoch'.pending # Lake!None /\ cache' = Lake!Unknown,
         Unpaid' => Unpaid \/ lakeFaults' = lakeFaults + 1
  PROVE  LakeInv'
<1>1. /\ LakeTypes /\ EpochInv /\ CacheInv /\ lakeFaults \in Nat /\ lakeFaults \in 0 .. MaxFaults
      /\ lakeWorker.resets \in Nat /\ epoch.current \in Nat /\ MaxFaults \in Nat
      /\ epoch.current \in Lake!Epochs
  BY UncopiedFacts, LakeAssumption
<1>2. /\ epoch'.current = epoch.current /\ epoch'.pending \in {epoch.pending, epoch.current + 1}
      /\ epoch.pending \in {Lake!None, epoch.current + 1}
  BY <1>1 DEF EpochInv
<1>3. Watermark' = Watermark
  BY <1>2 DEF Watermark
<1>4. lakeFaults' \in 0 .. MaxFaults
  BY <1>1
<1>5. EpochInv'
  <2>1. epoch'.current + (IF Unpaid' THEN 1 ELSE 0) <= lakeWorker'.resets + lakeFaults'
    <3>1. epoch.current + (IF Unpaid THEN 1 ELSE 0) <= lakeWorker.resets + lakeFaults
      BY <1>1 DEF EpochInv
    <3>2. CASE Unpaid' /\ ~ Unpaid
      BY <1>1, <1>2, <3>1, <3>2
    <3>3. CASE Unpaid' /\ Unpaid
      BY <1>1, <1>2, <3>1, <3>3
    <3>4. CASE ~ Unpaid' /\ Unpaid
      BY <1>1, <1>2, <3>1, <3>4
    <3>5. CASE ~ Unpaid' /\ ~ Unpaid
      BY <1>1, <1>2, <3>1, <3>5
    <3> QED
      BY <3>2, <3>3, <3>4, <3>5
  <2>2. \A e \in Lake!Epochs : e > epoch'.current =>
          lake'.progress[e] = Lake!None /\ \A r \in Lake!Positions : <<e, r>> \notin lake'.markers
    BY <1>1, <1>2 DEF EpochInv
  <2>3. /\ epoch'.pending \in {Lake!None, epoch'.current + 1}
        /\ lakeWorker'.phase \in {"drop_table", "complete"} => epoch'.pending # Lake!None
        /\ lakeWorker'.resets <= MaxResets
    BY <1>1, <1>2 DEF EpochInv
  <2> QED
    BY <2>1, <2>2, <2>3 DEF EpochInv
<1>6. LakeTypes'
  <2>1. cache' \in [epoch : Int, key : Int]
    BY <1>1 DEF LakeTypes, Lake!Unknown
  <2>2. lakeCopy' \in [buffered : BOOLEAN, at : Lake!Positions, accepted : SUBSET Lake!Positions,
                       staged : SUBSET Lake!Positions]
    BY <1>1 DEF LakeTypes
  <2>3. epoch' \in [current : Lake!Epochs, pending : Int]
    BY <1>1, <1>2
  <2> QED
    BY <1>1, <1>4, <2>1, <2>2, <2>3 DEF LakeTypes, MetaRecord
<1>7. UnwrittenInv' /\ StagedInv'
  BY DEF UnwrittenInv, StagedInv
<1>8. CacheInv'
  BY <1>1, <1>2, <1>3 DEF CacheInv, Lake!Unknown
<1>9. ReplayInv' /\ TasksInv' /\ \A x \in Tasks : TaskOK(lakeRun[x])'
  BY UncopiedNext
<1> QED
  BY <1>5, <1>6, <1>7, <1>8, <1>9 DEF LakeInv

\* A dropped table keeps its watermarks and its markers.
LEMMA MissingShape ==
  ASSUME LakeInv, lake' = Lake!Missing
  PROVE  /\ LakeShape' /\ lake'.progress = lake.progress /\ lake'.markers = lake.markers
         /\ lake'.rows = Lake!NoRows
<1>1. LakeShape
  BY UncopiedFacts
<1>2. Lake!NoRows \in [Lake!Positions -> Nat]
  BY DEF Lake!NoRows
<1>3. lake' = [lake EXCEPT !.shape = Lake!None, !.rows = Lake!NoRows]
  BY DEF Lake!Missing
<1> QED
  BY <1>1, <1>2, <1>3 DEF LakeShape

LEMMA MetaKept ==
  ASSUME LakeInv, lakeMeta' = lakeMeta, epoch'.current = epoch.current,
         lake'.rows \in {lake.rows, Lake!NoRows}, lake'.progress = lake.progress,
         lake'.markers = lake.markers
  PROVE  /\ lakeMeta' \in MetaRecord
         /\ lakeMeta'.state = "none" => Unwritten' /\ lakeMeta' = Lake!NoMetadata
         /\ Unwritten => Unwritten'
<1>1. LakeTypes /\ UnwrittenInv
  BY UncopiedFacts
<1>2. Watermark' = Watermark
  BY DEF Watermark
<1>3. Marked' = Marked
  BY DEF Marked
<1>4. Unwritten => Unwritten'
  BY <1>2, <1>3 DEF Unwritten
<1> QED
  BY <1>1, <1>4 DEF LakeTypes, UnwrittenInv, MetaRecord

LEMMA CopyMayFail ==
  ASSUME LakeInv, Lake!CopyFails
  PROVE  LakeInv'
<1>1. lakeWorker \in LakeWorker /\ LakeShape /\ ~lakeWorker.copied
  BY UncopiedFacts DEF Lake!CopyFails, CopiedPhases
<1>2. /\ epoch' = epoch /\ lakeMeta' = lakeMeta /\ cache' = cache /\ slot' = slot
      /\ lakeRun' = lakeRun /\ lakeCopy' = lakeCopy
      /\ lakeFaults < MaxFaults /\ lakeFaults' = lakeFaults + 1
      /\ lakeWorker' = [lakeWorker EXCEPT !.phase = "failed", !.manual = FALSE]
  BY DEF Lake!CopyFails, Lake!Fault, Lake!WorkerFailsAs
<1>3. /\ LakeShape' /\ lake'.progress = lake.progress /\ lake'.markers = lake.markers
      /\ lake'.rows \in {lake.rows, Lake!NoRows}
  <2>1. CASE lake' = lake
    BY <1>1, <2>1 DEF LakeShape
  <2>2. CASE lake' = Lake!Missing
    BY <2>2, MissingShape
  <2> QED
    BY <2>1, <2>2 DEF Lake!CopyFails
<1>4. /\ lakeWorker' \in LakeWorker /\ lakeWorker'.phase = "failed"
      /\ lakeWorker'.copied = lakeWorker.copied /\ lakeWorker'.resets = lakeWorker.resets
  BY <1>1, <1>2, PhaseChange
<1>5. /\ lakeMeta' \in MetaRecord
      /\ lakeMeta'.state = "none" => Unwritten' /\ lakeMeta' = Lake!NoMetadata
  BY <1>2, <1>3, MetaKept
<1>6. epoch' \in [current : {epoch.current}, pending : {epoch.pending, epoch.current + 1}]
  BY <1>2 DEF LakeInv, LakeTypes
<1> QED
  BY <1>1, <1>2, <1>3, <1>4, <1>5, <1>6, UncopiedMoves

LEMMA EpochBegun ==
  ASSUME LakeInv, Lake!BeginEpoch
  PROVE  LakeInv'
<1>1. /\ lakeWorker \in LakeWorker /\ LakeShape /\ ~lakeWorker.copied /\ LakeTypes /\ EpochInv
      /\ epoch.current \in Nat
  BY UncopiedFacts DEF Lake!BeginEpoch, CopiedPhases
<1>2. /\ lake' = lake /\ lakeMeta' = lakeMeta /\ cache' = Lake!Unknown /\ slot' = slot
      /\ lakeRun' = lakeRun /\ lakeCopy' = [lakeCopy EXCEPT !.staged = {}]
      /\ lakeFaults' = lakeFaults /\ lakeWorker.phase = "drop"
      /\ lakeWorker' = [lakeWorker EXCEPT !.phase = "drop_table"]
      /\ epoch' = [epoch EXCEPT !.pending = IF epoch.pending = Lake!None THEN epoch.current + 1
                                            ELSE epoch.pending]
  BY DEF Lake!BeginEpoch, Lake!At
<1>3. LakeShape'
  BY <1>1, <1>2 DEF LakeShape
<1>4. /\ lakeWorker' \in LakeWorker /\ lakeWorker'.phase = "drop_table"
      /\ lakeWorker'.copied = lakeWorker.copied /\ lakeWorker'.resets = lakeWorker.resets
  BY <1>1, <1>2, PhaseChange
<1>5. /\ epoch' \in [current : {epoch.current}, pending : {epoch.pending, epoch.current + 1}]
      /\ epoch'.current = epoch.current /\ epoch'.pending # Lake!None
  BY <1>1, <1>2 DEF LakeTypes
<1>6. /\ lakeMeta' \in MetaRecord
      /\ lakeMeta'.state = "none" => Unwritten' /\ lakeMeta' = Lake!NoMetadata
  BY <1>2, <1>5, MetaKept
<1> QED
  BY <1>1, <1>2, <1>3, <1>4, <1>5, <1>6, UncopiedMoves DEF Unpaid

LEMMA TableDropped ==
  ASSUME LakeInv, Lake!DropTable
  PROVE  LakeInv'
<1>1. /\ lakeWorker \in LakeWorker /\ ~lakeWorker.copied /\ EpochInv /\ CacheInv /\ LakeTypes
  BY UncopiedFacts DEF Lake!DropTable, CopiedPhases
<1>2. /\ lake' = Lake!Missing /\ lakeMeta' = lakeMeta /\ cache' = cache /\ slot' = slot
      /\ lakeRun' = lakeRun /\ lakeCopy' = lakeCopy /\ epoch' = epoch
      /\ lakeFaults' = lakeFaults /\ lakeWorker.phase = "drop_table"
      /\ lakeWorker' = [lakeWorker EXCEPT !.phase = "complete"]
  BY DEF Lake!DropTable, Lake!At
<1>3. /\ LakeShape' /\ lake'.progress = lake.progress /\ lake'.markers = lake.markers
      /\ lake'.rows = Lake!NoRows
  BY <1>2, MissingShape
<1>4. /\ lakeWorker' \in LakeWorker /\ lakeWorker'.phase = "complete"
      /\ lakeWorker'.copied = lakeWorker.copied /\ lakeWorker'.resets = lakeWorker.resets
  BY <1>1, <1>2, PhaseChange
<1>5. /\ epoch' \in [current : {epoch.current}, pending : {epoch.pending, epoch.current + 1}]
      /\ epoch'.pending # Lake!None /\ cache' = Lake!Unknown
  BY <1>1, <1>2 DEF LakeTypes, EpochInv, CacheInv
<1>6. /\ lakeMeta' \in MetaRecord
      /\ lakeMeta'.state = "none" => Unwritten' /\ lakeMeta' = Lake!NoMetadata
  BY <1>2, <1>3, MetaKept
<1> QED
  BY <1>1, <1>2, <1>3, <1>4, <1>5, <1>6, UncopiedMoves DEF Unpaid

LEMMA CopyPrepared ==
  ASSUME LakeInv, Lake!PrepareForCopy
  PROVE  LakeInv'
<1>1. /\ lakeWorker \in LakeWorker /\ LakeShape /\ ~lakeWorker.copied /\ UnwrittenInv /\ LakeTypes
  BY UncopiedFacts DEF Lake!PrepareForCopy, CopiedPhases
<1>2. /\ lake' = lake /\ lakeMeta' = Lake!NoMetadata /\ cache' = cache /\ slot' = slot
      /\ lakeRun' = lakeRun /\ lakeCopy' = lakeCopy /\ epoch' = epoch
      /\ lakeFaults' = lakeFaults /\ lakeWorker.phase = "prepare"
      /\ lakeWorker' = [lakeWorker EXCEPT !.phase = "create"]
  BY DEF Lake!PrepareForCopy, Lake!At
<1>3. LakeShape'
  BY <1>1, <1>2 DEF LakeShape
<1>4. /\ lakeWorker' \in LakeWorker /\ lakeWorker'.phase = "create"
      /\ lakeWorker'.copied = lakeWorker.copied /\ lakeWorker'.resets = lakeWorker.resets
  BY <1>1, <1>2, PhaseChange
<1>5. epoch' \in [current : {epoch.current}, pending : {epoch.pending, epoch.current + 1}]
  BY <1>1, <1>2 DEF LakeTypes
<1>6. Unwritten'
  <2>1. Unwritten
    BY <1>1, <1>2 DEF UnwrittenInv
  <2> QED
    BY <1>2, <2>1, LakeKept
<1>7. lakeMeta' \in MetaRecord
  BY <1>2 DEF Lake!NoMetadata, MetaRecord
<1> QED
  BY <1>1, <1>2, <1>3, <1>4, <1>5, <1>6, <1>7, UncopiedMoves DEF Unpaid

\* The epoch after the drop has no watermark and no marker.
LEMMA EpochCompleted ==
  ASSUME LakeInv, Lake!CompleteEpoch
  PROVE  LakeInv'
<1>1. /\ lakeWorker \in LakeWorker /\ LakeShape /\ ~lakeWorker.copied /\ LakeTypes /\ EpochInv
      /\ UnwrittenInv /\ CacheInv /\ epoch.current \in Nat /\ lakeFaults \in 0 .. MaxFaults
      /\ lakeFaults \in Nat /\ lakeWorker.resets \in Nat
      /\ Lake!Epochs = 0 .. MaxResets + 2 * MaxFaults + 1
  BY UncopiedFacts DEF Lake!CompleteEpoch, CopiedPhases
<1>2. /\ lake' = lake /\ lakeMeta' = lakeMeta /\ cache' = cache /\ slot' = slot
      /\ lakeRun' = lakeRun /\ lakeCopy' = lakeCopy
      /\ lakeFaults' = lakeFaults /\ lakeWorker.phase = "complete"
      /\ lakeWorker' = [lakeWorker EXCEPT !.phase = "prepare"]
      /\ epoch' = [current |-> epoch.pending, pending |-> Lake!None]
  BY DEF Lake!CompleteEpoch, Lake!At
<1>3. /\ lakeWorker' \in LakeWorker /\ lakeWorker'.phase = "prepare"
      /\ lakeWorker'.copied = lakeWorker.copied /\ lakeWorker'.resets = lakeWorker.resets
  BY <1>1, <1>2, PhaseChange
<1>4. epoch'.current = epoch.current + 1 /\ epoch'.pending = Lake!None
  BY <1>1, <1>2 DEF EpochInv
<1>5. Unpaid /\ ~ Unpaid'
  BY <1>1, <1>2, <1>3 DEF Unpaid
<1>6. epoch.current + 1 <= lakeWorker.resets + lakeFaults /\ lakeWorker.resets <= MaxResets
  BY <1>1, <1>5 DEF EpochInv
<1>7. epoch'.current \in Lake!Epochs
  BY <1>1, <1>4, <1>6, LakeAssumption
<1>8. /\ lake.progress[epoch.current + 1] = Lake!None
      /\ \A r \in Lake!Positions : <<epoch.current + 1, r>> \notin lake.markers
  <2>1. epoch.current + 1 \in Lake!Epochs /\ epoch.current + 1 > epoch.current
    BY <1>1, <1>4, <1>7
  <2> QED
    BY <1>1, <2>1 DEF EpochInv
<1>9. Watermark' = Lake!None
  BY <1>2, <1>4, <1>8 DEF Watermark
<1>10. Marked' = {}
  BY <1>2, <1>4, <1>8 DEF Marked
<1>11. Unwritten'
  BY <1>1, <1>2, <1>9, <1>10 DEF Unwritten, UnwrittenInv
<1>12. EpochInv'
  <2>1. \A e \in Lake!Epochs : e > epoch'.current =>
          lake'.progress[e] = Lake!None /\ \A r \in Lake!Positions : <<e, r>> \notin lake'.markers
    <3>1. \A e \in Lake!Epochs : e > epoch'.current => e > epoch.current
      BY <1>1, <1>4
    <3> QED
      BY <1>1, <1>2, <3>1 DEF EpochInv
  <2>2. epoch'.current + 0 <= lakeWorker'.resets + lakeFaults'
    BY <1>1, <1>2, <1>3, <1>4, <1>6
  <2> QED
    BY <1>2, <1>3, <1>4, <1>5, <1>6, <2>1, <2>2 DEF EpochInv
<1>13. LakeTypes'
  <2>1. LakeShape'
    BY <1>1, <1>2 DEF LakeShape
  <2>2. epoch' \in [current : Lake!Epochs, pending : Int]
    BY <1>2, <1>4, <1>7
  <2> QED
    BY <1>1, <1>2, <1>3, <2>1, <2>2 DEF LakeTypes
<1>14. UnwrittenInv' /\ StagedInv'
  BY <1>1, <1>2, <1>3, <1>11 DEF UnwrittenInv, StagedInv
<1>15. CacheInv'
  BY <1>1, <1>2, <1>3 DEF CacheInv, Lake!Unknown
<1>16. ReplayInv' /\ TasksInv' /\ \A x \in Tasks : TaskOK(lakeRun[x])'
  BY <1>1, <1>2, <1>3, UncopiedNext
<1> QED
  BY <1>12, <1>13, <1>14, <1>15, <1>16 DEF LakeInv

--------------------------------------------------------------------------------
(* Resets, crashes and restarts.                                            *)

LEMMA CopyRetried ==
  ASSUME LakeInv, Lake!RetryCopy
  PROVE  LakeInv'
<1>1. /\ lakeWorker \in LakeWorker /\ LakeShape /\ LakeTypes /\ EpochInv /\ TasksInv
      /\ UnwrittenInv /\ CacheInv /\ epoch.current \in Nat /\ lakeFaults \in Nat
      /\ lakeWorker.resets \in Nat
  BY UncopiedFacts
<1>2. /\ lake' = lake /\ lakeMeta' = lakeMeta /\ cache' = cache /\ slot' = slot
      /\ lakeRun' = lakeRun /\ lakeCopy' = lakeCopy /\ epoch' = epoch /\ lakeFaults' = lakeFaults
      /\ lakeWorker.phase = "failed" /\ lakeRun["old"].pc = "none"
      /\ lakeWorker.copied => lakeWorker.resets < MaxResets
      /\ lakeWorker' = [lakeWorker EXCEPT
                          !.phase = IF lakeMeta = Lake!NoMetadata THEN "prepare" ELSE "drop",
                          !.copied = FALSE,
                          !.resets = IF lakeWorker.copied THEN lakeWorker.resets + 1
                                     ELSE lakeWorker.resets]
  BY DEF Lake!RetryCopy
<1>3. /\ lakeWorker' \in LakeWorker /\ ~lakeWorker'.copied
      /\ lakeWorker'.phase = (IF lakeMeta = Lake!NoMetadata THEN "prepare" ELSE "drop")
      /\ lakeWorker'.resets = (IF lakeWorker.copied THEN lakeWorker.resets + 1
                               ELSE lakeWorker.resets)
  <2>1. PICK p : p = IF lakeMeta = Lake!NoMetadata THEN "prepare" ELSE "drop"
    OBVIOUS
  <2>2. PICK n : n = IF lakeWorker.copied THEN lakeWorker.resets + 1 ELSE lakeWorker.resets
    OBVIOUS
  <2>3. p \in {"prepare", "drop"} /\ n \in Nat
    BY <1>1, <2>1, <2>2
  <2>4. lakeWorker' = [lakeWorker EXCEPT !.phase = p, !.copied = FALSE, !.resets = n]
    BY <1>2, <2>1, <2>2
  <2>5. /\ lakeWorker' \in LakeWorker /\ lakeWorker'.copied = FALSE
        /\ lakeWorker'.phase = p /\ lakeWorker'.resets = n
    BY <1>1, <2>3, <2>4 DEF LakeWorker
  <2> QED
    BY <2>1, <2>2, <2>5
<1>4. Tasks = {"cur", "old"} /\ lakeRun["cur"].pc = "none"
  BY <1>1, <1>2 DEF TasksInv, Tasks
<1>5. \A x \in Tasks : lakeRun'[x].pc = "none"
  BY <1>2, <1>4
<1>6. /\ Watermark' = Watermark /\ (Unwritten' <=> Unwritten)
  BY <1>2, LakeKept
<1>7. EpochInv'
  <2>1. MaxResets \in Nat
    BY LakeAssumption
  <2>2. lakeWorker'.resets <= MaxResets
    BY <1>1, <1>2, <1>3, <2>1 DEF EpochInv
  <2>3. epoch'.current + (IF Unpaid' THEN 1 ELSE 0) <= lakeWorker'.resets + lakeFaults'
    <3>1. CASE lakeWorker.copied
      <4>1. epoch.current <= lakeWorker.resets + lakeFaults
        BY <1>1, <3>1 DEF EpochInv, Unpaid
      <4> QED
        BY <1>1, <1>2, <1>3, <3>1, <4>1
    <3>2. CASE ~lakeWorker.copied
      <4>1. epoch.current + 1 <= lakeWorker.resets + lakeFaults
        BY <1>1, <1>2, <3>2 DEF EpochInv, Unpaid
      <4> QED
        BY <1>1, <1>2, <1>3, <3>2, <4>1
    <3> QED
      BY <3>1, <3>2
  <2> QED
    BY <1>1, <1>2, <1>3, <2>2, <2>3 DEF EpochInv
<1>8. LakeTypes'
  BY <1>1, <1>2, <1>3 DEF LakeTypes, LakeShape
<1>9. UnwrittenInv' /\ StagedInv'
  <2>1. lakeMeta = Lake!NoMetadata => lakeMeta.state = "none"
    BY DEF Lake!NoMetadata
  <2> QED
    BY <1>1, <1>2, <1>3, <1>6, <2>1 DEF UnwrittenInv, StagedInv
<1>10. CacheInv'
  BY <1>1, <1>2, <1>3, <1>6 DEF CacheInv
<1>11. ReplayInv'
  BY <1>3 DEF ReplayInv
<1>12. TasksInv'
  BY <1>1, <1>2, <1>3, <1>4, <1>5 DEF TasksInv
<1>13. \A x \in Tasks : TaskOK(lakeRun[x])'
  BY <1>5, NoTaskOK
<1> QED
  BY <1>7, <1>8, <1>9, <1>10, <1>11, <1>12, <1>13 DEF LakeInv

\* A step of the process as a whole: it ends, or takes up where it ended.
LEMMA ProcessMoves ==
  ASSUME LakeInv, NEW p \in {"stopped", "recover", "recover_store", "failed"},
         \/ lakeWorker' = [lakeWorker EXCEPT !.phase = p]
         \/ lakeWorker' = [lakeWorker EXCEPT !.phase = p, !.manual = FALSE],
         LakeShape', lake'.rows = lake.rows, lake'.progress = lake.progress,
         lake'.markers = lake.markers, epoch' = epoch, cache' \in {cache, Lake!Unknown},
         lakeCopy' \in {lakeCopy, [lakeCopy EXCEPT !.staged = {}]},
         lakeMeta' \in MetaRecord, lakeMeta'.state = "none" => lakeMeta' = lakeMeta,
         lakeFaults' = lakeFaults \/ (lakeFaults < MaxFaults /\ lakeFaults' = lakeFaults + 1),
         lakeWorker.phase \in CopiedPhases \/ lakeFaults' = lakeFaults + 1,
         lakeRun' \in [Tasks -> TaskRecord], slot' \in {"free", "cur", "old"},
         lakeRun'["cur"].pc = "none",
         \A x \in Tasks : slot' = x <=> lakeRun'[x].pc \in {"chunk", "batch"},
         \A x \in Tasks : \/ lakeRun'[x].pc = "none"
                          \/ lakeRun'[x] = lakeRun[x] /\ cache' = cache /\ lakeCopy' = lakeCopy
  PROVE  LakeInv'
<1>1. /\ lakeWorker \in LakeWorker /\ LakeShape /\ LakeTypes /\ EpochInv /\ TasksInv
      /\ UnwrittenInv /\ CacheInv /\ ReplayInv
  BY UncopiedFacts DEF LakeInv
<1>2. /\ lakeWorker' \in LakeWorker /\ lakeWorker'.phase = p
      /\ lakeWorker'.copied = lakeWorker.copied /\ lakeWorker'.resets = lakeWorker.resets
      /\ lakeWorker'.sent = lakeWorker.sent /\ lakeWorker'.acked = lakeWorker.acked
      /\ lakeWorker'.checkpoint = lakeWorker.checkpoint /\ lakeWorker'.reach = lakeWorker.reach
  BY <1>1, PhaseChange
<1>3. /\ lakeCopy'.at = lakeCopy.at
      /\ lakeCopy' \in [buffered : BOOLEAN, at : Lake!Positions, accepted : SUBSET Lake!Positions,
                        staged : SUBSET Lake!Positions]
  BY <1>1 DEF LakeTypes
<1>4. Watermark' = Watermark /\ (Unwritten' <=> Unwritten)
  BY LakeKept
<1>5. Effected' = Effected
  BY <1>3, <1>4 DEF Effected
<1>6. EpochInv' /\ lakeFaults' \in 0 .. MaxFaults
  BY <1>2, EpochKept DEF Unpaid, CopiedPhases
<1>7. cache' \in [epoch : Int, key : Int]
  BY <1>1 DEF LakeTypes, Lake!Unknown
<1>8. LakeTypes'
  BY <1>1, <1>2, <1>3, <1>6, <1>7 DEF LakeTypes, MetaRecord
<1>9. UnwrittenInv' /\ StagedInv'
  BY <1>1, <1>2, <1>4 DEF UnwrittenInv, StagedInv
<1>10. CacheInv'
  BY <1>1, <1>2, <1>4 DEF CacheInv, Lake!Unknown
<1>11. ReplayInv'
  <2> SUFFICES ASSUME lakeWorker.copied PROVE ReplayInv'
    BY <1>2 DEF ReplayInv
  <2>1. Covered(lakeWorker.checkpoint) /\ Covered(lakeWorker.acked)
    BY <1>1 DEF ReplayInv
  <2>2. Covered(lakeWorker.checkpoint)' /\ Covered(lakeWorker.acked)'
    BY <1>2, <1>5, <2>1 DEF Covered
  <2>3. lake.rows = Indicator(Lake!RowsAt(Effected))
    BY <1>1 DEF ReplayInv
  <2>4. lake'.rows = Indicator(Lake!RowsAt(Effected'))
    BY <1>5, <2>3, Zenon
  <2> QED
    BY <1>1, <1>2, <1>3, <1>5, <2>2, <2>4 DEF ReplayInv
<1>12. TasksInv'
  <2>1. ~lakeWorker.copied => \A x \in Tasks : lakeRun'[x].pc = "none"
    BY <1>1 DEF TasksInv
  <2> QED
    BY <1>2, <2>1 DEF TasksInv
<1>13. ASSUME NEW x \in Tasks PROVE TaskOK(lakeRun[x])'
  <2>1. CASE lakeRun'[x].pc = "none"
    BY <2>1, NoTaskOK
  <2>2. CASE lakeRun'[x].pc # "none"
    <3>1. lakeRun'[x] = lakeRun[x] /\ cache' = cache /\ lakeCopy' = lakeCopy
      BY <2>2
    <3>2. lakeWorker.copied
      BY <1>1, <2>2, <3>1 DEF TasksInv
    <3>3. Advances
      BY <3>1, <3>2, UnmovedAdvances
    <3>4. PICK t : t = lakeRun[x]
      OBVIOUS
    <3>5. t \in TaskRecord /\ TaskOK(t) /\ lakeWorker.reach \in Nat
      BY <3>2, <3>4, CopiedFacts
    <3>6. lakeWorker'.reach \in Nat /\ lakeWorker.reach <= lakeWorker'.reach
      BY <1>2, <3>5
    <3>7. TaskOK(t)'
      BY <1>4, <3>1, <3>3, <3>5, <3>6, TaskKept
    <3> QED
      BY <3>1, <3>4, <3>7, TaskOKNext
  <2> QED
    BY <2>1, <2>2
<1> QED
  BY <1>6, <1>8, <1>9, <1>10, <1>11, <1>12, <1>13 DEF LakeInv

LEMMA ProcessEnded ==
  ASSUME LakeInv, Lake!Crash \/ Lake!StopOnManualError
  PROVE  LakeInv'
<1>1. /\ lakeRun' = [x \in Tasks |-> Lake!NoTask] /\ slot' = "free" /\ cache' = Lake!Unknown
      /\ lakeCopy' = [lakeCopy EXCEPT !.staged = {}]
      /\ lakeWorker' = [lakeWorker EXCEPT !.phase = "stopped", !.manual = FALSE]
      /\ lake' = lake /\ epoch' = epoch /\ lakeMeta' = lakeMeta
  BY DEF Lake!Crash, Lake!StopOnManualError, Lake!ProcessEnds, Lake!WorkerFailsAs, Tasks
<1>2. /\ \/ lakeFaults < MaxFaults /\ lakeFaults' = lakeFaults + 1
         \/ lakeFaults' = lakeFaults /\ lakeWorker.phase \in CopiedPhases
  BY DEF Lake!Crash, Lake!StopOnManualError, Lake!Fault, CopiedPhases
<1>3. /\ lakeRun' \in [Tasks -> TaskRecord] /\ \A x \in Tasks : lakeRun'[x].pc = "none"
  BY <1>1, NoTaskType
<1>4. lakeMeta' \in MetaRecord /\ LakeShape'
  BY <1>1, UncopiedFacts DEF LakeTypes, LakeShape, MetaRecord
<1>5. /\ lakeRun'["cur"].pc = "none"
      /\ \A x \in Tasks : slot' = x <=> lakeRun'[x].pc \in {"chunk", "batch"}
  BY <1>1, <1>3 DEF Tasks
<1>6. "stopped" \in {"stopped", "recover", "recover_store", "failed"}
  OBVIOUS
<1> QED
  BY <1>1, <1>2, <1>3, <1>4, <1>5, <1>6, ProcessMoves

LEMMA ProcessStarts ==
  ASSUME LakeInv, Lake!Startup
  PROVE  LakeInv'
<1>1. /\ LakeTypes /\ TasksInv /\ LakeShape
      /\ epoch' = epoch /\ cache' = cache /\ slot' = slot /\ lakeRun' = lakeRun
      /\ lakeCopy' = lakeCopy /\ lakeWorker.phase \in {"stopped", "recover", "recover_store"}
  BY UncopiedFacts DEF Lake!Startup
<1>2. lakeWorker.phase \in CopiedPhases
  BY <1>1 DEF CopiedPhases
<1>3. PICK p \in {"stopped", "recover", "recover_store", "failed"} :
        lakeWorker' = [lakeWorker EXCEPT !.phase = p]
  BY DEF Lake!Startup, Lake!At
<1>4. /\ LakeShape' /\ lake'.rows = lake.rows /\ lake'.progress = lake.progress
      /\ lake'.markers = lake.markers
  <2>1. lake' \in {lake, Lake!Altered(lakeMeta.snapshot)}
    BY DEF Lake!Startup
  <2> QED
    BY <2>1, AlteredShape
<1>5. lakeMeta' \in MetaRecord /\ (lakeMeta'.state = "none" => lakeMeta' = lakeMeta)
  <2>1. lakeMeta \in MetaRecord
    BY <1>1 DEF LakeTypes, MetaRecord
  <2>2. lakeMeta' = lakeMeta \/ lakeMeta' = [lakeMeta EXCEPT !.state = "applied"]
    BY DEF Lake!Startup
  <2> QED
    BY <2>1, <2>2 DEF MetaRecord
<1>6. lakeFaults' = lakeFaults \/ (lakeFaults < MaxFaults /\ lakeFaults' = lakeFaults + 1)
  BY DEF Lake!Startup, Lake!Fault
<1>7. /\ lakeRun' \in [Tasks -> TaskRecord] /\ slot' \in {"free", "cur", "old"}
      /\ lakeRun'["cur"].pc = "none"
      /\ \A x \in Tasks : slot' = x <=> lakeRun'[x].pc \in {"chunk", "batch"}
  BY <1>1 DEF LakeTypes, TasksInv
<1> QED
  BY <1>1, <1>2, <1>3, <1>4, <1>5, <1>6, <1>7, ProcessMoves

--------------------------------------------------------------------------------
(* The theorem.                                                             *)

LEMMA LakeInitially == ASSUME Lake!Init PROVE LakeInv
<1>1. /\ lake = [shape |-> Lake!None, rows |-> Lake!NoRows,
                 progress |-> [e \in Lake!Epochs |-> Lake!None], markers |-> {}]
      /\ epoch = [current |-> 0, pending |-> Lake!None]
      /\ lakeMeta = Lake!NoMetadata /\ cache = Lake!Unknown /\ slot = "free"
      /\ lakeRun = [x \in Tasks |-> Lake!NoTask]
      /\ lakeCopy \in [buffered : BOOLEAN, at : {0}, accepted : {{}}, staged : {{}}]
      /\ lakeFaults = 0
  BY DEF Lake!Init, Tasks
<1>2. lakeWorker = [phase |-> "create", copied |-> FALSE, resets |-> 0, manual |-> FALSE,
                    sent |-> 0, acked |-> 0, checkpoint |-> 0, reach |-> 0]
  BY DEF Lake!Init
<1>3. 0 \in Lake!Positions /\ 0 \in Lake!Epochs
  BY SourceFacts, LakeAssumption DEF Lake!Epochs
<1>4. lakeWorker \in LakeWorker /\ lakeWorker.phase = "create" /\ ~lakeWorker.copied /\ lakeWorker.resets = 0
  BY <1>2, <1>3 DEF LakeWorker
<1>5. /\ lake.rows = Lake!NoRows /\ lake.markers = {} /\ \A e \in Lake!Epochs : lake.progress[e] = Lake!None
      /\ LakeShape
  BY <1>1 DEF LakeShape, Lake!NoRows
<1>6. lakeRun \in [Tasks -> TaskRecord] /\ \A x \in Tasks : lakeRun[x].pc = "none"
  BY <1>1, NoTaskType
<1>7. LakeTypes
  BY <1>1, <1>3, <1>4, <1>5, <1>6, LakeAssumption DEF LakeTypes, Lake!NoMetadata, Lake!Unknown
<1>8. Unwritten
  BY <1>1, <1>3, <1>5 DEF Unwritten, Watermark, Marked
<1>9. EpochInv
  BY <1>1, <1>4, <1>5, LakeAssumption DEF EpochInv, Unpaid
<1>10. UnwrittenInv /\ StagedInv /\ ReplayInv
  BY <1>1, <1>4, <1>8 DEF UnwrittenInv, StagedInv, ReplayInv
<1>11. TasksInv
  BY <1>1, <1>4, <1>6 DEF TasksInv, Tasks
<1>12. CacheInv
  BY <1>1, <1>4 DEF CacheInv, Lake!Unknown
<1>13. \A x \in Tasks : TaskOK(lakeRun[x])
  BY <1>6 DEF TaskOK
<1> QED
  BY <1>7, <1>9, <1>10, <1>11, <1>12, <1>13 DEF LakeInv

LEMMA LakeStutters == ASSUME LakeInv, UNCHANGED Lake!vars PROVE LakeInv'
<1>1. /\ lake' = lake /\ epoch' = epoch /\ lakeMeta' = lakeMeta /\ cache' = cache /\ slot' = slot
      /\ lakeRun' = lakeRun /\ lakeCopy' = lakeCopy /\ lakeWorker' = lakeWorker
      /\ lakeFaults' = lakeFaults
  BY DEF Lake!vars
<1>2. LakeTypes' /\ EpochInv' /\ UnwrittenInv' /\ StagedInv'
  BY <1>1 DEF LakeInv, LakeTypes, LakeShape, EpochInv, Unpaid, UnwrittenInv, Unwritten, StagedInv,
              Watermark, Marked
<1>3. ReplayInv' /\ TasksInv' /\ CacheInv'
  BY <1>1 DEF LakeInv, ReplayInv, TasksInv, CacheInv, Watermark, Effected, Covered
<1>4. \A x \in Tasks : TaskOK(lakeRun[x])'
  BY <1>1 DEF LakeInv, TaskOK, After, Watermark, Effected, Covered
<1> QED
  BY <1>2, <1>3, <1>4 DEF LakeInv

LEMMA LakeSteps == ASSUME LakeInv, Lake!Next PROVE LakeInv'
<1>1. ASSUME NEW x \in {"cur", "old"}, Lake!TaskStep(x) PROVE LakeInv'
  <2>1. x \in Tasks
    BY DEF Tasks
  <2> QED
    BY <1>1, <2>1, SegmentStarts, CursorIsRead, TableMadeReady, SlotAcquired, BatchPrepared,
       BatchCommits, RefusedBatchFails, RelationHandled, PlanApplied, SchemaIsApplied,
       WrittenEventsAcked, Zenon DEF Lake!TaskStep
<1>2. ASSUME NEW x \in {"cur", "old"}, Lake!TaskFault(x) PROVE LakeInv'
  <2>1. x \in Tasks
    BY DEF Tasks
  <2> QED
    BY <1>2, <2>1, BatchMayHaveCommitted, FailedCallFails, Zenon DEF Lake!TaskFault
<1>3. ASSUME Lake!WorkerStep PROVE LakeInv'
  BY <1>3, TableCreated, RowsCopied, BufferFlushed, CopyIsDurable, EpochBegun, TableDropped,
     EpochCompleted, CopyPrepared, EventsDispatched, CheckpointPersisted, StreamRetried,
     CopyRetried, ProcessEnded, ProcessStarts, Zenon DEF Lake!WorkerStep
<1>4. ASSUME Lake!WorkerFault PROVE LakeInv'
  BY <1>4, CopyBatchMayHaveCommitted, BufferFlushed, CopyMayFail, WorkerLeavesTask, ProcessEnded,
     Zenon DEF Lake!WorkerFault
<1> QED
  BY <1>1, <1>2, <1>3, <1>4, Zenon DEF Lake!Next

\* The witness is the checkpoint, or the watermark where that is ahead of it.
LEMMA LakeInvApplied == ASSUME LakeInv PROVE AppliedOnce
<1> SUFFICES ASSUME lakeWorker.copied
             PROVE  \E p \in lakeWorker.checkpoint .. lakeWorker.reach :
                      lake.rows = Indicator(Lake!RowsAt(p))
  BY DEF AppliedOnce, Lake!AppliedOnce, Indicator
<1>1. /\ lakeWorker.checkpoint \in Lake!Positions /\ lakeWorker.reach \in Nat
      /\ lakeWorker.checkpoint \in Nat /\ lakeWorker.checkpoint <= lakeWorker.reach
      /\ Covered(lakeWorker.checkpoint)
  <2>1. lakeWorker.checkpoint \in Lake!Positions
    BY CopiedFacts DEF LakeWorker
  <2> QED
    BY <2>1, CopiedFacts
<1>2. /\ lake.rows = Indicator(Lake!RowsAt(Effected)) /\ Effected <= lakeWorker.reach
      /\ Effected \in Lake!Positions /\ Effected \in Nat
  BY EffectedType DEF LakeInv, ReplayInv
<1>3. CASE lakeWorker.checkpoint <= Effected
  <2>1. Effected \in lakeWorker.checkpoint .. lakeWorker.reach
    BY <1>1, <1>2, <1>3
  <2> QED
    BY <1>2, <2>1
<1>4. CASE ~ (lakeWorker.checkpoint <= Effected)
  <2>1. Keyless(Effected, lakeWorker.checkpoint)
    BY <1>1, <1>4 DEF Covered
  <2>2. Lake!RowsAt(Effected) = Lake!RowsAt(lakeWorker.checkpoint)
    BY <1>1, <1>2, <1>4, <2>1, RowsKeyless
  <2>3. lake.rows = Indicator(Lake!RowsAt(lakeWorker.checkpoint))
    BY <1>2, <2>2
  <2>4. lakeWorker.checkpoint \in lakeWorker.checkpoint .. lakeWorker.reach
    BY <1>1
  <2> QED
    BY <2>3, <2>4
<1> QED
  BY <1>3, <1>4

\* A copied DuckLake table holds every row of the source at one position between
\* the checkpoint and the furthest event dispatched, and each of them once:
\* whatever the events, the batches cut from them, ambiguous commits, a task left
\* over beside the retry that replays its events, resets and crashes
\* (apply_table_batch_with_retry, read_table_replay_cursor).
THEOREM RowsAppliedOnce == Lake!Spec => []AppliedOnce
<1>1. Lake!Init => LakeInv
  BY LakeInitially
<1>2. LakeInv /\ [Lake!Next]_(Lake!vars) => LakeInv'
  BY LakeSteps, LakeStutters
<1>3. LakeInv => AppliedOnce
  BY LakeInvApplied
<1> QED
  BY <1>1, <1>2, <1>3, PTL DEF Lake!Spec
================================================================================
