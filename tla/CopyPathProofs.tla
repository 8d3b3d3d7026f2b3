---------------------------- MODULE CopyPathProofs ----------------------------
(***************************************************************************)
(* TLAPS proofs about the copy path: a copy stored as finished is exactly  *)
(* one snapshot (TableCopy), no stream loses or sits on rows               *)
(* (MemoryBackpressure), and batches are sized by the memory there is      *)
(* (BatchGovernor).  They hold for every number of copy workers,           *)
(* partitions, batches, attempts and faults, of streams and items, of      *)
(* producers and limits.                                                   *)
(***************************************************************************)
EXTENDS MCCopyPath, FiniteSetTheorems, NaturalsInduction, WellFoundedInduction, TLAPS

-----------------------------------------------------------------------------
(* The copy: the inductive invariant.                                      *)

Progress == [rows : Nat, barrier : BOOLEAN]

CopyWorker ==
    [at : {"idle", "claim", "stream", "writing", "completed"},
     part : Parts \cup {None}, batch : Nat, progress : Progress]

CopyTypes ==
    /\ attempt \in Nat /\ seq \in Nat
    /\ plan \subseteq Parts /\ queue \subseteq plan
    /\ worker \in [Workers -> CopyWorker] /\ total \in Progress

(* Without metadata there is nothing to drop: the test start_table_sync    *)
(* makes before it calls drop_table_for_copy.                              *)
MetadataInv == ~ metadata => rows = {} /\ seen = {} /\ flying = {}

(* Between the drop and the copy the destination is empty and no write of  *)
(* an earlier attempt is on its way.                                       *)
CleanInv == phase \in {"prepare", "slot"} => rows = {} /\ seen = {} /\ flying = {}

(* IDs handed out so far in this attempt. *)
Issued(id) == \E s \in 0..seq - 1 : id = <<attempt, s>>

(* During the copy, every write on its way is of this attempt, under an ID *)
(* of its own, and some worker waits for it.                               *)
FlightInv ==
    phase = "copying" =>
        /\ \A b \in flying : \E w \in Workers : worker[w].at = "writing" /\ Mine(w, b)
        /\ \A b, c \in flying : b.part = c.part \/ b.id = c.id => b = c
        /\ \A b \in flying : b.id \notin seen /\ Issued(b.id)
        /\ \A i \in seen : Issued(i)

Active(w) == worker[w].at \in {"stream", "writing"}

(* No two workers hold a partition, and a held one is out of the queue.    *)
(* A worker ends only when the queue is empty.                             *)
ClaimInv ==
    phase = "copying" =>
        /\ \A w \in Workers : Active(w) => worker[w].part \in plan \ queue
        /\ \A v, w \in Workers :
              Active(v) /\ Active(w) /\ worker[v].part = worker[w].part => v = w
        /\ \A w \in Workers : worker[w].at \in {"idle", "completed"} => queue = {}
        /\ \A w \in Workers : worker[w].at = "idle" => worker[w] = Idle
        /\ \A w \in Workers : worker[w].at = "writing" => worker[w].batch \in 1..Batches
        /\ \A w \in Workers : Active(w) => worker[w].batch >= 1

Held(p, k) == \E r \in rows : r.part = p /\ r.batch = k

(* Every partition out of the queue is at the destination up to the batch  *)
(* its worker is at, and to its end once no worker holds it.               *)
RowsInv ==
    phase = "copying" =>
        /\ rows \subseteq [attempt : {attempt}, part : plan, batch : 1..Batches,
                           status : {"accepted", "durable"}]
        /\ \A p \in plan \ queue, k \in 1..Batches :
              (\A w \in Workers : Active(w) /\ worker[w].part = p => k < worker[w].batch)
                 => Held(p, k)

(* An accepted batch is known to the worker that wrote it or to the total, *)
(* and nobody has counted a batch without metadata.                        *)
BarrierInv ==
    phase = "copying" =>
        /\ \A r \in rows : r.status = "accepted" =>
              total.barrier \/ \E w \in Workers : worker[w].progress.barrier
        /\ total.rows # 0 => metadata
        /\ \A w \in Workers : worker[w].progress.rows # 0 => metadata

Exact == rows = [attempt : {attempt}, part : plan, batch : 1..Batches, status : {"durable"}]

DoneInv ==
    /\ phase \in {"barrier", "syncwait"} => flying = {} /\ metadata /\ Exact
    /\ state = "finished" => phase = "syncwait"

CopyInv ==
    /\ CopyTypes /\ MetadataInv /\ CleanInv /\ FlightInv /\ ClaimInv /\ RowsInv
    /\ BarrierInv /\ DoneInv

-----------------------------------------------------------------------------
(* Facts about the operators.                                              *)

(* The constant records are well typed. *)
LEMMA IdleFacts ==
    /\ NoProgress \in Progress /\ Idle \in CopyWorker
    /\ Idle.at = "idle" /\ [Idle EXCEPT !.at = "claim"] \in CopyWorker
    /\ [Idle EXCEPT !.at = "claim"].at = "claim"
    /\ Idle.progress = NoProgress /\ NoProgress.rows = 0 /\ NoProgress.barrier = FALSE
    /\ [Idle EXCEPT !.at = "claim"].progress = NoProgress
BY DEF Idle, NoProgress, Progress, CopyWorker, None

(* Leaving the copy, by an abort or by its end, keeps the types. *)
LEMMA AbortTypes ==
    ASSUME CopyTypes, NEW next, Abort(next), UNCHANGED <<attempt, seq, plan, total>>
    PROVE  CopyTypes' /\ phase' = next
BY IdleFacts DEF CopyTypes, Abort

(* Outside the copy, its part of the invariant is idle. *)
LEMMA NotCopying ==
    ASSUME phase' # "copying"
    PROVE  FlightInv' /\ ClaimInv' /\ RowsInv' /\ BarrierInv'
BY DEF FlightInv, ClaimInv, RowsInv, BarrierInv

(* A worker of the copy is typed, and so are its fields. *)
LEMMA WorkerFacts ==
    ASSUME CopyTypes, NEW w \in Workers
    PROVE  /\ worker[w] \in CopyWorker /\ worker[w].progress \in Progress
           /\ worker[w].progress.rows \in Nat /\ worker[w].progress.barrier \in BOOLEAN
           /\ worker[w].batch \in Nat /\ worker[w].part \in Parts \cup {None}
           /\ worker[w].at \in {"idle", "claim", "stream", "writing", "completed"}
BY DEF CopyTypes, CopyWorker, Progress

-----------------------------------------------------------------------------
(* One lemma per step of the copy.                                         *)

(* A new attempt starts from a clean destination. *)
LEMMA RunInv == CopyInv /\ RunTableCopy => CopyInv'
<1>. SUFFICES ASSUME CopyInv, RunTableCopy PROVE CopyInv'
  OBVIOUS
<1>1. /\ rows' = {} /\ seen' = {} /\ flying' = {} /\ phase' = "copying"
      /\ queue' = plan' /\ plan' \subseteq Parts
      /\ attempt' = attempt + 1 /\ seq' = 0 /\ total' = NoProgress
      /\ state' = state /\ metadata' = metadata /\ phase = "slot"
  BY DEF CopyInv, CleanInv, RunTableCopy
<1>2. worker' \in [Workers -> CopyWorker]
  BY IdleFacts DEF RunTableCopy
<1>3. \A w \in Workers :
         \/ worker'[w] = Idle /\ plan' = {}
         \/ worker'[w] = [Idle EXCEPT !.at = "claim"]
  BY DEF RunTableCopy
<1>4. CopyTypes'
  BY <1>1, <1>2, IdleFacts DEF CopyTypes, CopyInv
<1>5. FlightInv'
  BY <1>1 DEF FlightInv
<1>6. ClaimInv'
  BY <1>1, <1>3, IdleFacts DEF ClaimInv, Active
<1>7. RowsInv'
  BY <1>1 DEF RowsInv
<1>8. BarrierInv'
  BY <1>1, <1>3, IdleFacts DEF BarrierInv
<1>. QED
  BY <1>1, <1>4, <1>5, <1>6, <1>7, <1>8
     DEF CopyInv, MetadataInv, CleanInv, DoneInv

(* Claiming moves a partition from the queue to one worker, at its first   *)
(* batch.                                                                  *)
LEMMA ClaimStep == \A w \in Workers : CopyInv /\ ClaimPartition(w) => CopyInv'
<1>. SUFFICES ASSUME NEW w \in Workers, CopyInv, ClaimPartition(w) PROVE CopyInv'
  OBVIOUS
<1>1. /\ phase = "copying" /\ worker[w].at = "claim"
      /\ UNCHANGED <<phase, state, attempt, seq, plan, total, rows, seen, flying, metadata>>
  BY DEF ClaimPartition, Copying
<1>2. worker \in [Workers -> CopyWorker] /\ worker[w] \in CopyWorker
  BY WorkerFacts DEF CopyInv, CopyTypes
<1>3. CASE /\ queue = {} /\ queue' = queue
           /\ worker' = [worker EXCEPT ![w].at = "completed"]
  <2>1. /\ worker'[w].at = "completed" /\ worker'[w].progress = worker[w].progress
        /\ \A v \in Workers : v # w => worker'[v] = worker[v]
    BY <1>2, <1>3 DEF CopyWorker
  <2>2. CopyTypes'
    <3>1. worker' \in [Workers -> CopyWorker]
      BY <1>2, <1>3 DEF CopyWorker
    <3>. QED
      BY <1>1, <1>3, <3>1 DEF CopyInv, CopyTypes
  <2>3. \A v \in Workers : Active(v)' => Active(v) /\ worker'[v] = worker[v]
    BY <2>1 DEF Active
  <2>4. \A v \in Workers : Active(v) => Active(v)'
    BY <1>1, <2>1 DEF Active
  <2>5. FlightInv'
    <3>1. ASSUME NEW b \in flying
          PROVE  \E v \in Workers : worker'[v].at = "writing" /\ Mine(v, b)'
      <4>1. PICK v \in Workers : worker[v].at = "writing" /\ Mine(v, b)
        BY <1>1 DEF CopyInv, FlightInv
      <4>2. v # w
        BY <1>1, <4>1
      <4>. QED
        BY <1>1, <2>1, <4>1, <4>2 DEF Mine
    <3>. QED
      BY <1>1, <3>1 DEF CopyInv, FlightInv, Issued
  <2>6. ClaimInv'
    BY <1>1, <1>3, <2>1, <2>3 DEF CopyInv, ClaimInv
  <2>7. RowsInv'
    BY <1>1, <1>3, <2>3, <2>4 DEF CopyInv, RowsInv, Held
  <2>8. BarrierInv'
    BY <1>1, <2>1 DEF CopyInv, BarrierInv
  <2>. QED
    BY <1>1, <2>2, <2>5, <2>6, <2>7, <2>8
       DEF CopyInv, MetadataInv, CleanInv, DoneInv, Exact
<1>4. ASSUME NEW p \in queue, queue' = queue \ {p},
             worker' = [worker EXCEPT ![w] = [@ EXCEPT !.at = "stream", !.part = p,
                                                      !.batch = 1]]
      PROVE  CopyInv'
  <2>0. p \in Parts /\ p \in plan
    BY <1>4 DEF CopyInv, CopyTypes
  <2>1. /\ worker'[w].at = "stream" /\ worker'[w].progress = worker[w].progress
        /\ worker'[w].part = p /\ worker'[w].batch = 1
        /\ \A v \in Workers : v # w => worker'[v] = worker[v]
    BY <1>2, <1>4 DEF CopyWorker
  <2>2. CopyTypes'
    <3>1. worker' \in [Workers -> CopyWorker]
      BY <1>2, <1>4, <2>0 DEF CopyWorker
    <3>. QED
      BY <1>1, <1>4, <3>1 DEF CopyInv, CopyTypes
  <2>3. \A v \in Workers : v # w => (Active(v)' <=> Active(v))
    BY <2>1 DEF Active
  <2>4. \A v \in Workers : Active(v) => v # w /\ worker[v].part # p
    BY <1>1, <1>4 DEF CopyInv, ClaimInv, Active
  <2>5. FlightInv'
    <3>1. ASSUME NEW b \in flying
          PROVE  \E v \in Workers : worker'[v].at = "writing" /\ Mine(v, b)'
      <4>1. PICK v \in Workers : worker[v].at = "writing" /\ Mine(v, b)
        BY <1>1 DEF CopyInv, FlightInv
      <4>2. v # w
        BY <1>1, <4>1
      <4>. QED
        BY <1>1, <2>1, <4>1, <4>2 DEF Mine
    <3>. QED
      BY <1>1, <3>1 DEF CopyInv, FlightInv, Issued
  <2>6. ClaimInv'
    <3>1. \A v \in Workers : Active(v)' => worker'[v].part \in plan' \ queue'
      BY <1>1, <1>4, <2>0, <2>1, <2>3 DEF CopyInv, ClaimInv
    <3>2. \A u, v \in Workers :
             Active(u)' /\ Active(v)' /\ worker'[u].part = worker'[v].part => u = v
      BY <1>1, <2>1, <2>3, <2>4 DEF CopyInv, ClaimInv
    <3>3. \A v \in Workers : worker'[v].at \notin {"idle", "completed"}
      BY <1>1, <1>4, <2>1 DEF CopyInv, ClaimInv
    <3>4. \A v \in Workers : worker'[v].at = "writing" => worker'[v].batch \in 1..Batches
      BY <1>1, <2>1 DEF CopyInv, ClaimInv
    <3>5. \A v \in Workers : Active(v)' => worker'[v].batch >= 1
      BY <1>1, <2>1, <2>3 DEF CopyInv, ClaimInv
    <3>. QED
      BY <3>1, <3>2, <3>3, <3>4, <3>5 DEF ClaimInv
  <2>7. RowsInv'
    <3>1. ASSUME NEW q \in plan, q \notin queue', NEW k \in 1..Batches,
                 \A v \in Workers : Active(v)' /\ worker'[v].part = q => k < worker'[v].batch
          PROVE  Held(q, k)'
      <4>1. q # p
        BY <3>1, <2>1, CopyAssumption DEF Active
      <4>2. \A v \in Workers : Active(v) /\ worker[v].part = q => k < worker[v].batch
        BY <3>1, <2>1, <2>3, <2>4
      <4>. QED
        BY <1>1, <1>4, <3>1, <4>1, <4>2 DEF CopyInv, RowsInv, Held
    <3>. QED
      BY <1>1, <3>1 DEF CopyInv, RowsInv
  <2>8. BarrierInv'
    BY <1>1, <2>1 DEF CopyInv, BarrierInv
  <2>. QED
    BY <1>1, <2>2, <2>5, <2>6, <2>7, <2>8
       DEF CopyInv, MetadataInv, CleanInv, DoneInv, Exact
<1>. QED
  BY <1>3, <1>4 DEF ClaimPartition

(* A batch leaves under an ID nobody has used. *)
LEMMA WriteStep == \A w \in Workers : CopyInv /\ WriteBatch(w) => CopyInv'
<1>. SUFFICES ASSUME NEW w \in Workers, CopyInv, WriteBatch(w) PROVE CopyInv'
  OBVIOUS
<1>0. PICK b : b = Batch(w)
  OBVIOUS
<1>1. /\ phase = "copying" /\ worker[w].at = "stream" /\ worker[w].batch <= Batches
      /\ seq' = seq + 1 /\ flying' = flying \cup {b} /\ metadata' = TRUE
      /\ worker' = [worker EXCEPT ![w].at = "writing"]
      /\ UNCHANGED <<phase, state, attempt, plan, queue, total, rows, seen>>
  BY <1>0 DEF WriteBatch, Copying
<1>2. worker \in [Workers -> CopyWorker] /\ worker[w] \in CopyWorker
      /\ seq \in Nat /\ attempt \in Nat
  BY WorkerFacts DEF CopyInv, CopyTypes
<1>3. /\ worker'[w].at = "writing" /\ worker'[w].progress = worker[w].progress
      /\ worker'[w].part = worker[w].part /\ worker'[w].batch = worker[w].batch
      /\ \A v \in Workers : v # w => worker'[v] = worker[v]
  BY <1>1, <1>2 DEF CopyWorker
<1>4. /\ b.attempt = attempt /\ b.part = worker[w].part /\ b.batch = worker[w].batch
      /\ b.id = <<attempt, seq>>
  BY <1>0 DEF Batch
<1>5. CopyTypes'
  <2>1. worker' \in [Workers -> CopyWorker]
    BY <1>1, <1>2 DEF CopyWorker
  <2>. QED
    BY <1>1, <1>2, <2>1 DEF CopyInv, CopyTypes
<1>6. \A v \in Workers : Active(v)' <=> Active(v)
  BY <1>1, <1>3 DEF Active
<1>7. \A i : Issued(i) => Issued(i)' /\ i # b.id
  BY <1>1, <1>2, <1>4 DEF Issued
<1>8. Issued(b.id)'
  BY <1>1, <1>2, <1>4 DEF Issued
<1>9. \A v \in Workers, c \in flying : worker[v].at = "writing" /\ Mine(v, c) =>
         v # w /\ c.part # b.part
  BY <1>1, <1>4 DEF CopyInv, ClaimInv, Active, Mine
<1>10. FlightInv'
  <2>1. \A c \in flying' : \E v \in Workers : worker'[v].at = "writing" /\ Mine(v, c)'
    <3>1. Mine(w, b)'
      BY <1>1, <1>3, <1>4 DEF Mine
    <3>2. ASSUME NEW c \in flying
          PROVE  \E v \in Workers : worker'[v].at = "writing" /\ Mine(v, c)'
      <4>1. PICK v \in Workers : worker[v].at = "writing" /\ Mine(v, c)
        BY <1>1 DEF CopyInv, FlightInv
      <4>. QED
        BY <1>1, <1>3, <1>9, <4>1 DEF Mine
    <3>. QED
      BY <1>1, <1>3, <3>1, <3>2
  <2>2. \A c \in flying : c.part # b.part /\ c.id # b.id
    BY <1>1, <1>7, <1>9 DEF CopyInv, FlightInv
  <2>3. \A c, d \in flying' : c.part = d.part \/ c.id = d.id => c = d
    BY <1>1, <2>2 DEF CopyInv, FlightInv
  <2>4. \A c \in flying' : c.id \notin seen' /\ Issued(c.id)'
    BY <1>1, <1>7, <1>8 DEF CopyInv, FlightInv
  <2>5. \A i \in seen' : Issued(i)'
    BY <1>1, <1>7 DEF CopyInv, FlightInv
  <2>. QED
    BY <2>1, <2>3, <2>4, <2>5 DEF FlightInv
<1>11. ClaimInv'
  <2>1. worker[w].batch \in 1..Batches
    BY <1>1, <1>2, CopyAssumption DEF CopyInv, ClaimInv, Active, CopyWorker
  <2>. QED
    BY <1>1, <1>3, <1>6, <2>1 DEF CopyInv, ClaimInv
<1>12. RowsInv'
  BY <1>1, <1>3, <1>6 DEF CopyInv, RowsInv, Held
<1>13. BarrierInv'
  BY <1>1, <1>3 DEF CopyInv, BarrierInv
<1>. QED
  BY <1>1, <1>5, <1>10, <1>11, <1>12, <1>13
     DEF CopyInv, MetadataInv, CleanInv, DoneInv, Exact

(* The batch a worker waits for lands once, and the worker moves past it.  *)
LEMMA WrittenStep == \A w \in Workers : CopyInv /\ BatchWritten(w) => CopyInv'
<1>. SUFFICES ASSUME NEW w \in Workers, CopyInv, BatchWritten(w) PROVE CopyInv'
  OBVIOUS
<1>1. PICK b \in flying, status \in {"accepted", "durable"} :
        /\ Mine(w, b)
        /\ flying' = flying \ {b}
        /\ rows' = Landed(b, status) /\ seen' = seen \cup {b.id}
        /\ worker' = [worker EXCEPT ![w] =
                         [@ EXCEPT !.at = "stream", !.batch = worker[w].batch + 1,
                                   !.progress = Recorded(worker[w].progress, status)]]
  BY DEF BatchWritten
<1>2. /\ phase = "copying" /\ worker[w].at = "writing"
      /\ UNCHANGED <<phase, state, attempt, seq, plan, queue, total, metadata>>
  BY DEF BatchWritten, Copying
<1>3. worker \in [Workers -> CopyWorker] /\ worker[w] \in CopyWorker
      /\ worker[w].batch \in Nat /\ worker[w].progress.rows \in Nat
      /\ worker[w].progress.barrier \in BOOLEAN
  BY WorkerFacts DEF CopyInv, CopyTypes
<1>. DEFINE prog == Recorded(worker[w].progress, status)
<1>a. PICK moved : /\ moved = [worker[w] EXCEPT !.at = "stream",
                                               !.batch = worker[w].batch + 1,
                                               !.progress = prog]
                   /\ worker' = [worker EXCEPT ![w] = moved]
  BY <1>1
<1>b. /\ moved.at = "stream" /\ moved.progress = prog /\ moved \in CopyWorker
      /\ moved.part = worker[w].part /\ moved.batch = worker[w].batch + 1
  <2>1. prog \in Progress
    BY <1>3 DEF Recorded, Progress
  <2>. HIDE DEF prog
  <2>. QED
    <3>1. worker[w].batch + 1 \in Nat
      BY <1>3
    <3>2. worker[w] \in [at : {"idle", "claim", "stream", "writing", "completed"},
                         part : Parts \cup {None}, batch : Nat, progress : Progress]
      BY <1>3 DEF CopyWorker
    <3>. QED
      BY <1>a, <2>1, <3>1, <3>2 DEF CopyWorker
<1>4. /\ worker'[w].at = "stream" /\ worker'[w].progress = prog
      /\ worker'[w].part = worker[w].part /\ worker'[w].batch = worker[w].batch + 1
      /\ \A v \in Workers : v # w => worker'[v] = worker[v]
  <2>. HIDE DEF prog
  <2>. QED
    BY <1>3, <1>a, <1>b
<1>6. /\ status = "accepted" => prog.barrier
      /\ worker[w].progress.barrier => prog.barrier
  BY DEF Recorded
<1>7. metadata
  BY <1>1 DEF CopyInv, MetadataInv
<1>. HIDE DEF prog
<1>8. CopyTypes'
  <2>1. worker' \in [Workers -> CopyWorker]
    BY <1>3, <1>a, <1>b
  <2>. QED
    BY <1>2, <2>1 DEF CopyInv, CopyTypes
<1>9. \A v \in Workers : Active(v)' <=> Active(v)
  BY <1>2, <1>4 DEF Active
<1>. DEFINE r == [attempt |-> b.attempt, part |-> b.part, batch |-> b.batch,
                  status |-> status]
<1>10. rows' = rows \cup {r}
  BY <1>1, <1>2 DEF CopyInv, FlightInv, Landed
<1>11. /\ r \in [attempt : {attempt}, part : plan, batch : 1..Batches,
                 status : {"accepted", "durable"}]
       /\ r.part = worker[w].part /\ r.batch = worker[w].batch /\ r.status = status
  BY <1>1, <1>2 DEF CopyInv, ClaimInv, Active, Mine
<1>. HIDE DEF r
<1>12. FlightInv'
  <2>1. ASSUME NEW c \in flying'
        PROVE  \E v \in Workers : worker'[v].at = "writing" /\ Mine(v, c)'
    <3>1. PICK v \in Workers : worker[v].at = "writing" /\ Mine(v, c)
      BY <1>1, <1>2, <2>1 DEF CopyInv, FlightInv
    <3>2. v # w
      BY <1>1, <1>2, <2>1, <3>1 DEF CopyInv, FlightInv, Mine
    <3>. QED
      BY <1>2, <1>4, <3>1, <3>2 DEF Mine
  <2>2. \A c, d \in flying' : c.part = d.part \/ c.id = d.id => c = d
    BY <1>1, <1>2 DEF CopyInv, FlightInv
  <2>3. \A i : Issued(i) => Issued(i)'
    BY <1>2 DEF Issued
  <2>4. \A c \in flying' : c.id \notin seen' /\ Issued(c.id)'
    BY <1>1, <1>2, <2>3 DEF CopyInv, FlightInv
  <2>5. \A i \in seen' : Issued(i)'
    BY <1>1, <1>2, <2>3 DEF CopyInv, FlightInv
  <2>. QED
    BY <2>1, <2>2, <2>4, <2>5 DEF FlightInv
<1>13. ClaimInv'
  BY <1>2, <1>3, <1>4, <1>9 DEF CopyInv, ClaimInv
<1>14. RowsInv'
  <2>1. ASSUME NEW p \in plan \ queue, NEW k \in 1..Batches,
               \A v \in Workers : Active(v)' /\ worker'[v].part = p => k < worker'[v].batch
        PROVE  Held(p, k)'
    <3>1. CASE p = worker[w].part /\ k = worker[w].batch
      BY <3>1, <1>10, <1>11 DEF Held
    <3>2. CASE ~ (p = worker[w].part /\ k = worker[w].batch)
      <4>1. ASSUME NEW v \in Workers, Active(v), worker[v].part = p
            PROVE  k < worker[v].batch
        <5>1. CASE v # w
          BY <1>4, <1>9, <2>1, <4>1, <5>1
        <5>2. CASE v = w
          <6>1. k < worker[w].batch + 1
            BY <1>4, <1>9, <2>1, <4>1, <5>2
          <6>. QED
            BY <1>3, <3>2, <4>1, <5>2, <6>1, CopyAssumption
        <5>. QED
          BY <5>1, <5>2
      <4>2. Held(p, k)
        BY <1>2, <2>1, <4>1 DEF CopyInv, RowsInv
      <4>. QED
        BY <1>10, <4>2 DEF Held
    <3>. QED
      BY <3>1, <3>2
  <2>. QED
    BY <1>2, <1>10, <1>11, <2>1 DEF CopyInv, RowsInv
<1>15. BarrierInv'
  <2>1. ASSUME NEW q \in rows', q.status = "accepted"
        PROVE  total.barrier \/ \E v \in Workers : worker'[v].progress.barrier
    <3>1. CASE q = r
      BY <2>1, <3>1, <1>4, <1>6, <1>11
    <3>2. CASE q \in rows
      <4>1. total.barrier \/ \E v \in Workers : worker[v].progress.barrier
        BY <1>2, <2>1, <3>2 DEF CopyInv, BarrierInv
      <4>. QED
        BY <1>4, <1>6, <4>1
    <3>. QED
      BY <1>10, <2>1, <3>1, <3>2
  <2>. QED
    BY <1>2, <1>7, <2>1 DEF BarrierInv
<1>. QED
  BY <1>2, <1>7, <1>8, <1>12, <1>13, <1>14, <1>15
     DEF CopyInv, MetadataInv, CleanInv, DoneInv, Exact

(* A partition past its last batch is released complete. *)
LEMMA CopiedStep == \A w \in Workers : CopyInv /\ PartitionCopied(w) => CopyInv'
<1>. SUFFICES ASSUME NEW w \in Workers, CopyInv, PartitionCopied(w) PROVE CopyInv'
  OBVIOUS
<1>1. /\ phase = "copying" /\ worker[w].at = "stream" /\ worker[w].batch > Batches
      /\ worker' = [worker EXCEPT ![w].at = "claim"]
      /\ UNCHANGED <<phase, state, attempt, seq, plan, queue, total, rows, seen, flying, metadata>>
  BY DEF PartitionCopied, Copying
<1>2. worker \in [Workers -> CopyWorker] /\ worker[w] \in CopyWorker
      /\ worker[w].batch \in Nat
  BY WorkerFacts DEF CopyInv, CopyTypes
<1>3. /\ worker'[w].at = "claim" /\ worker'[w].progress = worker[w].progress
      /\ \A v \in Workers : v # w => worker'[v] = worker[v]
  BY <1>1, <1>2 DEF CopyWorker
<1>4. CopyTypes'
  <2>1. worker' \in [Workers -> CopyWorker]
    BY <1>1, <1>2 DEF CopyWorker
  <2>. QED
    BY <1>1, <2>1 DEF CopyInv, CopyTypes
<1>5. \A v \in Workers : Active(v)' => v # w /\ Active(v) /\ worker'[v] = worker[v]
  BY <1>3 DEF Active
<1>6. \A v \in Workers : Active(v) /\ v # w => Active(v)'
  BY <1>3 DEF Active
<1>7. FlightInv'
  <2>1. ASSUME NEW b \in flying
        PROVE  \E v \in Workers : worker'[v].at = "writing" /\ Mine(v, b)'
    <3>1. PICK v \in Workers : worker[v].at = "writing" /\ Mine(v, b)
      BY <1>1 DEF CopyInv, FlightInv
    <3>2. v # w
      BY <1>1, <3>1
    <3>. QED
      BY <1>1, <1>3, <3>1, <3>2 DEF Mine
  <2>. QED
    BY <1>1, <2>1 DEF CopyInv, FlightInv, Issued
<1>8. ClaimInv'
  BY <1>1, <1>3, <1>5 DEF CopyInv, ClaimInv
<1>9. RowsInv'
  <2>1. ASSUME NEW p \in plan \ queue, NEW k \in 1..Batches,
               \A v \in Workers : Active(v)' /\ worker'[v].part = p => k < worker'[v].batch
        PROVE  Held(p, k)
    <3>1. k < worker[w].batch
      BY <1>1, <1>2, CopyAssumption
    <3>2. \A v \in Workers : Active(v) /\ worker[v].part = p => k < worker[v].batch
      BY <1>3, <1>6, <2>1, <3>1
    <3>. QED
      BY <1>1, <3>2 DEF CopyInv, RowsInv
  <2>. QED
    BY <1>1, <2>1 DEF CopyInv, RowsInv, Held
<1>10. BarrierInv'
  BY <1>1, <1>3 DEF CopyInv, BarrierInv
<1>. QED
  BY <1>1, <1>4, <1>7, <1>8, <1>9, <1>10
     DEF CopyInv, MetadataInv, CleanInv, DoneInv, Exact

(* Joining a worker moves its progress to the total. *)
LEMMA JoinStep == \A w \in Workers : CopyInv /\ JoinWorker(w) => CopyInv'
<1>. SUFFICES ASSUME NEW w \in Workers, CopyInv, JoinWorker(w) PROVE CopyInv'
  OBVIOUS
<1>1. /\ phase = "copying" /\ worker[w].at = "completed"
      /\ total' = Merge(total, worker[w].progress)
      /\ worker' = [worker EXCEPT ![w] = Idle]
      /\ UNCHANGED <<phase, state, attempt, seq, plan, queue, rows, seen, flying, metadata>>
  BY DEF JoinWorker, Copying
<1>2. worker \in [Workers -> CopyWorker] /\ worker[w].progress \in Progress
      /\ total \in Progress
  BY WorkerFacts DEF CopyInv, CopyTypes
<1>3. /\ worker'[w] = Idle /\ \A v \in Workers : v # w => worker'[v] = worker[v]
      /\ worker' \in [Workers -> CopyWorker]
  BY <1>1, <1>2, IdleFacts
<1>4. /\ total' \in Progress
      /\ total.barrier \/ worker[w].progress.barrier => total'.barrier
      /\ total'.rows # 0 => total.rows # 0 \/ worker[w].progress.rows # 0
  BY <1>1, <1>2 DEF Merge, Progress
<1>5. CopyTypes'
  BY <1>1, <1>3, <1>4 DEF CopyInv, CopyTypes
<1>6. \A v \in Workers : /\ Active(v)' <=> Active(v)
                         /\ Active(v) => worker'[v] = worker[v]
  BY <1>1, <1>3, IdleFacts DEF Active
<1>7. FlightInv'
  <2>1. ASSUME NEW b \in flying
        PROVE  \E v \in Workers : worker'[v].at = "writing" /\ Mine(v, b)'
    <3>1. PICK v \in Workers : worker[v].at = "writing" /\ Mine(v, b)
      BY <1>1 DEF CopyInv, FlightInv
    <3>2. v # w
      BY <1>1, <3>1
    <3>. QED
      BY <1>1, <1>3, <3>1, <3>2 DEF Mine
  <2>. QED
    BY <1>1, <2>1 DEF CopyInv, FlightInv, Issued
<1>8. ClaimInv'
  <2>1. queue' = {}
    BY <1>1 DEF CopyInv, ClaimInv
  <2>2. \A v \in Workers : worker'[v].at = "idle" => worker'[v] = Idle
    BY <1>1, <1>3 DEF CopyInv, ClaimInv
  <2>3. \A v \in Workers : worker'[v].at = "writing" => worker'[v].batch \in 1..Batches
    BY <1>1, <1>3, IdleFacts DEF CopyInv, ClaimInv
  <2>. QED
    BY <1>1, <1>6, <2>1, <2>2, <2>3 DEF CopyInv, ClaimInv
<1>9. RowsInv'
  BY <1>1, <1>6 DEF CopyInv, RowsInv, Held
<1>10. BarrierInv'
  <2>1. ASSUME NEW r \in rows, r.status = "accepted"
        PROVE  total'.barrier \/ \E v \in Workers : worker'[v].progress.barrier
    <3>1. total.barrier \/ \E v \in Workers : worker[v].progress.barrier
      BY <1>1, <2>1 DEF CopyInv, BarrierInv
    <3>. QED
      BY <1>3, <1>4, <3>1
  <2>2. total'.rows # 0 => metadata
    BY <1>1, <1>4 DEF CopyInv, BarrierInv
  <2>3. \A v \in Workers : worker'[v].progress.rows # 0 => metadata
    BY <1>1, <1>3, IdleFacts DEF CopyInv, BarrierInv
  <2>. QED
    BY <1>1, <2>1, <2>2, <2>3 DEF BarrierInv
<1>. QED
  BY <1>1, <1>5, <1>7, <1>8, <1>9, <1>10
     DEF CopyInv, MetadataInv, CleanInv, DoneInv, Exact

(* Once every worker is joined nothing is on its way and every batch of    *)
(* every partition is there; what is only accepted is in the total.        *)
LEMMA JoinedFacts ==
    ASSUME CopyInv, AllJoined
    PROVE  /\ flying = {}
           /\ rows \subseteq [attempt : {attempt}, part : plan, batch : 1..Batches,
                              status : {"accepted", "durable"}]
           /\ \A p \in plan, k \in 1..Batches : Held(p, k)
           /\ ~ total.barrier => \A r \in rows : r.status # "accepted"
<1>1. phase = "copying" /\ \A w \in Workers : worker[w].at = "idle"
  BY DEF AllJoined
<1>2. \A w \in Workers : ~ Active(w) /\ worker[w].progress.barrier = FALSE
  BY <1>1, IdleFacts DEF Active, CopyInv, ClaimInv
<1>3. flying = {}
  BY <1>1 DEF CopyInv, FlightInv
<1>4. queue = {}
  BY <1>1, CopyAssumption DEF CopyInv, ClaimInv
<1>5. \A p \in plan, k \in 1..Batches : Held(p, k)
  BY <1>1, <1>2, <1>4 DEF CopyInv, RowsInv
<1>6. ~ total.barrier => \A r \in rows : r.status # "accepted"
  BY <1>1, <1>2 DEF CopyInv, BarrierInv
<1>. QED
  BY <1>1, <1>3, <1>5, <1>6 DEF CopyInv, RowsInv

(* The barrier makes what was accepted durable. *)
LEMMA BarrierStep == CopyInv /\ WriteBarrier => CopyInv'
<1>. SUFFICES ASSUME CopyInv, WriteBarrier PROVE CopyInv'
  OBVIOUS
<1>1. /\ AllJoined /\ phase' = "barrier" /\ metadata' = TRUE
      /\ rows' = {[r EXCEPT !.status = "durable"] : r \in rows}
      /\ UNCHANGED <<state, attempt, seq, plan, queue, worker, total, seen, flying>>
  BY DEF WriteBarrier
<1>. DEFINE Full == [attempt : {attempt}, part : plan, batch : 1..Batches, status : {"durable"}]
<1>2. ASSUME NEW r \in rows PROVE [r EXCEPT !.status = "durable"] \in Full
  BY <1>1, <1>2, JoinedFacts
<1>3. ASSUME NEW f \in Full PROVE f \in rows'
  <2>1. PICK r \in rows : r.part = f.part /\ r.batch = f.batch
    BY <1>1, <1>3, JoinedFacts DEF Held
  <2>2. r \in [attempt : {attempt}, part : plan, batch : 1..Batches,
               status : {"accepted", "durable"}]
    BY <1>1, JoinedFacts
  <2>3. f = [r EXCEPT !.status = "durable"]
    BY <1>3, <2>1, <2>2
  <2>. QED
    BY <1>1, <2>1, <2>3
<1>4. rows' = Full
  <2>. HIDE DEF Full
  <2>. QED
    BY <1>1, <1>2, <1>3
<1>5. Exact'
  BY <1>1, <1>4 DEF Exact
<1>6. flying' = {}
  BY <1>1, JoinedFacts
<1>7. state # "finished"
  BY <1>1 DEF CopyInv, DoneInv, AllJoined
<1>. QED
  BY <1>1, <1>5, <1>6, <1>7, NotCopying
     DEF CopyInv, CopyTypes, MetadataInv, CleanInv, DoneInv

(* Without a barrier, everything that was written was durable already. *)
LEMMA FinishStep == CopyInv /\ FinishCopy => CopyInv'
<1>. SUFFICES ASSUME CopyInv, FinishCopy PROVE CopyInv'
  OBVIOUS
<1>1. /\ phase' = "syncwait" /\ state' = "finished"
      /\ UNCHANGED <<attempt, seq, plan, queue, worker, total, rows, seen, flying, metadata>>
  BY DEF FinishCopy
<1>2. flying = {} /\ metadata /\ Exact
  <2>1. CASE phase = "barrier"
    BY <2>1 DEF CopyInv, DoneInv
  <2>2. CASE AllJoined /\ ~ NeedsBarrier(total)
    <3>1. total.rows # 0 /\ ~ total.barrier
      BY <2>2 DEF NeedsBarrier
    <3>2. metadata
      BY <2>2, <3>1 DEF CopyInv, BarrierInv, AllJoined
    <3>3. \A r \in rows : r \in [attempt : {attempt}, part : plan, batch : 1..Batches,
                                 status : {"durable"}]
      BY <2>2, <3>1, JoinedFacts
    <3>4. ASSUME NEW f \in [attempt : {attempt}, part : plan, batch : 1..Batches,
                            status : {"durable"}]
          PROVE  f \in rows
      <4>1. PICK r \in rows : r.part = f.part /\ r.batch = f.batch
        BY <2>2, <3>4, JoinedFacts DEF Held
      <4>2. f = r
        BY <3>3, <3>4, <4>1
      <4>. QED
        BY <4>1, <4>2
    <3>5. flying = {}
      BY <2>2, JoinedFacts
    <3>6. rows = [attempt : {attempt}, part : plan, batch : 1..Batches, status : {"durable"}]
      BY <3>3, <3>4
    <3>. QED
      BY <3>2, <3>5, <3>6 DEF Exact
  <2>. QED
    BY <2>1, <2>2 DEF FinishCopy
<1>. QED
  BY <1>1, <1>2, NotCopying
     DEF CopyInv, CopyTypes, MetadataInv, CleanInv, DoneInv, Exact

(* A write nobody waits for is of an attempt that was given up, and the    *)
(* metadata it left makes the next attempt drop it.                        *)
LEMMA LateStep == \A b \in flying : CopyInv /\ LandLate(b) => CopyInv'
<1>. SUFFICES ASSUME NEW b \in flying, CopyInv, LandLate(b) PROVE CopyInv'
  OBVIOUS
<1>1. /\ \A w \in Workers : ~ (worker[w].at = "writing" /\ Mine(w, b))
      /\ UNCHANGED <<phase, state, attempt, seq, plan, queue, worker, total, metadata>>
  BY DEF LandLate
<1>2. metadata /\ phase \notin {"prepare", "slot", "barrier", "syncwait"}
  BY DEF CopyInv, MetadataInv, CleanInv, DoneInv
<1>3. phase # "copying"
  BY <1>1 DEF CopyInv, FlightInv
<1>. QED
  BY <1>1, <1>2, <1>3, NotCopying
     DEF CopyInv, CopyTypes, MetadataInv, CleanInv, DoneInv

(* The first state is clean. *)
LEMMA InitCopy == Init => CopyInv
<1>. SUFFICES ASSUME Init PROVE CopyInv
  OBVIOUS
<1>1. CopyTypes
  BY IdleFacts DEF Init, CopyTypes
<1>. QED
  BY <1>1 DEF Init, CopyInv, MetadataInv, CleanInv, FlightInv, ClaimInv, RowsInv,
     BarrierInv, DoneInv

(* Every step preserves the invariant. *)
LEMMA NextCopy == CopyInv /\ [Next]_vars => CopyInv'
<1>. SUFFICES ASSUME CopyInv, [Next]_vars PROVE CopyInv'
  OBVIOUS
<1>1. CASE UNCHANGED vars \/ RequestShutdown
  <2>1. UNCHANGED <<phase, state, attempt, seq, plan, queue, worker, total, rows, seen, flying,
                    metadata>>
    BY <1>1 DEF vars, RequestShutdown
  <2>. QED
    BY <2>1 DEF CopyInv, CopyTypes, MetadataInv, CleanInv, FlightInv, ClaimInv, RowsInv,
       BarrierInv, DoneInv, Exact, Active, Mine, Held, Issued
<1>2. CASE DropTableForCopy
  <2>1. /\ rows' = {} /\ seen' = {} /\ flying' = {} /\ phase = "start" /\ phase' = "prepare"
        /\ UNCHANGED <<state, attempt, seq, plan, queue, worker, total, metadata>>
    BY <1>2 DEF DropTableForCopy, Fenced, CopyInv, MetadataInv
  <2>. QED
    BY <2>1, NotCopying DEF CopyInv, CopyTypes, MetadataInv, CleanInv, DoneInv
<1>3. CASE PrepareCopy
  <2>1. /\ rows = {} /\ seen = {} /\ flying = {} /\ phase' = "slot" /\ state' = "datasync"
        /\ UNCHANGED <<attempt, seq, plan, queue, worker, total, rows, seen, flying>>
    BY <1>3 DEF PrepareCopy, CopyInv, CleanInv
  <2>. QED
    BY <2>1, NotCopying DEF CopyInv, CopyTypes, MetadataInv, CleanInv, DoneInv
<1>4. CASE RunTableCopy
  BY <1>4, RunInv
<1>5. CASE WriteBarrier
  BY <1>5, BarrierStep
<1>6. CASE FinishCopy
  BY <1>6, FinishStep
<1>7. ASSUME NEW w \in Workers, ClaimPartition(w) \/ WriteBatch(w) \/ BatchWritten(w)
                                \/ PartitionCopied(w) \/ JoinWorker(w)
      PROVE  CopyInv'
  BY <1>7, ClaimStep, WriteStep, WrittenStep, CopiedStep, JoinStep
<1>8. ASSUME NEW w \in Workers,
             WorkerStops(w) \/ WorkerFails(w) \/ SlotInvalidated
      PROVE  CopyInv'
  <2>1. /\ phase = "copying" /\ (Abort("stopped") \/ Abort("errored"))
        /\ UNCHANGED <<state, attempt, seq, plan, total, rows, seen, flying, metadata>>
    BY <1>8 DEF WorkerStops, WorkerFails, SlotInvalidated
  <2>2. CopyTypes' /\ phase' \in {"stopped", "errored"}
    BY <2>1, AbortTypes DEF CopyInv
  <2>. QED
    BY <2>1, <2>2, NotCopying DEF CopyInv, MetadataInv, CleanInv, DoneInv
<1>9. CASE BarrierNotDurable \/ StopAtBarrier
  <2>1. /\ phase = "copying" /\ phase' \in {"errored", "stopped"}
        /\ metadata' = TRUE \/ metadata' = metadata
        /\ UNCHANGED <<state, attempt, seq, plan, queue, worker, total, rows, seen, flying>>
    BY <1>9 DEF BarrierNotDurable, StopAtBarrier, AllJoined
  <2>. QED
    BY <2>1, NotCopying DEF CopyInv, CopyTypes, MetadataInv, CleanInv, DoneInv
<1>10. ASSUME NEW b \in flying, LandLate(b) PROVE CopyInv'
  BY <1>10, LateStep
<1>11. CASE Retry
  <2>1. /\ phase = "errored" /\ phase' = "start"
        /\ UNCHANGED <<state, attempt, seq, plan, queue, worker, total, rows, seen, flying,
                       metadata>>
    BY <1>11 DEF Retry
  <2>. QED
    BY <2>1, NotCopying DEF CopyInv, CopyTypes, MetadataInv, CleanInv, DoneInv
<1>12. CASE Restart
  <2>1. /\ phase # "syncwait" /\ Abort("start") /\ rows' \subseteq rows
        /\ UNCHANGED <<state, attempt, seq, plan, total, seen, flying, metadata>>
    BY <1>12 DEF Restart
  <2>2. CopyTypes' /\ phase' = "start"
    BY <2>1, AbortTypes DEF CopyInv
  <2>. QED
    BY <2>1, <2>2, NotCopying DEF CopyInv, MetadataInv, CleanInv, DoneInv
<1>13. Workers # {}
  BY CopyAssumption
<1>. QED
  BY <1>1, <1>2, <1>3, <1>4, <1>5, <1>6, <1>7, <1>8, <1>9, <1>10, <1>11, <1>12, <1>13
     DEF Next, SyncStep, WorkerStep

-----------------------------------------------------------------------------
(* Theorems.                                                               *)

(* The copy invariant holds in every reachable state. *)
THEOREM CopyInvariance == Spec => []CopyInv
BY InitCopy, NextCopy, PTL DEF Spec

(* A stored FinishedCopy stands for a table that exists and holds exactly  *)
(* its attempt's snapshot, durably: no batch of an aborted attempt, none   *)
(* twice, none missing, whichever workers failed, stopped or were late     *)
(* (run_table_copy, start_table_sync, drop_table_for_copy).                *)
THEOREM FinishedCopyIsExact == Spec => []CopyIsExact
<1>1. CopyInv => CopyIsExact
  BY DEF CopyInv, DoneInv, Exact, CopyIsExact
<1>. QED
  BY <1>1, CopyInvariance, PTL

-----------------------------------------------------------------------------
(* The streams.                                                            *)

StreamState ==
    [batched : BOOLEAN,
     pc : {"new", "idle", "drain", "current", "source", "pressure", "size", "closed"},
     paused : BOOLEAN, unseen : BOOLEAN, armed : BOOLEAN, woken : BOOLEAN,
     sourceArmed : BOOLEAN, buffer : Nat, deadline : {"none", "set", "elapsed"},
     read : Nat, delivered : Nat, result : {"open", "done", "error"}]

(* What is read is handed over or buffered, unless an error dropped it; a  *)
(* poll that got past the reading of the signal runs unpaused, so that the *)
(* only way to sleep paused is the one that has flushed the batch.         *)
NothingLost(st) ==
    /\ st.result # "error" => st.read = st.delivered + st.buffer
    /\ st.result = "done" => st.buffer = 0
    /\ st.pc \in {"source", "pressure", "size"} => ~ st.paused
    /\ st.pc = "idle" /\ st.paused => st.buffer = 0
    /\ st.pc = "new" => st.buffer = 0
    /\ st.pc # "closed" => st.result = "open"

StreamOK(st) == st \in StreamState /\ NothingLost(st)

StreamInv ==
    /\ active \in BOOLEAN
    /\ DOMAIN stream = Streams /\ stream = [s \in Streams |-> stream[s]]
    /\ \A s \in Streams : StreamOK(stream[s])

(* One stream moves. *)
LEMMA OneStream ==
    ASSUME StreamInv, NEW s \in Streams, NEW st, StreamOK(st), active' = active,
           stream' = [stream EXCEPT ![s] = st]
    PROVE  StreamInv'
<1>1. \A t \in Streams : stream'[t] = IF t = s THEN st ELSE stream[t]
  BY DEF StreamInv
<1>2. \A t \in Streams : StreamOK(stream'[t])
  BY <1>1 DEF StreamInv
<1>3. DOMAIN stream' = Streams /\ stream' = [t \in Streams |-> stream'[t]]
  BY DEF StreamInv
<1> QED
  BY <1>2, <1>3 DEF StreamInv, StreamOK, NothingLost

(* The fields a step of a poll sets. *)
LEMMA DeliverTypes ==
    ASSUME NEW st \in StreamState, NEW d \in Nat, NEW b \in Nat
    PROVE  /\ [st EXCEPT !.delivered = d, !.pc = "drain"] \in StreamState
           /\ [st EXCEPT !.delivered = d, !.buffer = b] \in StreamState
BY DEF StreamState

LEMMA BufferTypes ==
    ASSUME NEW st \in StreamState, NEW b \in Nat, NEW t \in {"none", "set", "elapsed"}
    PROVE  [st EXCEPT !.buffer = b, !.pc = "pressure", !.deadline = t] \in StreamState
BY DEF StreamState

(* A flush hands the batch over and polls again. *)
LEMMA FlushKeeps ==
    ASSUME NEW st \in StreamState, st.result = "open", st.read = st.delivered + st.buffer
    PROVE  StreamOK(Flow!Flushed(st))
<1>1. PICK x : x = Flow!Flushed(st)
  OBVIOUS
<1>2. x \in StreamState
  BY <1>1 DEF StreamState, Flow!Flushed
<1>3. x.buffer = 0 /\ x.delivered = st.delivered + st.buffer /\ x.pc = "drain"
      /\ x.read = st.read /\ x.result = "open"
  BY <1>1 DEF StreamState, Flow!Flushed
<1>4. NothingLost(x)
  BY <1>2, <1>3 DEF StreamState, NothingLost
<1> QED
  BY <1>1, <1>2, <1>4 DEF StreamOK

LEMMA PollStepKeeps ==
    ASSUME StreamInv, NEW s \in Streams, Flow!Poll(s)
    PROVE  StreamInv'
<1> DEFINE st == stream[s]
<1>0. st \in StreamState /\ NothingLost(st) /\ active \in BOOLEAN
  BY DEF StreamInv, StreamOK
<1>1. CASE Flow!Open(s)
  <2> DEFINE x == [st EXCEPT !.pc = "idle"]
  <2>1. StreamOK(x)
    BY <1>0, <1>1 DEF StreamOK, StreamState, NothingLost, Flow!Open
  <2> QED
    BY <1>1, <2>1, OneStream DEF Flow!Open, Flow!Become, Flow!monVars
<1>2. CASE Flow!StartPoll(s)
  <2> DEFINE x == [st EXCEPT !.pc = "drain", !.woken = FALSE]
  <2>1. StreamOK(x)
    BY <1>0, <1>2 DEF StreamOK, StreamState, NothingLost, Flow!StartPoll
  <2> QED
    BY <1>2, <2>1, OneStream DEF Flow!StartPoll, Flow!Become, Flow!monVars
<1>3. CASE Flow!DrainUpdates(s)
  <2> DEFINE x == [st EXCEPT !.unseen = FALSE, !.paused = active]
             y == [st EXCEPT !.armed = TRUE, !.pc = "current"]
  <2>1. StreamOK(x) /\ StreamOK(y)
    BY <1>0, <1>3 DEF StreamOK, StreamState, NothingLost, Flow!DrainUpdates
  <2>2. StreamOK(IF st.unseen THEN x ELSE y)
    BY <2>1
  <2> QED
    BY <1>3, <2>2, OneStream DEF Flow!DrainUpdates, Flow!Become, Flow!monVars
<1>4. CASE Flow!ReadCurrent(s)
  <2> DEFINE x == [st EXCEPT !.paused = active]
             y == [x EXCEPT !.pc = "source"]
  <2>1. x \in StreamState /\ x.result = "open" /\ x.read = x.delivered + x.buffer
    BY <1>0, <1>4 DEF StreamState, NothingLost, Flow!ReadCurrent
  <2>2. StreamOK(Flow!Pausing(x))
    <3>1. CASE x.buffer > 0
      BY <2>1, <3>1, FlushKeeps DEF Flow!Pausing
    <3>2. CASE ~ (x.buffer > 0)
      <4>1. x.buffer = 0
        BY <2>1, <3>2 DEF StreamState
      <4>2. StreamOK([x EXCEPT !.pc = "idle"])
        BY <2>1, <4>1 DEF StreamOK, StreamState, NothingLost
      <4> QED
        BY <3>2, <4>2 DEF Flow!Pausing
    <3> QED
      BY <3>1, <3>2
  <2>3. ASSUME ~ active PROVE StreamOK(y)
    <3>1. y.paused <=> active
      BY <1>0 DEF StreamState
    <3> QED
      BY <2>1, <2>3, <3>1 DEF StreamOK, StreamState, NothingLost
  <2>4. StreamOK(IF active THEN Flow!Pausing(x) ELSE y)
    BY <2>2, <2>3
  <2> QED
    BY <1>4, <2>4, OneStream DEF Flow!ReadCurrent, Flow!Become, Flow!monVars
<1>5. CASE Flow!TakeItem(s)
  <2> DEFINE r == [st EXCEPT !.read = @ + 1]
             x == [r EXCEPT !.delivered = @ + 1, !.pc = "drain"]
             y == [r EXCEPT !.buffer = @ + 1, !.pc = "pressure", !.deadline = Flow!FillTimer(r)]
  <2>1. Flow!FillTimer(r) \in {"none", "set", "elapsed"}
    BY <1>0 DEF StreamState, Flow!FillTimer
  <2>5. r \in StreamState /\ r.read = st.read + 1 /\ r.delivered = st.delivered
        /\ r.buffer = st.buffer /\ r.result = st.result /\ (r.paused <=> st.paused)
    BY <1>0 DEF StreamState
  <2>2. StreamOK(x)
    <3> HIDE DEF r
    <3>1. x \in StreamState
      <4>1. r.delivered + 1 \in Nat
        BY <2>5 DEF StreamState
      <4> QED
        BY <2>5, <4>1, DeliverTypes
    <3>2. x.delivered = st.delivered + 1 /\ x.read = st.read + 1 /\ x.buffer = st.buffer
          /\ x.pc = "drain" /\ x.result = st.result
      BY <2>5 DEF StreamState
    <3>3. st.pc = "source"
      BY <1>5 DEF Flow!TakeItem
    <3> HIDE DEF x, y
    <3>4. NothingLost(x)
      BY <1>0, <3>1, <3>2, <3>3 DEF StreamState, NothingLost
    <3> QED
      BY <3>1, <3>4 DEF StreamOK
  <2>4. StreamOK(y)
    <3> HIDE DEF r
    <3>1. y \in StreamState
      <4>1. r.buffer + 1 \in Nat
        BY <2>5 DEF StreamState
      <4> QED
        BY <2>1, <2>5, <4>1, BufferTypes
    <3>2. y.delivered = st.delivered /\ y.read = st.read + 1 /\ y.buffer = st.buffer + 1
          /\ y.pc = "pressure" /\ y.result = st.result /\ (y.paused <=> st.paused)
      BY <2>5 DEF StreamState
    <3>3. st.pc = "source"
      BY <1>5 DEF Flow!TakeItem
    <3> HIDE DEF x, y
    <3>4. NothingLost(y)
      BY <1>0, <3>1, <3>2, <3>3 DEF StreamState, NothingLost
    <3> QED
      BY <3>1, <3>4 DEF StreamOK
  <2>3. StreamOK(IF ~ r.batched THEN x ELSE y)
    BY <2>2, <2>4
  <2> QED
    BY <1>5, <2>3, OneStream DEF Flow!TakeItem, Flow!monVars
<1>6. CASE Flow!CheckPressure(s)
  <2> DEFINE x == [st EXCEPT !.paused = TRUE]
             y == [st EXCEPT !.pc = "size"]
  <2>1. x \in StreamState /\ x.result = "open" /\ x.read = x.delivered + x.buffer
    BY <1>0, <1>6 DEF StreamState, NothingLost, Flow!CheckPressure
  <2>2. StreamOK(y)
    BY <1>0, <1>6 DEF StreamOK, StreamState, NothingLost, Flow!CheckPressure
  <2>3. StreamOK(IF active THEN Flow!Flushed(x) ELSE y)
    BY <2>1, <2>2, FlushKeeps
  <2> QED
    BY <1>6, <2>3, OneStream DEF Flow!CheckPressure, Flow!Become, Flow!monVars
<1>7. CASE Flow!CheckSize(s)
  <2> DEFINE y == [st EXCEPT !.pc = "source"]
  <2>1. st.result = "open" /\ st.read = st.delivered + st.buffer
    BY <1>0, <1>7 DEF NothingLost, Flow!CheckSize
  <2>2. StreamOK(Flow!Flushed(st)) /\ StreamOK(y)
    <3>1. StreamOK(y)
      BY <1>0, <1>7 DEF StreamOK, StreamState, NothingLost, Flow!CheckSize
    <3> QED
      BY <1>0, <2>1, <3>1, FlushKeeps
  <2> QED
    BY <1>7, <2>2, OneStream DEF Flow!CheckSize, Flow!Become, Flow!monVars
<1>8. CASE Flow!SourceOver(s)
  <2>0. st.pc = "source"
    BY <1>8 DEF Flow!SourceOver
  <2>3. PICK x : x = Flow!AtEnd(st)
    OBVIOUS
  <2>4. x \in StreamState /\ x.delivered = st.delivered + st.buffer /\ x.buffer = 0
        /\ x.read = st.read /\ x.pc = "closed" /\ x.result = "done"
    <3>1. PICK f : f = Flow!Finished(st, "done")
      OBVIOUS
    <3>2. f \in StreamState /\ f.delivered = st.delivered /\ f.read = st.read
          /\ f.pc = "closed" /\ f.result = "done"
      BY <1>0, <3>1 DEF StreamState, Flow!Finished
    <3>3. x = [f EXCEPT !.delivered = @ + st.buffer, !.buffer = 0]
      BY <2>3, <3>1 DEF Flow!AtEnd
    <3>4. st.buffer \in Nat /\ f.delivered + st.buffer \in Nat
      BY <1>0, <3>2 DEF StreamState
    <3>5. x \in StreamState
      BY <3>2, <3>3, <3>4, DeliverTypes
    <3>6. x.delivered = f.delivered + st.buffer /\ x.buffer = 0 /\ x.read = f.read
          /\ x.pc = f.pc /\ x.result = f.result
      BY <3>2, <3>3 DEF StreamState
    <3> QED
      BY <3>2, <3>5, <3>6
  <2>5. PICK y : y = Flow!AtError(st)
    OBVIOUS
  <2>6. y \in StreamState /\ y.pc = "closed" /\ y.result = "error"
    BY <1>0, <2>5 DEF StreamState, Flow!AtError, Flow!Finished
  <2>7. StreamOK(x)
    BY <1>0, <2>0, <2>4 DEF StreamOK, StreamState, NothingLost
  <2>8. StreamOK(y)
    BY <2>6 DEF StreamOK, NothingLost
  <2>1. StreamOK(Flow!AtEnd(st)) /\ StreamOK(Flow!AtError(st))
    BY <2>3, <2>5, <2>7, <2>8
  <2>2. StreamOK(IF source[s].state = "ended" THEN Flow!AtEnd(st) ELSE Flow!AtError(st))
    BY <2>1
  <2> QED
    BY <1>8, <2>2, OneStream DEF Flow!SourceOver, Flow!Become, Flow!monVars
<1>9. CASE Flow!SourcePending(s)
  <2> DEFINE x == [st EXCEPT !.sourceArmed = TRUE]
             y == [st EXCEPT !.sourceArmed = TRUE, !.pc = "idle"]
  <2>1. x \in StreamState /\ x.result = "open" /\ x.read = x.delivered + x.buffer
    BY <1>0, <1>9 DEF StreamState, NothingLost, Flow!SourcePending
  <2>2. StreamOK(y)
    BY <1>0, <1>9 DEF StreamOK, StreamState, NothingLost, Flow!SourcePending
  <2>3. StreamOK(IF st.deadline = "elapsed" THEN Flow!Flushed(x) ELSE y)
    BY <2>1, <2>2, FlushKeeps
  <2> QED
    BY <1>9, <2>3, OneStream DEF Flow!SourcePending, Flow!Become, Flow!monVars
<1> QED
  BY <1>1, <1>2, <1>3, <1>4, <1>5, <1>6, <1>7, <1>8, <1>9 DEF Flow!Poll

(* The source wakes the stream, and moves nothing of it. *)
LEMMA SourceKeeps ==
    ASSUME StreamInv, NEW s \in Streams, NEW src, Flow!SourceMoves(s, src)
    PROVE  StreamInv'
<1> DEFINE st == stream[s]
           x == [st EXCEPT !.woken = @ \/ st.sourceArmed, !.sourceArmed = FALSE]
<1>1. st \in StreamState /\ NothingLost(st)
  BY DEF StreamInv, StreamOK
<1>2. StreamOK(x)
  BY <1>1 DEF StreamOK, StreamState, NothingLost
<1>3. stream' = [stream EXCEPT ![s] = x] /\ active' = active
  BY DEF StreamInv, Flow!SourceMoves, Flow!monVars
<1> QED
  BY <1>2, <1>3, OneStream

LEMMA NextActiveType ==
    ASSUME NEW current, NEW used \in 0..2
    PROVE  Flow!NextActive(current, used) \in BOOLEAN
<1>1. (used >= 1) \in BOOLEAN /\ (used >= 2) \in BOOLEAN
  OBVIOUS
<1> QED
  BY <1>1, Zenon DEF Flow!NextActive

LEMMA StreamStep == StreamInv /\ [Flow!Next]_(Flow!vars) => StreamInv'
<1> SUFFICES ASSUME StreamInv, [Flow!Next]_(Flow!vars) PROVE StreamInv'
  OBVIOUS
<1>1. ASSUME NEW used \in 0..2, Flow!Tick(used) PROVE StreamInv'
  <2>1. active' \in BOOLEAN
    BY <1>1, NextActiveType DEF Flow!Tick
  <2>2. CASE UNCHANGED stream
    BY <2>1, <2>2 DEF StreamInv, StreamOK, NothingLost
  <2>3. CASE stream' = Flow!Notified
    <3>1. ASSUME NEW s \in Streams PROVE StreamOK(stream'[s])
      <4> DEFINE st == stream[s]
                 x == [st EXCEPT !.unseen = st.pc # "new", !.woken = @ \/ st.armed, !.armed = FALSE]
      <4>1. st \in StreamState /\ NothingLost(st)
        BY DEF StreamInv, StreamOK
      <4>2. stream'[s] = x
        BY <2>3 DEF Flow!Notified
      <4>3. StreamOK(x)
        BY <4>1 DEF StreamOK, StreamState, NothingLost
      <4> QED
        BY <4>2, <4>3
    <3>2. DOMAIN stream' = Streams /\ stream' = [s \in Streams |-> stream'[s]]
      BY <2>3 DEF Flow!Notified
    <3> QED
      BY <2>1, <3>1, <3>2 DEF StreamInv, StreamOK, NothingLost
  <2> QED
    BY <1>1, <2>2, <2>3 DEF Flow!Tick
<1>2. ASSUME NEW s \in Streams, Flow!Produce(s) PROVE StreamInv'
  BY <1>2, SourceKeeps DEF Flow!Produce
<1>3. ASSUME NEW s \in Streams, Flow!EndSource(s) \/ Flow!FailSource(s) PROVE StreamInv'
  BY <1>3, SourceKeeps DEF Flow!EndSource, Flow!FailSource
<1>4. ASSUME NEW s \in Streams, Flow!DeadlineElapses(s) PROVE StreamInv'
  <2> DEFINE st == stream[s]
             x == [st EXCEPT !.deadline = "elapsed", !.woken = TRUE]
  <2>1. StreamOK(x)
    BY DEF StreamInv, StreamOK, StreamState, NothingLost
  <2> QED
    BY <1>4, <2>1, OneStream DEF Flow!DeadlineElapses, Flow!Become, Flow!monVars
<1>5. CASE UNCHANGED Flow!vars
  BY <1>5 DEF Flow!vars, Flow!monVars, StreamInv, StreamOK, NothingLost
<1> QED
  BY <1>1, <1>2, <1>3, <1>4, <1>5, PollStepKeeps DEF Flow!Next

LEMMA StreamStart == Flow!Init => StreamInv
<1> SUFFICES ASSUME Flow!Init PROVE StreamInv
  OBVIOUS
<1>1. active \in BOOLEAN
  BY NextActiveType DEF Flow!Init
<1>2. PICK batched \in SUBSET Streams : stream = [s \in Streams |-> Flow!NewStream(s \in batched)]
  BY DEF Flow!Init
<1>3. ASSUME NEW s \in Streams PROVE StreamOK(stream[s])
  <2>1. stream[s] = Flow!NewStream(s \in batched)
    BY <1>2
  <2>2. ASSUME NEW b \in BOOLEAN PROVE StreamOK(Flow!NewStream(b))
    BY DEF StreamOK, StreamState, NothingLost, Flow!NewStream
  <2>3. (s \in batched) \in BOOLEAN
    OBVIOUS
  <2> QED
    BY <2>1, <2>2, <2>3, Zenon
<1> QED
  BY <1>1, <1>2, <1>3 DEF StreamInv

(* A stream that sleeps because of memory holds no batch, and one that     *)
(* ended without an error has handed over every item it read, however the  *)
(* signal flips between the steps of a poll (MemoryBatchStream::poll_next).*)
THEOREM PausedStreamsHoldNothing == Flow!Spec => []NothingHeldBack
<1>1. StreamInv => NothingHeldBack
  BY DEF StreamInv, StreamOK, StreamState, NothingLost, NothingHeldBack, Flow!NothingHeldBack
<1> QED
  BY <1>1, StreamStart, StreamStep, PTL DEF Flow!Spec

-----------------------------------------------------------------------------
(* The governor.                                                           *)

GovState ==
    /\ gov = [slots |-> gov.slots, frozen |-> gov.frozen, revision |-> gov.revision,
              lock |-> gov.lock, target |-> gov.target]
    /\ gov.revision \in Nat
    /\ producer \in [Producers -> [pc : {"absent", "fill", "refresh", "mark"}, taken : Nat]]

(* The snapshot keeps the total of the last reading that succeeded; the    *)
(* host's own total is never missing.                                      *)
SnapshotInv ==
    /\ revision \in Nat
    /\ snapshot.source \in {"process", "root", "system"}
    /\ snapshot.total = lastRead
    /\ snapshot.source = "system" => snapshot.total = HostTotal

(* No revision is claimed before it is published, and the current one is   *)
(* claimed, or about to be, only for the budget of the current capacity.   *)
RevisionInv ==
    /\ gov.revision <= revision
    /\ gov.revision = revision => gov.frozen = Governor!Budget(lastRead)
    /\ \A p \in Producers : producer[p].pc = "mark" =>
          /\ producer[p].taken <= revision
          /\ producer[p].taken = revision => gov.frozen = Governor!Budget(lastRead)

TargetInv == gov.target = Governor!PerSlot(gov.frozen, gov.slots) \/ gov.slots = 0

GovernorInv == GovState /\ SnapshotInv /\ RevisionInv /\ TargetInv

LEMMA GovernorStart == Governor!Init => GovernorInv
<1> SUFFICES ASSUME Governor!Init PROVE GovernorInv
  OBVIOUS
<1>1. GovState
  BY DEF GovState, Governor!Init
<1>2. SnapshotInv
  <2>1. PICK process \in Limits \cup {Governor!Missing}, root \in Limits \cup {Governor!Missing} :
           snapshot = Governor!Refresh("none", process, root).snapshot
    BY DEF Governor!Init
  <2> QED
    BY <2>1 DEF SnapshotInv, Governor!Init, Governor!Refresh, Governor!Fresh, Governor!Snapshot
<1>3. RevisionInv
  BY DEF RevisionInv, Governor!Init
<1>4. TargetInv
  BY DEF TargetInv, Governor!Init
<1> QED
  BY <1>1, <1>2, <1>3, <1>4 DEF GovernorInv

(* A reading that fails leaves the snapshot and its revision; every other  *)
(* one publishes a new revision.                                           *)
LEMMA TickKeeps ==
    ASSUME GovernorInv, NEW process, NEW root, Governor!Tick(process, root)
    PROVE  GovernorInv'
<1> DEFINE r == Governor!Refresh(snapshot.source, process, root)
<1>0. /\ snapshot' = r.snapshot /\ revision' = IF r.fresh THEN revision + 1 ELSE revision
      /\ UNCHANGED <<gov, producer>>
  BY DEF Governor!Tick
<1>1. SnapshotInv' /\ (r.fresh \/ UNCHANGED lastRead)
  BY <1>0 DEF GovernorInv, SnapshotInv, Governor!Tick, Governor!Refresh, Governor!Fresh,
             Governor!Retained, Governor!Snapshot
<1>2. GovState' /\ TargetInv'
  BY <1>0 DEF GovernorInv, GovState, TargetInv
<1>3. RevisionInv'
  <2> HIDE DEF r
  <2>1. CASE r.fresh
    BY <1>0, <2>1 DEF GovernorInv, GovState, SnapshotInv, RevisionInv
  <2>2. CASE ~ r.fresh
    BY <1>0, <1>1, <2>2 DEF GovernorInv, RevisionInv
  <2> QED
    BY <2>1, <2>2
<1> QED
  BY <1>1, <1>2, <1>3 DEF GovernorInv

LEMMA ProducerKeeps ==
    ASSUME GovernorInv, NEW p \in Producers,
           \/ Governor!Register(p) \/ Governor!Unregister(p) \/ Governor!CheckRevision(p)
           \/ Governor!RefreshTarget(p) \/ Governor!MarkRevision(p)
    PROVE  GovernorInv'
<1>0. UNCHANGED <<snapshot, revision, lastRead>>
  BY DEF Governor!Register, Governor!Unregister, Governor!CheckRevision, Governor!RefreshTarget,
         Governor!MarkRevision, Governor!Goes
<1>1. SnapshotInv'
  BY <1>0 DEF GovernorInv, SnapshotInv
(* A producer that only moves, with the claim and the budget as they were. *)
<1>2. ASSUME NEW pc \in {"absent", "fill", "refresh"}, Governor!Goes(p, pc),
             gov' = [slots |-> gov'.slots, frozen |-> gov.frozen, revision |-> gov.revision,
                     lock |-> gov'.lock, target |-> gov'.target]
      PROVE  GovState' /\ RevisionInv'
  <2>1. /\ producer' \in [Producers -> [pc : {"absent", "fill", "refresh", "mark"}, taken : Nat]]
        /\ \A q \in Producers : producer'[q].pc = "mark" => producer'[q] = producer[q]
    BY <1>2 DEF Governor!Goes, GovernorInv, GovState
  <2>2. gov'.frozen = gov.frozen /\ gov'.revision = gov.revision
    BY <1>2
  <2> QED
    BY <1>0, <1>2, <2>1, <2>2 DEF GovernorInv, GovState, RevisionInv
<1>3. CASE Governor!Register(p)
  BY <1>1, <1>2, <1>3 DEF GovernorInv, GovState, TargetInv, Governor!Register, Governor!Recalculated
<1>4. CASE Governor!Unregister(p)
  BY <1>1, <1>2, <1>4 DEF GovernorInv, GovState, TargetInv, Governor!Unregister, Governor!Recalculated
<1>5. CASE Governor!CheckRevision(p)
  BY <1>1, <1>2, <1>5 DEF GovernorInv, GovState, TargetInv, Governor!CheckRevision
<1>6. CASE Governor!RefreshTarget(p)
  <2>1. CASE gov.revision = revision
    BY <1>1, <1>2, <1>6, <2>1 DEF GovernorInv, GovState, TargetInv, Governor!RefreshTarget
  <2>2. CASE gov.revision # revision
    <3>1. /\ gov' = Governor!Recalculated([gov EXCEPT !.frozen = Governor!Budget(snapshot.total)])
          /\ producer' = [producer EXCEPT ![p] = [pc |-> "mark", taken |-> revision]]
      BY <1>6, <2>2 DEF Governor!RefreshTarget
    <3>2. /\ gov' = [slots |-> gov.slots, frozen |-> Governor!Budget(lastRead),
                     revision |-> gov.revision, lock |-> gov.lock,
                     target |-> Governor!PerSlot(Governor!Budget(lastRead), gov.slots)]
      BY <3>1 DEF GovernorInv, GovState, SnapshotInv, Governor!Recalculated
    <3>3. /\ gov'.frozen = Governor!Budget(lastRead) /\ gov'.revision = gov.revision
          /\ gov'.target = Governor!PerSlot(gov'.frozen, gov'.slots)
      BY <3>2
    <3>4. /\ producer' \in [Producers -> [pc : {"absent", "fill", "refresh", "mark"}, taken : Nat]]
          /\ \A q \in Producers : producer'[q].pc = "mark" =>
                producer'[q].taken = revision \/ producer'[q] = producer[q]
      BY <3>1 DEF GovernorInv, GovState, SnapshotInv
    <3>5. GovState' /\ TargetInv'
      BY <3>2, <3>3, <3>4 DEF GovernorInv, GovState, TargetInv
    <3>6. RevisionInv'
      BY <1>0, <3>3, <3>4 DEF GovernorInv, SnapshotInv, RevisionInv
    <3> QED
      BY <1>1, <3>5, <3>6 DEF GovernorInv
  <2> QED
    BY <2>1, <2>2
<1>7. CASE Governor!MarkRevision(p)
  <2>1. /\ producer[p].pc = "mark" /\ producer[p].taken \in Nat
        /\ gov' = [gov EXCEPT !.revision = producer[p].taken, !.lock = Governor!NoOne]
        /\ producer' = [producer EXCEPT ![p] = [pc |-> "fill", taken |-> 0]]
    BY <1>7 DEF Governor!MarkRevision, Governor!Marked, GovernorInv, GovState
  <2>2. /\ gov' = [slots |-> gov.slots, frozen |-> gov.frozen, revision |-> producer[p].taken,
                   lock |-> Governor!NoOne, target |-> gov.target]
    BY <2>1 DEF GovernorInv, GovState
  <2>3. /\ gov'.frozen = gov.frozen /\ gov'.revision = producer[p].taken
        /\ gov'.target = gov.target /\ gov'.slots = gov.slots
    BY <2>2
  <2>4. /\ producer' \in [Producers -> [pc : {"absent", "fill", "refresh", "mark"}, taken : Nat]]
        /\ \A q \in Producers : producer'[q].pc = "mark" => producer'[q] = producer[q]
    BY <2>1 DEF GovernorInv, GovState
  <2>5. GovState' /\ TargetInv'
    BY <2>1, <2>2, <2>3, <2>4 DEF GovernorInv, GovState, TargetInv
  <2>6. RevisionInv'
    BY <1>0, <2>1, <2>3, <2>4 DEF GovernorInv, RevisionInv
  <2> QED
    BY <1>1, <2>5, <2>6 DEF GovernorInv
<1> QED
  BY <1>3, <1>4, <1>5, <1>6, <1>7

(* A governor that claims the current revision divides the budget of the   *)
(* capacity last read by the slots registered now, through readings that   *)
(* fail and refreshes that race a tick (BatchMemoryGovernor).              *)
THEOREM BudgetIsOfLastReading == Governor!Spec => []BudgetFollowsCapacity
<1>1. GovernorInv => BudgetFollowsCapacity
  BY DEF GovernorInv, RevisionInv, TargetInv, BudgetFollowsCapacity, Governor!BudgetFollowsCapacity
<1>2. GovernorInv /\ [Governor!Next]_(Governor!vars) => GovernorInv'
  <2> SUFFICES ASSUME GovernorInv, [Governor!Next]_(Governor!vars) PROVE GovernorInv'
    OBVIOUS
  <2>1. CASE UNCHANGED Governor!vars
    BY <2>1 DEF Governor!vars, GovernorInv, GovState, SnapshotInv, RevisionInv, TargetInv
  <2> QED
    BY <2>1, TickKeeps, ProducerKeeps DEF Governor!Next
<1> QED
  BY <1>1, <1>2, GovernorStart, PTL DEF Governor!Spec

-----------------------------------------------------------------------------
(* The plan: arithmetic.                                                   *)

LEMMA LeastNumber ==
    ASSUME NEW S, S \subseteq Nat, S # {}
    PROVE  \E m \in S : \A s \in S : m <= s
<1>1. PICK m \in S : \A s \in S : ~ (<<s, m>> \in OpToRel(<, Nat))
  BY NatLessThanWellFounded, WFMin, Zenon
<1>2. \A s \in S : ~ (s < m)
  BY <1>1 DEF OpToRel
<1> QED
  BY <1>2

LEMMA PlanMin ==
    ASSUME NEW a \in Nat, NEW b \in Nat
    PROVE  LET m == Plan!Min({a, b}) IN m \in {a, b} /\ m <= a /\ m <= b
<1>1. \E x \in {a, b} : \A y \in {a, b} : x <= y
  OBVIOUS
<1> QED
  BY <1>1 DEF Plan!Min

LEMMA PlanMax ==
    ASSUME NEW a \in Nat, NEW b \in Nat, NEW c \in Nat
    PROVE  /\ Plan!Max({a, b, c}) \in Nat
           /\ Plan!Max({a, b}) \in {a, b} /\ Plan!Max({a, b}) >= a
<1>1. \E x \in {a, b, c} : \A y \in {a, b, c} : x >= y
  OBVIOUS
<1>2. \E x \in {a, b} : \A y \in {a, b} : x >= y
  OBVIOUS
<1>3. Plan!Max({a, b, c}) \in {a, b, c}
  BY <1>1 DEF Plan!Max
<1>4. Plan!Max({a, b}) \in {a, b} /\ Plan!Max({a, b}) >= a
  BY <1>2 DEF Plan!Max
<1> QED
  BY <1>3, <1>4

LEMMA ProductMonotonic ==
    ASSUME NEW i \in Nat, NEW j \in Nat, i <= j, NEW w \in Nat
    PROVE  i * w \in Nat /\ j * w \in Nat /\ i * w <= j * w
OBVIOUS

LEMMA QuotientFacts ==
    ASSUME NEW a \in Nat, NEW n \in Nat \ {0}
    PROVE  /\ a \div n \in Nat /\ a % n \in Nat
           /\ n * (a \div n) <= a /\ a < n * (a \div n) + n
OBVIOUS

LEMMA QuotientMonotonic ==
    ASSUME NEW a \in Nat, NEW b \in Nat, a <= b, NEW n \in Nat \ {0}
    PROVE  a \div n <= b \div n
<1>1. PICK p \in Nat : p = a \div n
  BY QuotientFacts
<1>2. PICK q \in Nat : q = b \div n
  BY QuotientFacts
<1>3. n * p <= a /\ b < n * q + n
  BY <1>1, <1>2, QuotientFacts
<1>4. SUFFICES ASSUME p >= q + 1 PROVE FALSE
  BY <1>1, <1>2
<1>5. n * p >= n * (q + 1)
  BY <1>4
<1>6. n * (q + 1) = n * q + n
  OBVIOUS
<1>7. n * p \in Nat /\ n * q \in Nat
  OBVIOUS
<1> QED
  BY <1>3, <1>5, <1>6, <1>7

(* The boundaries of n ranges over the blocks rise from the first block    *)
(* and stay within them.                                                   *)
LEMMA BoundaryFacts ==
    ASSUME NEW blocks \in Nat, NEW n \in Nat \ {0}
    PROVE  /\ Plan!Boundary(0, blocks, n) = 0
           /\ \A i \in 0..n : Plan!Boundary(i, blocks, n) \in 0..blocks
           /\ \A i, j \in 0..n : i <= j => Plan!Boundary(i, blocks, n) <= Plan!Boundary(j, blocks, n)
<1>1. ASSUME NEW i \in 0..n, NEW j \in 0..n, i <= j
      PROVE  Plan!Boundary(i, blocks, n) <= Plan!Boundary(j, blocks, n)
  BY <1>1, ProductMonotonic, QuotientMonotonic DEF Plan!Boundary
<1>2. ASSUME NEW i \in 0..n PROVE Plan!Boundary(i, blocks, n) \in Nat
  BY ProductMonotonic, QuotientFacts DEF Plan!Boundary
<1>3. Plan!Boundary(n, blocks, n) = blocks
  <2>1. PICK q \in Nat : q = (n * blocks) \div n
    BY ProductMonotonic, QuotientFacts
  <2>2. n * q <= n * blocks /\ n * blocks < n * q + n
    BY <2>1, ProductMonotonic, QuotientFacts
  <2>3. n * q + n = n * (q + 1)
    OBVIOUS
  <2>4. ~ (q > blocks) /\ ~ (q + 1 <= blocks)
    <3>1. ASSUME q >= blocks + 1 PROVE FALSE
      <4>1. n * q >= n * (blocks + 1) /\ n * (blocks + 1) = n * blocks + n
        BY <3>1
      <4> QED
        BY <4>1, <2>2
    <3>2. ASSUME q + 1 <= blocks PROVE FALSE
      <4>1. n * (q + 1) <= n * blocks
        BY <3>2
      <4> QED
        BY <4>1, <2>2, <2>3
    <3> QED
      BY <3>1, <3>2
  <2> QED
    BY <2>1, <2>4 DEF Plan!Boundary
<1>4. Plan!Boundary(0, blocks, n) = 0
  BY DEF Plan!Boundary
<1> QED
  BY <1>1, <1>2, <1>3, <1>4

-----------------------------------------------------------------------------
(* The plan: the ranges.                                                   *)

(* The instance counts as FiniteSets does. *)
LEMMA PlanCounts == ASSUME NEW S PROVE Plan!Cardinality(S) = Cardinality(S)
BY DEF Plan!Cardinality, Cardinality

LEMMA TotalPositive ==
    ASSUME NEW leaves, IsFiniteSet(leaves), leaves # {}, NEW weight \in [leaves -> Nat \ {0}]
    PROVE  Plan!Total(leaves, weight) \in Nat \ {0}
<1> DEFINE U == {{l} \X (1..weight[l]) : l \in leaves}
<1>1. IsFiniteSet(U)
  <2> DEFINE f == [l \in leaves |-> {l} \X (1..weight[l])]
  <2>1. f \in [leaves -> U] /\ \A u \in U : \E l \in leaves : f[l] = u
    BY Zenon
  <2>2. f \in Surjection(leaves, U)
    <3> HIDE DEF f, U
    <3> QED
      BY <2>1 DEF Surjection
  <2> HIDE DEF f, U
  <2> QED
    BY <2>2, FS_Surjection, Zenon
<1>2. ASSUME NEW l \in leaves
      PROVE  IsFiniteSet({l} \X (1..weight[l])) /\ <<l, 1>> \in {l} \X (1..weight[l])
  <2>1. weight[l] \in Nat /\ weight[l] >= 1 /\ weight[l] \in Int /\ 1 \in Int
    OBVIOUS
  <2>2. IsFiniteSet({l})
    BY FS_Singleton
  <2>3. IsFiniteSet(1..weight[l])
    BY <2>1, FS_Interval, Zenon
  <2>4. IsFiniteSet({l} \X (1..weight[l]))
    BY <2>2, <2>3, FS_Product, Zenon
  <2> QED
    BY <2>1, <2>4
<1>3. \A u \in U : IsFiniteSet(u)
  BY <1>2, Zenon
<1>4. \E x : x \in UNION U
  <2>1. PICK l \in leaves : TRUE
    OBVIOUS
  <2>2. {l} \X (1..weight[l]) \in U
    BY <2>1, Zenon
  <2>3. <<l, 1>> \in {l} \X (1..weight[l])
    BY <1>2, <2>1, Zenon
  <2> QED
    BY <2>2, <2>3, Zenon
<1> HIDE DEF U
<1>5. IsFiniteSet(UNION U) /\ UNION U # {}
  BY <1>1, <1>3, <1>4, FS_UNION, Zenon
<1>6. Cardinality(UNION U) \in Nat /\ Cardinality(UNION U) # 0
  BY <1>5, FS_CardinalityType, FS_EmptySet
<1>7. Plan!Total(leaves, weight) = Cardinality(UNION U)
  BY PlanCounts, Zenon DEF Plan!Total, U
<1> QED
  BY <1>6, <1>7

(* A leaf with blocks gets at least one range. *)
LEMMA ShareType ==
    ASSUME NEW weight \in Nat, NEW sum \in Nat \ {0}, NEW blocks \in Nat, NEW target \in Nat
    PROVE  Plan!Share(weight, sum, blocks, target) \in Nat \ {0}
<1>1. weight * target \in Nat
  OBVIOUS
<1>2. PICK c \in Nat : c = Plan!CeilDiv(weight * target, sum)
  BY <1>1, QuotientFacts DEF Plan!CeilDiv
<1>3. PICK m \in Nat : m = Plan!Min({c, blocks})
  BY PlanMin
<1>4. Plan!Max({1, m}) \in Nat \ {0}
  BY PlanMax
<1> QED
  BY <1>2, <1>3, <1>4 DEF Plan!Share

LEMMA TargetType ==
    ASSUME NEW conns \in Nat, NEW estimated \in Nat
    PROVE  Plan!TargetCount(conns, estimated) \in Nat
<1>1. conns * PerWorker \in Nat
  BY PlanAssumption
<1>2. PICK c \in Nat : c = Plan!CeilDiv(estimated, RowsPerPartition)
  BY PlanAssumption, QuotientFacts DEF Plan!CeilDiv
<1>3. PICK m \in Nat : m = Plan!Max({conns * PerWorker, c, 1})
  BY <1>1, PlanMax
<1>4. Plan!Min({MaxPartitions, m}) \in Nat
  BY PlanAssumption, PlanMin
<1> QED
  BY <1>2, <1>3, <1>4 DEF Plan!TargetCount

Covers(r, b) == r.from <= b /\ b < r.to

(* However many ranges a leaf is cut into, exactly one of them has the     *)
(* block b: the one before the first boundary beyond b.                    *)
LEMMA RangesOnce ==
    ASSUME NEW leaf, NEW blocks \in 1..MaxBlocks, NEW count \in Nat \ {0},
           NEW b \in 0..Plan!Unbounded - 1
    PROVE  \E r \in Plan!Ranges(leaf, blocks, count) :
              \A s \in Plan!Ranges(leaf, blocks, count) : Covers(s, b) <=> s = r
<1>0. MaxBlocks \in Nat /\ Plan!Unbounded = MaxBlocks + 2
  BY PlanAssumption DEF Plan!Unbounded
<1>1. PICK n \in 1..blocks : n = Plan!Min({count, blocks})
  BY PlanMin
<1> DEFINE B(i) == Plan!Boundary(i, blocks, n)
           edge == [i \in 0..n |-> IF i = n THEN Plan!Unbounded ELSE B(i)]
           range(i) == [leaf |-> leaf, from |-> IF i = 0 THEN 0 ELSE B(i),
                        to |-> IF i = n - 1 THEN Plan!Unbounded ELSE B(i + 1),
                        blocks |-> B(i + 1) - B(i)]
<1>2. Plan!Ranges(leaf, blocks, count) = {range(i) : i \in 0..n - 1}
  BY <1>1 DEF Plan!Ranges
<1>3. /\ B(0) = 0 /\ \A i \in 0..n : B(i) \in 0..blocks
      /\ \A i, j \in 0..n : i <= j => B(i) <= B(j)
  <2>1. blocks \in Nat /\ n \in Nat \ {0}
    BY <1>0, <1>1
  <2> QED
    BY <2>1, BoundaryFacts, Zenon
<1>4. /\ edge \in [0..n -> Nat] /\ edge[0] = 0 /\ edge[n] = Plan!Unbounded
      /\ \A i, j \in 0..n : i <= j => edge[i] <= edge[j]
  <2> HIDE DEF B
  <2> QED
    BY <1>0, <1>3
<1>5. \A i \in 0..n - 1 : range(i).from = edge[i] /\ range(i).to = edge[i + 1]
  <2> HIDE DEF B
  <2> QED
    BY <1>3
<1> HIDE DEF edge, range, B
<1>6. PICK j \in {k \in 1..n : b < edge[k]} : \A k \in {k \in 1..n : b < edge[k]} : j <= k
  <2> DEFINE S == {k \in 1..n : b < edge[k]}
  <2>1. S \subseteq Nat /\ n \in S
    BY <1>0, <1>4
  <2> HIDE DEF S
  <2>2. \E m \in S : \A s \in S : m <= s
    BY <2>1, LeastNumber
  <2> QED
    BY <2>2 DEF S
<1>7. j - 1 \in 0..n - 1 /\ edge[j - 1] <= b /\ b < edge[(j - 1) + 1]
  BY <1>4, <1>6
<1>8. ASSUME NEW k \in 0..n - 1, edge[k] <= b, b < edge[k + 1] PROVE k = j - 1
  <2>1. k + 1 \in 0..n /\ k \in 0..n /\ j \in 0..n /\ j - 1 \in 0..n /\ (j - 1) + 1 = j
    BY <1>6
  <2>2. edge[k] \in Nat /\ edge[k + 1] \in Nat /\ edge[j] \in Nat /\ edge[j - 1] \in Nat
    BY <1>4, <2>1
  <2>3. ~ (k + 1 <= j - 1)
    BY <1>4, <1>7, <1>8, <2>1, <2>2
  <2>4. ~ (j <= k)
    BY <1>4, <1>7, <1>8, <2>1, <2>2
  <2> QED
    BY <2>1, <2>3, <2>4
<1>9. \A k \in 0..n - 1 : Covers(range(k), b) <=> k = j - 1
  BY <1>5, <1>7, <1>8 DEF Covers
<1>10. \A k \in 0..n - 1 : Covers(range(k), b) <=> range(k) = range(j - 1)
  BY <1>7, <1>9
<1> QED
  BY <1>2, <1>7, <1>10

(* The counts a leaf's share is computed from. *)
LEMMA PlanRanges ==
    ASSUME NEW conns \in Nat, NEW est \in [Leaves -> [blocks : 0..MaxBlocks, rows : 0..MaxRows]],
           NEW l \in Leaves, est[l].blocks > 0
    PROVE  \E count \in Nat \ {0} :
              {r \in Plan!Partitions(conns, est) : r.leaf = l} = Plan!Ranges(l, est[l].blocks, count)
<1> DEFINE leaves == {k \in Leaves : est[k].blocks > 0}
           byRows == \A k \in leaves : est[k].rows > 0
           weight == [k \in leaves |-> IF byRows THEN est[k].rows ELSE est[k].blocks]
           sum == Plan!Total(leaves, weight)
           target == Plan!TargetCount(conns, IF byRows THEN sum ELSE 0)
           count(k) == Plan!Share(weight[k], sum, est[k].blocks, target)
<1>1. \A k \in Leaves : est[k].blocks \in Nat /\ est[k].rows \in Nat
  BY PlanAssumption
<1>2. weight \in [leaves -> Nat \ {0}]
  BY <1>1
<1>3. IsFiniteSet(leaves) /\ l \in leaves
  BY PlanAssumption, FS_Subset
<1>4. sum \in Nat \ {0}
  <2> HIDE DEF leaves, weight
  <2> QED
    BY <1>2, <1>3, TotalPositive
<1>5. target \in Nat
  <2> HIDE DEF sum
  <2> QED
    BY <1>4, TargetType
<1>6. count(l) \in Nat \ {0}
  <2> HIDE DEF weight, sum, target, leaves
  <2> QED
    BY <1>1, <1>2, <1>3, <1>4, <1>5, ShareType
<1>7. Plan!Partitions(conns, est) = UNION {Plan!Ranges(k, est[k].blocks, count(k)) : k \in leaves}
  BY Zenon DEF Plan!Partitions
<1> HIDE DEF leaves, count
<1>8. \A k, c : \A r \in Plan!Ranges(k, est[k].blocks, c) : r.leaf = k
  BY DEF Plan!Ranges
<1>9. {r \in Plan!Partitions(conns, est) : r.leaf = l} = Plan!Ranges(l, est[l].blocks, count(l))
  <2>1. ASSUME NEW r \in Plan!Partitions(conns, est), r.leaf = l
        PROVE  r \in Plan!Ranges(l, est[l].blocks, count(l))
    <3>1. PICK k \in leaves : r \in Plan!Ranges(k, est[k].blocks, count(k))
      BY <1>7, <2>1, Zenon
    <3>2. k = l
      BY <1>8, <2>1, <3>1, Zenon
    <3> QED
      BY <3>1, <3>2, Zenon
  <2>2. ASSUME NEW r \in Plan!Ranges(l, est[l].blocks, count(l))
        PROVE  r \in Plan!Partitions(conns, est) /\ r.leaf = l
    BY <1>3, <1>7, <1>8, <2>2, Zenon
  <2> QED
    BY <2>1, <2>2, Zenon
<1> QED
  BY <1>6, <1>9

(* What MakePlan works from does not change, and what it made stays made.  *)
PlanInv ==
    /\ connections \in Nat
    /\ estimate \in [Leaves -> [blocks : 0..MaxBlocks, rows : 0..MaxRows]]
    /\ ranges = {} \/ ranges = Plan!Partitions(connections, estimate)

(* Every block of a leaf, the ones it has grown by since it was measured   *)
(* included, is copied by exactly one range, for any number and size of    *)
(* the leaves, any estimates and any number of connections                 *)
(* (plan_table_copy_partitions, plan_ctid_partitions_for_table_blocks).    *)
THEOREM PlanCopiesEveryBlockOnce == Plan!Spec => []EveryBlockOnce
<1>1. Plan!Init => PlanInv
  BY PlanAssumption DEF Plan!Init, PlanInv
<1>2. PlanInv /\ [Plan!Next]_(Plan!vars) => PlanInv'
  BY DEF PlanInv, Plan!Next, Plan!MakePlan, Plan!vars
<1>3. PlanInv => EveryBlockOnce
  <2> SUFFICES ASSUME PlanInv, ranges # {}, NEW l \in Leaves, estimate[l].blocks > 0,
                      NEW b \in 0..Plan!Unbounded - 1
               PROVE  Cardinality({r \in ranges : r.leaf = l /\ r.from <= b /\ b < r.to}) = 1
    BY PlanCounts DEF EveryBlockOnce, Plan!EveryBlockOnce
  <2>1. PICK count \in Nat \ {0} :
          {r \in Plan!Partitions(connections, estimate) : r.leaf = l}
             = Plan!Ranges(l, estimate[l].blocks, count)
    BY PlanRanges DEF PlanInv
  <2>2. estimate[l].blocks \in 1..MaxBlocks
    BY PlanAssumption DEF PlanInv
  <2>3. PICK r \in Plan!Ranges(l, estimate[l].blocks, count) :
          \A s \in Plan!Ranges(l, estimate[l].blocks, count) : Covers(s, b) <=> s = r
    BY <2>2, RangesOnce
  <2>4. {s \in ranges : s.leaf = l /\ s.from <= b /\ b < s.to} = {r}
    BY <2>1, <2>3 DEF PlanInv, Covers
  <2> QED
    BY <2>4, FS_Singleton
<1> QED
  BY <1>1, <1>2, <1>3, PTL DEF Plan!Spec

=============================================================================
