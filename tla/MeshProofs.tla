----------------------------- MODULE MeshProofs -----------------------------
(***************************************************************************)
(* Proofs about the mesh, for every value of the constants.                *)
(*                                                                         *)
(* The exporter: what Close promises.  The invariant follows the events:   *)
(* those sent, those in the batch and those in the channel are consecutive *)
(* stretches of the order they entered in, and from the loop's "drain" on  *)
(* the stretch that was promised can only move forward.                    *)
(*                                                                         *)
(* The collector: its window, index, graph and drift.  The invariant gives *)
(* every slot of the ring its place in the log, on which the claims about  *)
(* the index rest; the claims about senders rest on the index.             *)
(*                                                                         *)
(* The announcer: what having registered means.                            *)
(***************************************************************************)
EXTENDS MCMesh, SequenceTheorems, TLAPS

-----------------------------------------------------------------------------
(* The exporter. *)

\* The events, in the order they entered: the sent ones, the batch, the channel.
InOrder ==
  /\ Len(sent) + Len(batch) + Len(queue) = entered
  /\ \A k \in 1..Len(sent) : sent[k] = k
  /\ \A k \in 1..Len(batch) : batch[k] = Len(sent) + k
  /\ \A k \in 1..Len(queue) : queue[k] = Len(sent) + Len(batch) + k

\* Where the promised events are.
Promise ==
  /\ promised <= entered
  /\ loop \in {"drain", "last", "done"} => stop
  /\ loop = "last" => promised <= Len(sent) + Len(batch)
  /\ loop = "done" => promised <= Len(sent)
  /\ \A c \in Closer : closing[c] = "closed" => loop = "done"

IInv == TypeOK /\ InOrder /\ Promise

-----------------------------------------------------------------------------
\* An event enters the channel.
LEMMA EnterChannel ==
  ASSUME IInv, Export
  PROVE  IInv'
<1> USE PushFeedAssumption DEF IInv
<1>1. /\ queue' \in Seq(Nat) /\ Len(queue') = Len(queue) + 1
      /\ \A k \in 1..Len(queue) : queue'[k] = queue[k]
      /\ queue'[Len(queue) + 1] = entered + 1
  BY AppendProperties DEF Export, TypeOK
<1>2. TypeOK'
  BY <1>1 DEF Export, TypeOK
<1>3. InOrder'
  <2>1. /\ Len(sent) + Len(batch) + Len(queue') = entered' /\ UNCHANGED <<sent, batch>>
        /\ entered + 1 = Len(sent) + Len(batch) + (Len(queue) + 1)
    BY <1>1 DEF Export, TypeOK, InOrder
  <2>2. \A k \in 1..Len(queue') : queue'[k] = Len(sent) + Len(batch) + k
    <3> SUFFICES ASSUME NEW k \in 1..Len(queue') PROVE queue'[k] = Len(sent) + Len(batch) + k
      OBVIOUS
    <3>1. k \in 1..Len(queue) \/ k = Len(queue) + 1
      BY <1>1 DEF TypeOK
    <3> QED BY <1>1, <2>1, <3>1 DEF InOrder
  <2> QED BY <2>1, <2>2 DEF InOrder
<1>4. Promise'
  BY DEF Export, TypeOK, Promise
<1> QED BY <1>2, <1>3, <1>4

\* The head of the channel moves to the end of the batch.
LEMMA MoveToBatch ==
  ASSUME TypeOK, InOrder, queue # <<>>,
         queue' = Tail(queue), batch' = Append(batch, Head(queue)), UNCHANGED <<sent, entered>>
  PROVE  /\ InOrder'
         /\ queue' \in Seq(Nat) /\ Len(queue') < Len(queue)
         /\ batch' \in Seq(Nat) /\ Len(batch') = Len(batch) + 1
<1>1. /\ Head(queue) \in Nat /\ Len(queue) # 0
      /\ queue' \in Seq(Nat) /\ Len(queue') = Len(queue) - 1
      /\ \A k \in 1..Len(queue') : queue'[k] = queue[k + 1]
  BY HeadTailProperties, EmptySeq DEF TypeOK
<1>2. /\ batch' \in Seq(Nat) /\ Len(batch') = Len(batch) + 1
      /\ \A k \in 1..Len(batch) : batch'[k] = batch[k]
      /\ batch'[Len(batch) + 1] = Head(queue)
  BY <1>1, AppendProperties DEF TypeOK
<1>3. Head(queue) = Len(sent) + Len(batch) + 1
  BY <1>1 DEF TypeOK, InOrder
<1>4. InOrder'
  <2>1. Len(sent) + Len(batch') + Len(queue') = entered
    <3>1. Len(sent) \in Nat /\ Len(batch) \in Nat /\ Len(queue) \in Nat
      BY LenProperties DEF TypeOK
    <3>2. Len(sent) + Len(batch) + Len(queue) = entered
      BY DEF InOrder
    <3>3. Len(batch') = Len(batch) + 1 /\ Len(queue') = Len(queue) - 1
      BY <1>1, <1>2
    <3> QED BY ONLY <3>1, <3>2, <3>3
  <2>2. \A k \in 1..Len(batch') : batch'[k] = Len(sent) + k
    <3> SUFFICES ASSUME NEW k \in 1..Len(batch') PROVE batch'[k] = Len(sent) + k
      OBVIOUS
    <3>1. k \in 1..Len(batch) \/ k = Len(batch) + 1
      BY <1>2 DEF TypeOK
    <3>2. Len(sent) + Len(batch) + 1 = Len(sent) + (Len(batch) + 1)
      BY DEF TypeOK
    <3> QED BY <1>2, <1>3, <3>1, <3>2 DEF InOrder
  <2>3. \A k \in 1..Len(queue') : queue'[k] = Len(sent) + Len(batch') + k
    <3> SUFFICES ASSUME NEW k \in 1..Len(queue')
                 PROVE queue'[k] = Len(sent) + Len(batch') + k
      OBVIOUS
    <3>1. k + 1 \in 1..Len(queue)
      BY <1>1 DEF TypeOK
    <3>2. Len(sent) + Len(batch) + (k + 1) = Len(sent) + Len(batch') + k
      BY <1>2 DEF TypeOK
    <3> QED BY <1>1, <3>1, <3>2 DEF InOrder
  <2> QED BY <2>1, <2>2, <2>3 DEF InOrder
<1> QED BY <1>1, <1>2, <1>4 DEF TypeOK

\* A batch is handed to the Sender.
LEMMA SendBatch ==
  ASSUME TypeOK, InOrder, sent' = sent \o batch, batch' = <<>>, UNCHANGED <<queue, entered>>
  PROVE  /\ InOrder'
         /\ sent' \in Seq(Nat) /\ Len(sent') = Len(sent) + Len(batch)
         /\ batch' \in Seq(Nat) /\ Len(batch') = 0
<1>1. /\ sent' \in Seq(Nat) /\ Len(sent') = Len(sent) + Len(batch)
      /\ \A k \in 1..Len(sent') :
           sent'[k] = IF k <= Len(sent) THEN sent[k] ELSE batch[k - Len(sent)]
  BY ConcatProperties DEF TypeOK
<1>2. batch' \in Seq(Nat) /\ Len(batch') = 0
  BY EmptySeq
<1>3. \A k \in 1..Len(sent') : sent'[k] = k
  <2> SUFFICES ASSUME NEW k \in 1..Len(sent') PROVE sent'[k] = k
    OBVIOUS
  <2>1. CASE k <= Len(sent)
    BY <1>1, <2>1 DEF TypeOK, InOrder
  <2>2. CASE ~(k <= Len(sent))
    <3>1. k - Len(sent) \in 1..Len(batch)
      BY <1>1, <2>2 DEF TypeOK
    <3> QED BY <1>1, <2>2, <3>1 DEF TypeOK, InOrder
  <2> QED BY <2>1, <2>2
<1>4. InOrder'
  BY <1>1, <1>2, <1>3 DEF TypeOK, InOrder
<1> QED BY <1>1, <1>2, <1>4

-----------------------------------------------------------------------------
LEMMA FeedInit == Init => IInv
<1> SUFFICES ASSUME Init PROVE IInv
  OBVIOUS
<1>1. /\ queue \in Seq(Nat) /\ Len(queue) = 0
      /\ batch \in Seq(Nat) /\ Len(batch) = 0
      /\ sent \in Seq(Nat) /\ Len(sent) = 0
  BY EmptySeq DEF Init
<1>2. TypeOK
  <2>1. closing \in [Closer -> {"open", "waiting", "closed"}]
    BY DEF Init
  <2>2. 0 <= BufferSize /\ 0 <= BatchSize /\ 0 < BatchSize
    BY PushFeedAssumption
  <2>3. entered \in Nat /\ promised \in Nat /\ stop \in BOOLEAN /\ loop = "select"
    BY DEF Init
  <2> QED BY <1>1, <2>1, <2>2, <2>3 DEF TypeOK
<1>3. InOrder
  BY <1>1 DEF Init, InOrder
<1>4. Promise
  BY DEF Init, Promise
<1> QED BY <1>2, <1>3, <1>4 DEF IInv

LEMMA FeedNext == IInv /\ [Next]_vars => IInv'
<1> SUFFICES ASSUME IInv, [Next]_vars PROVE IInv'
  OBVIOUS
<1> USE PushFeedAssumption
<1>1. CASE Export
  BY <1>1, EnterChannel
<1>2. CASE ExportDrops \/ UNCHANGED vars
  BY <1>2 DEF ExportDrops, vars, IInv, TypeOK, InOrder, Promise
<1>3. CASE Receive
  <2>1. /\ InOrder' /\ queue' \in Seq(Nat) /\ Len(queue') < Len(queue)
        /\ batch' \in Seq(Nat) /\ Len(batch') = Len(batch) + 1
    BY <1>3, MoveToBatch DEF Receive, IInv
  <2>2. TypeOK'
    BY <1>3, <2>1 DEF Receive, IInv, TypeOK
  <2>3. Promise'
    BY <1>3 DEF Receive, IInv, TypeOK, Promise
  <2> QED BY <2>1, <2>2, <2>3 DEF IInv
<1>4. CASE Flush
  <2>1. /\ InOrder' /\ sent' \in Seq(Nat) /\ batch' \in Seq(Nat) /\ Len(batch') = 0
    BY <1>4, SendBatch DEF Flush, IInv
  <2>2. TypeOK'
    BY <1>4, <2>1 DEF Flush, IInv, TypeOK
  <2>3. Promise'
    BY <1>4 DEF Flush, IInv, TypeOK, Promise
  <2> QED BY <2>1, <2>2, <2>3 DEF IInv
<1>5. CASE Tick
  BY <1>5 DEF Tick, IInv, TypeOK, InOrder, Promise
<1>6. CASE StopLoop
  BY <1>6 DEF StopLoop, IInv, TypeOK, InOrder, Promise
<1>7. CASE Drain
  <2>1. /\ InOrder' /\ queue' \in Seq(Nat) /\ Len(queue') < Len(queue)
        /\ batch' \in Seq(Nat) /\ Len(batch') = Len(batch) + 1
    BY <1>7, MoveToBatch DEF Drain, IInv
  <2>2. TypeOK'
    BY <1>7, <2>1 DEF Drain, IInv, TypeOK
  <2>3. Promise'
    BY <1>7 DEF Drain, IInv, TypeOK, Promise
  <2> QED BY <2>1, <2>2, <2>3 DEF IInv
<1>8. CASE Drained
  <2>1. Len(queue) = 0
    BY <1>8, EmptySeq DEF Drained, IInv, TypeOK
  <2> QED BY <1>8, <2>1 DEF Drained, IInv, TypeOK, InOrder, Promise
<1>9. CASE LastFlush
  <2>1. /\ InOrder' /\ sent' \in Seq(Nat) /\ Len(sent') = Len(sent) + Len(batch)
        /\ batch' \in Seq(Nat) /\ Len(batch') = 0
    BY <1>9, SendBatch DEF LastFlush, IInv
  <2>2. TypeOK'
    BY <1>9, <2>1 DEF LastFlush, IInv, TypeOK
  <2>3. Promise'
    BY <1>9, <2>1 DEF LastFlush, IInv, TypeOK, Promise
  <2> QED BY <2>1, <2>2, <2>3 DEF IInv
<1>10. ASSUME NEW c \in Closer, Close(c) PROVE IInv'
  <2>1. TypeOK' /\ InOrder'
    BY <1>10 DEF Close, IInv, TypeOK, InOrder
  <2>2. Promise'
    BY <1>10 DEF Close, IInv, TypeOK, Promise, InOrder
  <2> QED BY <2>1, <2>2 DEF IInv
<1>11. ASSUME NEW c \in Closer, Closed(c) PROVE IInv'
  BY <1>11 DEF Closed, IInv, TypeOK, InOrder, Promise
<1> QED
  BY <1>1, <1>2, <1>3, <1>4, <1>5, <1>6, <1>7, <1>8, <1>9, <1>10, <1>11 DEF Next, Loop

LEMMA FeedInvariant == Spec => []IInv
<1> QED BY FeedInit, FeedNext, PTL DEF Spec

-----------------------------------------------------------------------------
\* The channel never holds more than BufferSize events, and the loop never lets
\* a batch grow past BatchSize before it is told to stop.
THEOREM PushFeedTypes == Spec => []TypeOK
<1>1. IInv => TypeOK
  BY DEF IInv
<1> QED BY <1>1, FeedInvariant, PTL

\* Close flushes everything already queued: no caller of Close returns before
\* the events that were in when the first Close was called have been sent, once
\* each and in order.
THEOREM PushFeedClosedMeansSent == Spec => []ClosedMeansSent
<1>1. IInv => ClosedMeansSent
  BY DEF IInv, TypeOK, InOrder, Promise, ClosedMeansSent
<1> QED BY <1>1, FeedInvariant, PTL

-----------------------------------------------------------------------------
(* The collector's window and its index. *)

\* Which event of the log the slot k of the ring holds.
Position(k) == Len(log) - Len(ring) + (IF k > next THEN k - next ELSE k - next + Capacity)

\* The ring holds the newest events, and the cursor is at the oldest of them.
SlotsHold ==
  /\ Len(ring) <= Len(log)
  /\ Len(ring) < Capacity => Len(ring) = Len(log)
  /\ \A k \in 1..Len(ring) : ring[k] = log[Position(k)]

\* What an event does to the log and the ring, slot by slot: it takes one slot, and the
\* cursor moves on when that was the oldest one's.
TakesSlot(e, slot) ==
  /\ log' \in Seq(Store!EventType) /\ Len(log') = Len(log) + 1
  /\ log'[Len(log) + 1] = e /\ \A i \in 1..Len(log) : log'[i] = log[i]
  /\ ring' \in Seq(Store!EventType) /\ slot \in 1..Len(ring') /\ ring'[slot] = e
  /\ \A k \in 1..Len(ring') : k # slot => k \in 1..Len(ring) /\ ring'[k] = ring[k]
  /\ IF Len(ring) < Capacity
     THEN slot = Len(ring) + 1 /\ Len(ring') = Len(ring) + 1 /\ next' = next
     ELSE slot = next + 1 /\ Len(ring') = Len(ring)
          /\ next' = (IF next + 1 = Capacity THEN 0 ELSE next + 1)

LEMMA RingStep ==
  ASSUME Store!TypeOK, NEW e \in Event, Store!AddEvent(e)
  PROVE  /\ Len(ring) < Capacity => TakesSlot(e, Len(ring) + 1)
         /\ Len(ring) >= Capacity => TakesSlot(e, next + 1)
<1>0. e \in Store!EventType /\ Len(log) \in Nat /\ Len(ring) \in Nat /\ Capacity \in Nat \ {0}
  BY MeshAssumption DEF Store!TypeOK
<1>1. /\ log' \in Seq(Store!EventType) /\ Len(log') = Len(log) + 1
      /\ log'[Len(log) + 1] = e /\ \A i \in 1..Len(log) : log'[i] = log[i]
  BY <1>0, AppendProperties DEF Store!AddEvent, Store!TypeOK
<1>2. ASSUME Len(ring) < Capacity PROVE TakesSlot(e, Len(ring) + 1)
  <2>1. ring' = Append(ring, e) /\ next' = next
    BY <1>0, <1>2 DEF Store!AddEvent, Store!recordSpan
  <2>2. /\ ring' \in Seq(Store!EventType) /\ Len(ring') = Len(ring) + 1
        /\ \A k \in 1..Len(ring) : ring'[k] = ring[k]
        /\ ring'[Len(ring) + 1] = e
    BY <1>0, <2>1, AppendProperties DEF Store!TypeOK
  <2>3. \A k \in 1..Len(ring') : k # Len(ring) + 1 => k \in 1..Len(ring) /\ ring'[k] = ring[k]
    BY <1>0, <2>2
  <2> QED
    BY <1>0, <1>1, <1>2, <2>1, <2>2, <2>3 DEF TakesSlot
<1>3. ASSUME Len(ring) >= Capacity PROVE TakesSlot(e, next + 1)
  <2>1. Len(ring) = Capacity /\ next \in 0..Capacity - 1
    BY <1>0, <1>3 DEF Store!TypeOK
  <2>2. ring' = [ring EXCEPT ![next + 1] = e] /\ next' = (next + 1) % Capacity
    BY <1>0, <1>3 DEF Store!AddEvent, Store!recordSpan
  <2>3. next' = IF next + 1 = Capacity THEN 0 ELSE next + 1
    BY <1>0, <2>1, <2>2
  <2>4. /\ ring' \in Seq(Store!EventType) /\ Len(ring') = Len(ring)
        /\ \A k \in 1..Len(ring) : ring'[k] = IF k = next + 1 THEN e ELSE ring[k]
    BY <1>0, <2>1, <2>2, ExceptSeq DEF Store!TypeOK
  <2> QED
    BY <1>0, <1>1, <1>3, <2>1, <2>3, <2>4 DEF TakesSlot
<1> QED
  BY <1>2, <1>3

LEMMA SlotsHoldStep ==
  ASSUME Store!TypeOK, SlotsHold, NEW e \in Event, NEW slot, TakesSlot(e, slot)
  PROVE  SlotsHold'
<1>0. /\ Len(log) \in Nat /\ Len(ring) \in 0..Capacity /\ Capacity \in Nat \ {0} /\ next \in 0..Capacity - 1
      /\ Len(ring) < Capacity => next = 0
  BY MeshAssumption DEF Store!TypeOK
<1>2. /\ Len(log') = Len(log) + 1 /\ Len(ring) <= Len(log) /\ (Len(ring) < Capacity => Len(ring) = Len(log))
      /\ IF Len(ring) < Capacity
         THEN slot = Len(ring) + 1 /\ Len(ring') = Len(ring) + 1 /\ next' = next
         ELSE slot = next + 1 /\ Len(ring') = Len(ring)
              /\ next' = (IF next + 1 = Capacity THEN 0 ELSE next + 1)
  BY DEF TakesSlot, SlotsHold
<1>1. Len(ring') <= Len(log') /\ (Len(ring') < Capacity => Len(ring') = Len(log'))
  BY <1>0 DEF TakesSlot, SlotsHold
<1>3. ASSUME NEW k \in 1..Len(ring') PROVE ring'[k] = log'[Position(k)']
  <2>1. CASE k = slot
    <3>1. Position(k)' = Len(log) + 1
      BY <1>0, <1>2, <2>1 DEF Position
    <3> QED
      BY <2>1, <3>1 DEF TakesSlot
  <2>2. CASE k # slot
    <3>1. k \in 1..Len(ring) /\ ring'[k] = ring[k] /\ ring[k] = log[Position(k)]
      BY <2>2 DEF TakesSlot, SlotsHold
    <3>2. Position(k)' = Position(k)
      <4>1. k \in 1..Len(ring)
        BY <3>1
      <4>2. CASE Len(ring) < Capacity
        BY <1>0, <1>2, <4>1, <4>2 DEF Position
      <4>3. CASE Len(ring) = Capacity
        BY <1>0, <1>2, <2>2, <4>1, <4>3 DEF Position
      <4> QED
        BY <1>0, <4>2, <4>3
    <3>3. Position(k) \in 1..Len(log)
      BY <1>0, <3>1 DEF SlotsHold, Position
    <3> QED
      BY <3>1, <3>2, <3>3 DEF TakesSlot
  <2> QED
    BY <2>1, <2>2
<1> QED
  BY <1>1, <1>3 DEF SlotsHold

LEMMA NewestInOrder ==
  ASSUME Store!TypeOK, SlotsHold
  PROVE  Store!RingIsNewest
<1>0. /\ Len(log) \in Nat /\ Len(ring) \in 0..Capacity /\ Capacity \in Nat \ {0} /\ next \in 0..Capacity - 1
      /\ Len(ring) < Capacity => next = 0
  BY MeshAssumption DEF Store!TypeOK
<1> SUFFICES ASSUME NEW k \in 1..Len(ring)
             PROVE  ring[((next + k - 1) % Capacity) + 1] = log[Len(log) - Len(ring) + k]
  BY DEF Store!RingIsNewest
<1>1. (next + k - 1) % Capacity = IF next + k <= Capacity THEN next + k - 1 ELSE next + k - 1 - Capacity
  <2>1. next + k - 1 \in Nat /\ next + k - 1 < 2 * Capacity
    BY <1>0
  <2> QED
    BY <1>0, <2>1
<1> DEFINE slot == ((next + k - 1) % Capacity) + 1
<1>2. slot \in 1..Len(ring)
  BY <1>0, <1>1
<1>3. Position(slot) = Len(log) - Len(ring) + k
  BY <1>0, <1>1 DEF Position
<1> QED
  BY <1>2, <1>3 DEF SlotsHold

\* What the index says after an event: it is named first, and what left the window is not.
LEMMA IndexStep ==
  ASSUME Store!TypeOK, NEW e \in Event, Store!AddEvent(e), NEW slot, TakesSlot(e, slot), NEW s \in Span
  PROVE  spanService'[s] =
           IF s = e.span /\ e.service # none THEN e.service
           ELSE IF Len(ring) >= Capacity /\ s = ring[slot].span THEN none ELSE spanService[s]
<1>1. CASE Len(ring) >= Capacity
  <2>1. slot = next + 1
    BY <1>1, MeshAssumption DEF TakesSlot, Store!TypeOK
  <2> QED
    BY <1>1, <2>1 DEF Store!AddEvent, Store!recordSpan
<1>2. CASE ~(Len(ring) >= Capacity)
  BY <1>2, MeshAssumption DEF Store!AddEvent, Store!recordSpan
<1> QED
  BY <1>1, <1>2

LEMMA IndexNamesOwnerStep ==
  ASSUME Store!TypeOK, Store!IndexNamesOwner, NEW e \in Event, Store!AddEvent(e), NEW slot, TakesSlot(e, slot)
  PROVE  Store!IndexNamesOwner'
<1> SUFFICES ASSUME NEW s \in Span, spanService'[s] # none
             PROVE  \E k \in 1..Len(ring') : ring'[k].span = s /\ ring'[k].service = spanService'[s]
  BY DEF Store!IndexNamesOwner, Store!InRing
<1>1. CASE s = e.span /\ e.service # none
  <2>1. ring'[slot].span = s /\ ring'[slot].service = spanService'[s] /\ slot \in 1..Len(ring')
    BY <1>1, IndexStep DEF TakesSlot
  <2> QED
    BY <2>1
<1>2. CASE ~(s = e.span /\ e.service # none)
  <2>1. spanService'[s] = spanService[s] /\ (Len(ring) >= Capacity => s # ring[slot].span)
    BY <1>2, IndexStep
  <2>2. PICK k \in 1..Len(ring) : ring[k].span = s /\ ring[k].service = spanService[s]
    BY <2>1 DEF Store!IndexNamesOwner, Store!InRing
  <2>3. Len(ring) \in Nat /\ Capacity \in Nat
    BY MeshAssumption DEF Store!TypeOK
  <2>4. k \in 1..Len(ring') /\ k # slot
    BY <2>1, <2>2, <2>3 DEF TakesSlot
  <2> QED
    BY <2>1, <2>2, <2>4 DEF TakesSlot
<1> QED
  BY <1>1, <1>2

\* A slot of the ring is a place of the log, and two slots are two places.
LEMMA SlotsAreApart ==
  ASSUME Store!TypeOK, SlotsHold, NEW k \in 1..Len(ring)
  PROVE  /\ Position(k) \in 1..Len(log) /\ ring[k] = log[Position(k)] /\ Len(log) \in Nat
         /\ \A j \in 1..Len(ring) : j # k => Position(j) # Position(k)
<1>0. /\ Len(log) \in Nat /\ Len(ring) \in 0..Capacity /\ Capacity \in Nat \ {0} /\ next \in 0..Capacity - 1
      /\ Len(ring) < Capacity => next = 0
  BY MeshAssumption DEF Store!TypeOK
<1>1. Len(ring) <= Len(log) /\ ring[k] = log[Position(k)]
  BY DEF SlotsHold
<1>2. Position(k) \in 1..Len(log)
  BY <1>0, <1>1 DEF Position
<1>3. ASSUME NEW j \in 1..Len(ring), j # k PROVE Position(j) # Position(k)
  BY <1>0, <1>1, <1>3 DEF Position
<1> QED
  BY <1>0, <1>1, <1>2, <1>3

Once(l, span) == \A i, j \in 1..Len(l) : l[i].span = span /\ l[j].span = span => i = j

LEMMA MirrorsRingStep ==
  ASSUME Store!TypeOK, SlotsHold, Store!MirrorsRing, NEW e \in Event, Store!AddEvent(e),
         NEW slot, TakesSlot(e, slot)
  PROVE  Store!MirrorsRing'
<1> SUFFICES ASSUME NEW k \in 1..Len(ring'), ring'[k].span # none, ring'[k].service # none,
                    Once(log', ring'[k].span)
             PROVE  spanService'[ring'[k].span] = ring'[k].service
  BY DEF Store!MirrorsRing, Once
<1>0. Len(log) \in Nat /\ Len(ring) \in Nat /\ Capacity \in Nat
  BY MeshAssumption DEF Store!TypeOK
<1>1. CASE k = slot
  <2>1. ring'[k] = e /\ e \in Store!EventType
    BY <1>1, MeshAssumption DEF TakesSlot
  <2>2. e.span \in Span
    BY <2>1 DEF Store!EventType
  <2> QED
    BY <2>1, <2>2, IndexStep
<1>2. CASE k # slot
  <2>1. k \in 1..Len(ring) /\ ring'[k] = ring[k] /\ ring[k] \in Store!EventType
    BY <1>2, ElementOfSeq DEF TakesSlot, Store!TypeOK
  <2> DEFINE s == ring[k].span
  <2>2. s \in Span
    BY <2>1 DEF Store!EventType
  <2>3. Position(k) \in 1..Len(log) /\ log[Position(k)].span = s /\ log'[Position(k)].span = s
    BY <2>1, SlotsAreApart DEF TakesSlot
  <2>4. e.span # s
    <3>1. Len(log) + 1 \in 1..Len(log') /\ Position(k) \in 1..Len(log') /\ Position(k) # Len(log) + 1
      BY <1>0, <2>3 DEF TakesSlot
    <3> QED
      BY <2>1, <2>3, <3>1 DEF Once, TakesSlot
  <2>5. Once(log, s)
    <3>1. \A i \in 1..Len(log) : i \in 1..Len(log') /\ log'[i] = log[i]
      BY <1>0 DEF TakesSlot
    <3> QED
      BY <2>1, <3>1 DEF Once
  <2>6. spanService[s] = ring[k].service
    BY <2>1, <2>5 DEF Store!MirrorsRing, Once
  <2>7. ~(Len(ring) >= Capacity /\ s = ring[slot].span)
    <3> SUFFICES ASSUME Len(ring) >= Capacity, s = ring[slot].span PROVE FALSE
      OBVIOUS
    <3>1. slot \in 1..Len(ring)
      BY <1>0 DEF TakesSlot
    <3>2. Position(slot) \in 1..Len(log) /\ log[Position(slot)].span = s
      BY <3>1, SlotsAreApart
    <3>3. Position(slot) # Position(k)
      BY <1>2, <2>1, <3>1, SlotsAreApart
    <3> QED
      BY <2>3, <2>5, <3>2, <3>3 DEF Once
  <2> QED
    BY <2>1, <2>2, <2>4, <2>6, <2>7, IndexStep
<1> QED
  BY <1>1, <1>2

-----------------------------------------------------------------------------
(* What the store says of the fleet. *)

CallerOf(e) == Store!Caller(e, spanService')

LEMMA CallerIsKnown ==
  ASSUME Store!TypeOK', NEW e \in Event
  PROVE  CallerOf(e) \in Service \cup {none}
  BY MeshAssumption DEF CallerOf, Store!Caller, Store!TypeOK, Store!EventType

LEMMA TypeStep ==
  ASSUME Store!TypeOK, [Store!Next]_Store!vars
  PROVE  Store!TypeOK'
<1>1. ASSUME NEW s \in Service, NEW doc \in Document, Store!Register(s, doc) PROVE Store!TypeOK'
  <2>1. Store!newRegistration(doc) \in Store!DocumentType
    BY MeshAssumption DEF Store!newRegistration, Store!DocumentType
  <2> QED
    BY <1>1, <2>1 DEF Store!Register, Store!TypeOK, Store!traceVars
<1>2. ASSUME NEW e \in Event, Store!AddEvent(e) PROVE Store!TypeOK'
  <2>0. e \in Store!EventType /\ Capacity \in Nat \ {0} /\ Len(ring) \in 0..Capacity /\ next \in 0..Capacity - 1
        /\ (Len(ring) < Capacity => next = 0)
    BY MeshAssumption DEF Store!TypeOK
  <2>1. PICK slot : TakesSlot(e, slot)
    BY <1>2, <2>0, RingStep
  <2>2. /\ log' \in Seq(Store!EventType) /\ ring' \in Seq(Store!EventType)
        /\ Len(ring') <= Capacity /\ next' \in 0..Capacity - 1 /\ (Len(ring') < Capacity => next' = 0)
    BY <2>0, <2>1 DEF TakesSlot
  <2>3. spanService' \in [Span -> Service \cup {none}]
    <3>1. DOMAIN spanService' = Span /\ spanService' = [s \in Span |-> spanService'[s]]
      BY <1>2 DEF Store!AddEvent, Store!recordSpan
    <3>2. ASSUME NEW s \in Span PROVE spanService'[s] \in Service \cup {none}
      <4>1. spanService'[s] \in {e.service, none, spanService[s]}
        BY <1>2, <2>1, IndexStep
      <4>2. e.service \in Service \cup {none}
        BY <2>0 DEF Store!EventType
      <4>3. spanService[s] \in Service \cup {none}
        BY DEF Store!TypeOK
      <4> QED
        BY <4>1, <4>2, <4>3
    <3> QED
      BY <3>1, <3>2
  <2>4. CallerOf(e) \in Service \cup {none}
    BY <2>0, <2>3 DEF CallerOf, Store!Caller, Store!EventType
  <2>5. consumerSeen' \in [Topic -> SUBSET Service] /\ providerSeen' \in [Topic -> SUBSET Service]
    BY <1>2, <2>0, <2>4 DEF Store!AddEvent, CallerOf, Store!EventType, Store!TypeOK
  <2>6. drift' \in [Service -> [Topic -> Nat]]
    <3> DEFINE D(s) == (IF s = e.service /\ Store!HandlerDrift(e) THEN 1 ELSE 0)
                       + (IF s = CallerOf(e) /\ Store!SenderDrift(e, CallerOf(e)) THEN 1 ELSE 0)
    <3>1. drift' = [s \in Service |-> [drift[s] EXCEPT ![e.topic] = @ + D(s)]]
      BY <1>2 DEF Store!AddEvent, CallerOf
    <3>2. \A s \in Service : D(s) \in Nat
      OBVIOUS
    <3> HIDE DEF D
    <3>3. drift \in [Service -> [Topic -> Nat]] /\ e.topic \in Topic
      BY <2>0 DEF Store!TypeOK, Store!EventType
    <3>4. ASSUME NEW s \in Service PROVE [drift[s] EXCEPT ![e.topic] = @ + D(s)] \in [Topic -> Nat]
      BY <3>2, <3>3
    <3> QED
      BY <3>1, <3>4
  <2> QED
    BY <1>2, <2>2, <2>3, <2>5, <2>6 DEF Store!AddEvent, Store!storeVars, Store!TypeOK
<1>3. CASE UNCHANGED Store!vars
  BY <1>3 DEF Store!vars, Store!storeVars, Store!traceVars, Store!TypeOK
<1> QED
  BY <1>1, <1>2, <1>3 DEF Store!Next

LEMMA GraphStep ==
  ASSUME Store!TypeOK, Store!GraphIsDeclared, [Store!Next]_Store!vars
  PROVE  Store!GraphIsDeclared'
<1>1. ASSUME NEW s \in Service, NEW doc \in Document, Store!Register(s, doc) PROVE Store!GraphIsDeclared'
  <2>1. Store!newRegistration(doc) # none
    BY MeshAssumption DEF Store!newRegistration, Store!DocumentType
  <2> SUFFICES ASSUME NEW t \in Topic
               PROVE  /\ consumers'[t] = {x \in Service : registration'[x] # none /\ t \in registration'[x].requests}
                      /\ providers'[t] = {x \in Service : registration'[x] # none /\ t \in registration'[x].produces}
    BY DEF Store!GraphIsDeclared
  <2>2. \A x \in Service : registration'[x] = IF x = s THEN Store!newRegistration(doc) ELSE registration[x]
    BY <1>1 DEF Store!Register, Store!TypeOK
  <2>3. /\ consumers'[t] = (consumers[t] \ {s}) \cup {x \in {s} : t \in Store!newRegistration(doc).requests}
        /\ providers'[t] = (providers[t] \ {s}) \cup {x \in {s} : t \in Store!newRegistration(doc).produces}
    BY <1>1 DEF Store!Register
  <2> QED
    BY <2>1, <2>2, <2>3 DEF Store!GraphIsDeclared
<1>2. ASSUME NEW e \in Event, Store!AddEvent(e) PROVE Store!GraphIsDeclared'
  BY <1>2 DEF Store!AddEvent, Store!storeVars, Store!GraphIsDeclared
<1>3. CASE UNCHANGED Store!vars
  BY <1>3 DEF Store!vars, Store!storeVars, Store!GraphIsDeclared
<1> QED
  BY <1>1, <1>2, <1>3 DEF Store!Next

LEMMA DriftStep ==
  ASSUME Store!TypeOK, Store!DriftHasEvidence, [Store!Next]_Store!vars
  PROVE  Store!DriftHasEvidence'
<1>1. ASSUME NEW s \in Service, NEW doc \in Document, Store!Register(s, doc) PROVE Store!DriftHasEvidence'
  <2>1. Store!newRegistration(doc) # none
    BY MeshAssumption DEF Store!newRegistration, Store!DocumentType
  <2> QED
    BY <1>1, <2>1 DEF Store!Register, Store!traceVars, Store!DriftHasEvidence, Store!TypeOK
<1>2. ASSUME NEW e \in Event, Store!AddEvent(e) PROVE Store!DriftHasEvidence'
  <2> SUFFICES ASSUME NEW s \in Service, NEW t \in Topic, drift'[s][t] > 0
               PROVE  registration'[s] # none /\ t \notin Reserved /\ s \in consumerSeen'[t] \cup providerSeen'[t]
    BY DEF Store!DriftHasEvidence
  <2> DEFINE D == (IF s = e.service /\ Store!HandlerDrift(e) THEN 1 ELSE 0)
                  + (IF s = CallerOf(e) /\ Store!SenderDrift(e, CallerOf(e)) THEN 1 ELSE 0)
  <2>1. e.topic \in Topic /\ drift[s] \in [Topic -> Nat] /\ drift[s][t] \in Nat /\ drift \in [Service -> [Topic -> Nat]]
    BY MeshAssumption DEF Store!TypeOK, Store!EventType
  <2>2. drift'[s] = [drift[s] EXCEPT ![e.topic] = @ + D]
    BY <1>2 DEF Store!AddEvent, CallerOf
  <2>3. /\ registration' = registration
        /\ consumerSeen' = [consumerSeen EXCEPT ![e.topic] = @ \cup ({e.service} \ {none})]
        /\ providerSeen' = [providerSeen EXCEPT ![e.topic] = @ \cup ({CallerOf(e)} \ {none})]
    BY <1>2 DEF Store!AddEvent, Store!storeVars, CallerOf
  <2>4. CASE drift[s][t] > 0
    BY <2>3, <2>4 DEF Store!DriftHasEvidence, Store!TypeOK
  <2>5. CASE ~(drift[s][t] > 0)
    <3>1. t = e.topic /\ D > 0
      BY <2>1, <2>2, <2>5
    <3>2. CASE s = e.service /\ Store!HandlerDrift(e)
      BY <2>3, <3>1, <3>2 DEF Store!HandlerDrift, Store!TypeOK
    <3>3. CASE s = CallerOf(e) /\ Store!SenderDrift(e, CallerOf(e))
      BY <2>3, <3>1, <3>3 DEF Store!SenderDrift, Store!TypeOK
    <3> QED
      BY <3>1, <3>2, <3>3
  <2> QED
    BY <2>4, <2>5
<1>3. CASE UNCHANGED Store!vars
  BY <1>3 DEF Store!vars, Store!storeVars, Store!traceVars, Store!DriftHasEvidence
<1> QED
  BY <1>1, <1>2, <1>3 DEF Store!Next

LEMMA SendersStep ==
  ASSUME Store!TypeOK, SlotsHold, Store!TypeOK', Store!IndexNamesOwner', Store!SendersAreTrue,
         NEW e \in Event, Store!AddEvent(e), NEW slot, TakesSlot(e, slot)
  PROVE  Store!SendersAreTrue'
<1>0. Len(log) \in Nat /\ Len(log') = Len(log) + 1 /\ log'[Len(log) + 1] = e /\ e \in Store!EventType
      /\ \A i \in 1..Len(log) : i \in 1..Len(log') /\ log'[i] = log[i]
  BY MeshAssumption DEF TakesSlot, Store!TypeOK
<1> SUFFICES ASSUME NEW t \in Topic, NEW s \in providerSeen'[t]
             PROVE  \E j, k \in 1..Len(log') :
                      /\ log'[k].topic = t /\ log'[k].parent # none /\ log'[k].service # s
                      /\ log'[j].span = log'[k].parent /\ log'[j].service = s
  BY DEF Store!SendersAreTrue
<1>1. CASE s \in providerSeen[t]
  <2>1. PICK j, k \in 1..Len(log) :
          /\ log[k].topic = t /\ log[k].parent # none /\ log[k].service # s
          /\ log[j].span = log[k].parent /\ log[j].service = s
    BY <1>1 DEF Store!SendersAreTrue
  <2> QED
    BY <1>0, <2>1
<1>2. CASE s \notin providerSeen[t]
  <2>1. t = e.topic /\ s = CallerOf(e) /\ s # none
    BY <1>2 DEF Store!AddEvent, CallerOf, Store!TypeOK
  <2>2. e.parent \in Span /\ e.parent # none /\ spanService'[e.parent] = s /\ s # e.service
    BY <1>0, <2>1 DEF CallerOf, Store!Caller, Store!EventType
  <2>3. PICK m \in 1..Len(ring') : ring'[m].span = e.parent /\ ring'[m].service = s
    BY <2>1, <2>2 DEF Store!IndexNamesOwner, Store!InRing
  <2>4. \E j \in 1..Len(log') : log'[j] = ring'[m]
    <3>1. CASE m = slot
      BY <1>0, <3>1 DEF TakesSlot
    <3>2. CASE m # slot
      BY <1>0, <3>2, SlotsAreApart DEF TakesSlot
    <3> QED
      BY <3>1, <3>2
  <2> QED
    BY <1>0, <2>1, <2>2, <2>3, <2>4
<1> QED
  BY <1>1, <1>2

-----------------------------------------------------------------------------
CollectorInv ==
  /\ Store!TypeOK /\ SlotsHold
  /\ Store!IndexNamesOwner /\ Store!MirrorsRing
  /\ Store!GraphIsDeclared /\ Store!SendersAreTrue /\ Store!DriftHasEvidence

LEMMA CollectorInductive == CollectorInv /\ [Store!Next]_Store!vars => CollectorInv'
<1> SUFFICES ASSUME CollectorInv, [Store!Next]_Store!vars PROVE CollectorInv'
  OBVIOUS
<1>0. /\ Store!TypeOK /\ SlotsHold /\ Store!IndexNamesOwner /\ Store!MirrorsRing
      /\ Store!GraphIsDeclared /\ Store!SendersAreTrue /\ Store!DriftHasEvidence
  BY DEF CollectorInv
<1>1. Store!TypeOK' /\ Store!GraphIsDeclared' /\ Store!DriftHasEvidence'
  BY <1>0, TypeStep, GraphStep, DriftStep
<1>2. SlotsHold' /\ Store!IndexNamesOwner' /\ Store!MirrorsRing' /\ Store!SendersAreTrue'
  <2>1. ASSUME NEW e \in Event, Store!AddEvent(e)
        PROVE  SlotsHold' /\ Store!IndexNamesOwner' /\ Store!MirrorsRing' /\ Store!SendersAreTrue'
    <3>1. PICK slot : TakesSlot(e, slot)
      BY <1>0, <2>1, RingStep, MeshAssumption DEF Store!TypeOK
    <3>2. SlotsHold' /\ Store!IndexNamesOwner' /\ Store!MirrorsRing'
      BY <1>0, <2>1, <3>1, SlotsHoldStep, IndexNamesOwnerStep, MirrorsRingStep
    <3> QED
      BY <1>0, <1>1, <2>1, <3>1, <3>2, SendersStep
  <2>2. CASE UNCHANGED Store!traceVars
    <3>1. UNCHANGED <<log, ring, next, spanService, providerSeen>>
      BY <2>2 DEF Store!traceVars
    <3>2. SlotsHold'
      BY <1>0, <3>1 DEF SlotsHold, Position
    <3>3. Store!IndexNamesOwner' /\ Store!MirrorsRing' /\ Store!SendersAreTrue'
      BY <1>0, <3>1 DEF Store!IndexNamesOwner, Store!InRing, Store!MirrorsRing, Store!SendersAreTrue
    <3> QED
      BY <3>2, <3>3
  <2>3. ASSUME NEW s \in Service, NEW doc \in Document, Store!Register(s, doc) PROVE UNCHANGED Store!traceVars
    BY <2>3 DEF Store!Register
  <2>4. CASE UNCHANGED Store!vars
    BY <2>2, <2>4 DEF Store!vars
  <2> QED
    BY <2>1, <2>2, <2>3, <2>4 DEF Store!Next
<1> QED
  BY <1>1, <1>2 DEF CollectorInv

LEMMA CollectorStarts == Store!Init => CollectorInv
<1> SUFFICES ASSUME Store!Init PROVE CollectorInv
  OBVIOUS
<1>1. Store!TypeOK
  BY MeshAssumption, EmptySeq DEF Store!Init, Store!TypeOK
<1>2. SlotsHold /\ Store!IndexNamesOwner /\ Store!MirrorsRing
  BY MeshAssumption, EmptySeq DEF Store!Init, SlotsHold, Store!IndexNamesOwner, Store!MirrorsRing
<1>3. Store!GraphIsDeclared /\ Store!SendersAreTrue /\ Store!DriftHasEvidence
  BY DEF Store!Init, Store!GraphIsDeclared, Store!SendersAreTrue, Store!DriftHasEvidence
<1> QED
  BY <1>1, <1>2, <1>3 DEF CollectorInv

\* Beside the rest of the mesh the collector makes its own steps, as it does alone.
LEMMA CollectorSteps == [MCNext]_all => [Store!Next]_Store!vars
  BY DEF MCNext, all, collectorVars, Store!vars, Store!storeVars, Store!traceVars

LEMMA CollectorIsSafe == Store!Spec \/ MCSpec => []CollectorInv
<1>1. MCInit => Store!Init
  BY DEF MCInit
<1> QED
  BY <1>1, CollectorStarts, CollectorSteps, CollectorInductive, PTL DEF MCSpec, Store!Spec

\* The window of the collector's store is the newest events in order, however often the
\* cursor has gone round it, and the index finds their owners and nobody from outside it
\* (store.addEvents and recordSpan, for every capacity and every stream of events).
THEOREM CollectorWindowIsIndexed == Store!Spec \/ MCSpec => []WindowIsIndexed
<1>1. CollectorInv => WindowIsIndexed
  BY NewestInOrder DEF CollectorInv, WindowIsIndexed
<1> QED
  BY <1>1, CollectorIsSafe, PTL

\* What the collector says of the fleet is true: the graph is what the latest registrations
\* claim, an observed sender sent, and drift is charged on evidence (store.register,
\* checkHandlerDrift and checkSenderDrift, for every fleet).
THEOREM CollectorGraphIsTrue == Store!Spec \/ MCSpec => []GraphIsTrue
<1>1. CollectorInv => GraphIsTrue
  BY DEF CollectorInv, GraphIsTrue
<1> QED
  BY <1>1, CollectorIsSafe, PTL

-----------------------------------------------------------------------------
(* The announcer. *)

AnnouncerInv ==
  /\ Announcers!RegisteredMeansKnown
  /\ registered \in [Instance -> BOOLEAN] /\ restarts \in Nat

LEMMA AnnouncerInductive == AnnouncerInv /\ [Announcers!Next]_Announcers!vars => AnnouncerInv'
<1> SUFFICES ASSUME AnnouncerInv, [Announcers!Next]_Announcers!vars PROVE AnnouncerInv'
  OBVIOUS
<1> USE MeshAssumption DEF AnnouncerInv, Announcers!RegisteredMeansKnown
<1>1. ASSUME NEW i \in Instance, NEW how, Announcers!Register(i, how) PROVE AnnouncerInv'
  BY <1>1 DEF Announcers!Register, Announcers!Handled
<1>2. CASE Announcers!CollectorStop
  BY <1>2 DEF Announcers!CollectorStop
<1>3. CASE UNCHANGED <<registered, contract, restarts>>
  BY <1>3
<1>4. ASSUME NEW i \in Instance, Announcers!Run(i) PROVE AnnouncerInv'
  BY <1>1, <1>3, <1>4
     DEF Announcers!Run, Announcers!FirstRegister, Announcers!LateRegister, Announcers!Heartbeat,
         Announcers!RetryTimer, Announcers!RetryCancelled, Announcers!AlreadyRegistered,
         Announcers!Tick, Announcers!Stop
<1>5. CASE UNCHANGED Announcers!vars
  BY <1>3, <1>5 DEF Announcers!vars
<1> QED
  BY <1>2, <1>3, <1>4, <1>5 DEF Announcers!Next, Announcers!Cancel, Announcers!CollectorStart

\* An instance that has stopped registering did so because the collector has the contract,
\* or had it and restarted, however many instances announce and however sends are lost
\* (Announcer.Register, for every number of instances, attempts and restarts).
THEOREM AnnouncerRegisteredMeansKnown == Announcers!Spec \/ MCSpec => []RegisteredMeansKnown
<1>1. Announcers!Init => AnnouncerInv
  BY MeshAssumption DEF Announcers!Init, AnnouncerInv, Announcers!RegisteredMeansKnown
<1>2. (MCInit => Announcers!Init) /\ ([MCNext]_all => [Announcers!Next]_Announcers!vars)
  BY DEF MCInit, MCNext, all, announcerVars, Announcers!vars
<1>3. AnnouncerInv => RegisteredMeansKnown
  BY DEF AnnouncerInv, RegisteredMeansKnown
<1> QED
  BY <1>1, <1>2, <1>3, AnnouncerInductive, PTL DEF MCSpec, Announcers!Spec
=============================================================================
