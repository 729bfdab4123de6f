---------------------------- MODULE StreamProofs -----------------------------
(***************************************************************************)
(* Proofs about the ordered-stream consumers, for any partitions, records, *)
(* batch sizes, settings and set-ups.  Each consumer has an invariant that *)
(* says what it holds in memory: the events handed out and not settled     *)
(* (Event Hubs), the message in hand (Kafka), the page in hand (Cosmos),   *)
(* the rest of the invocation's batch (Lambda); everything before that is  *)
(* settled, and every position that outlives the process lies before it.   *)
(***************************************************************************)
EXTENDS MCStreams, TLAPS

-----------------------------------------------------------------------------
(***************************************************************************)
(* Event Hubs.  The batch in hand and the pending remainder are each the   *)
(* last stretch of what the receiver handed out; everything before that    *)
(* stretch is settled, and the checkpoint lies before it.                  *)
(***************************************************************************)

\* A held sequence is the run of events that ends at the receiver's cursor.
Contiguous(q) == \A i \in 1..Len(q) : q[i] = cursor - Len(q) + i

\* The first event not dealt with comes right after this one.
Mark == cursor - Len(events) - Len(pending)

Shape ==
  /\ Contiguous(events)
  /\ Contiguous(pending)
  /\ events = <<>> \/ pending = <<>>
  /\ pc \in {"loop", "error", "returned"} => events = <<>>
  /\ pc \in {"dispatch", "checkpoint"} => pending = <<>>
  /\ pc = "checkpoint" => events # <<>> /\ Head(events) \in settled

Progress ==
  /\ Mark \in Nat
  /\ 1..Mark \subseteq settled
  /\ checkpoint <= Mark
  /\ settled \subseteq handled \union {e \in Event : Waived(Delivery, e \in Unmatched)}

EventHubInv == TypeOK /\ Shape /\ Progress

\* Taking the first event off a held sequence leaves a held sequence.
LEMMA TailHeld ==
  ASSUME TypeOK, NEW q \in Seq(Event), q # <<>>, Contiguous(q)
  PROVE  /\ Tail(q) \in Seq(Event)
         /\ Len(Tail(q)) = Len(q) - 1
         /\ Len(q) \in Nat \ {0}
         /\ Head(q) = cursor - Len(q) + 1
         /\ Contiguous(Tail(q))
<1>1. Len(q) \in Nat \ {0} /\ Head(q) = q[1] /\ Tail(q) \in Seq(Event) /\ Len(Tail(q)) = Len(q) - 1
  OBVIOUS
<1>2. \A i \in 1..Len(Tail(q)) : Tail(q)[i] = q[i + 1]
  OBVIOUS
<1>3. cursor \in Int
  BY DEF TypeOK
<1>4. Head(q) = cursor - Len(q) + 1
  BY <1>1 DEF Contiguous
<1>5. ASSUME NEW i \in 1..Len(Tail(q))
      PROVE  Tail(q)[i] = cursor - Len(Tail(q)) + i
  <2>1. i + 1 \in 1..Len(q) /\ Tail(q)[i] = q[i + 1]
    BY <1>1, <1>2
  <2>2. q[i + 1] = cursor - Len(q) + (i + 1)
    BY <2>1 DEF Contiguous
  <2> QED
    BY <1>1, <1>3, <2>1, <2>2
<1> QED
  BY <1>1, <1>4, <1>5 DEF Contiguous

LEMMA EmptyHeld == Len(<<>>) = 0 /\ <<>> \in Seq(Event) /\ Contiguous(<<>>)
BY DEF Contiguous

LEMMA Arithmetic ==
  ASSUME EventHubInv
  PROVE  /\ cursor \in Nat /\ checkpoint \in Nat /\ Mark \in Nat
         /\ Len(events) \in Nat /\ Len(pending) \in Nat
         /\ events = <<>> <=> Len(events) = 0
         /\ pending = <<>> <=> Len(pending) = 0
BY EventHubAssumption DEF EventHubInv, TypeOK, Progress

\* Steps that only move the program counter and the context.
LEMMA Quiet ==
  ASSUME EventHubInv, UNCHANGED <<cursor, events, pending, checkpoint, settled, handled>>,
         cancelled' \in BOOLEAN,
         pc' \in {"loop", "dispatch", "error", "returned"},
         pc' \in {"loop", "error", "returned"} => events = <<>>,
         pc' = "dispatch" => pending = <<>>
  PROVE  EventHubInv'
<1>1. TypeOK'
  BY DEF EventHubInv, TypeOK
<1>2. Shape'
  BY DEF EventHubInv, Shape, Contiguous
<1>3. Progress'
  BY DEF EventHubInv, Progress, Mark
<1> QED
  BY <1>1, <1>2, <1>3 DEF EventHubInv

LEMMA InitHolds == Init => EventHubInv
<1> SUFFICES ASSUME Init PROVE EventHubInv
  OBVIOUS
<1>1. TypeOK
  <2>1. 0 \in 0..NEvents
    BY EventHubAssumption
  <2> QED
    BY <2>1, EmptyHeld DEF Init, TypeOK
<1>2. Shape
  BY EmptyHeld DEF Init, Shape
<1>3. Progress
  BY EmptyHeld DEF Init, Progress, Mark
<1> QED
  BY <1>1, <1>2, <1>3 DEF EventHubInv

\* Dispatch, under whatever hook is configured.
Dispatched(e, ending, hook) ==
  /\ pc = "dispatch" /\ events # <<>> /\ e = Head(events)
  /\ ending \in EndingsOf(e \in Unmatched)
  /\ handled' = IF ending = "success" THEN handled \union {e} ELSE handled
  /\ IF Acknowledge(Delivery, ending)
     THEN /\ settled' = settled \union {e} /\ pending' = pending
          /\ IF hook THEN pc' = "checkpoint" /\ events' = events
             ELSE pc' = pc /\ events' = Tail(events)
     ELSE /\ pending' = events /\ events' = <<>> /\ pc' = "error" /\ settled' = settled
  /\ UNCHANGED <<cancelled, cursor, checkpoint>>

LEMMA DispatchPreserves ==
  ASSUME EventHubInv, NEW e \in Event, NEW ending \in Endings, NEW hook \in BOOLEAN,
         Dispatched(e, ending, hook)
  PROVE  EventHubInv' /\ e = Mark + 1 /\ 1..(e - 1) \subseteq settled
<1> USE EventHubAssumption
<1>0. TypeOK /\ Shape /\ Progress
  BY DEF EventHubInv
<1>1. /\ events \in Seq(Event) /\ Contiguous(events) /\ events # <<>> /\ pending = <<>>
      /\ UNCHANGED <<cursor, checkpoint, cancelled>>
  BY <1>0 DEF TypeOK, Shape, Dispatched
<1>2. /\ Tail(events) \in Seq(Event) /\ Len(Tail(events)) = Len(events) - 1
      /\ Len(events) \in Nat \ {0} /\ Head(events) = cursor - Len(events) + 1
      /\ Contiguous(Tail(events))
  BY <1>0, <1>1, TailHeld
<1>3. cursor \in Nat /\ checkpoint \in Nat /\ Mark \in Nat /\ Len(pending) = 0
  BY <1>1, Arithmetic
<1>4. e = Mark + 1 /\ 1..(e - 1) \subseteq settled
  <2>1. e = Mark + 1
    BY <1>2, <1>3 DEF Dispatched, Mark
  <2> QED
    BY <2>1, <1>3, <1>0 DEF Progress
<1>5. handled' \subseteq Event /\ handled \subseteq handled' /\ (ending = "success" => e \in handled')
  BY <1>0 DEF Dispatched, TypeOK
<1>6. CASE ~Acknowledge(Delivery, ending)
  <2>1. pending' = events /\ events' = <<>> /\ pc' = "error" /\ settled' = settled
    BY <1>6 DEF Dispatched
  <2>2. TypeOK'
    BY <2>1, <1>0, <1>1, <1>5, EmptyHeld DEF TypeOK
  <2>3. Shape'
    BY <2>1, <1>1, EmptyHeld DEF Shape, Contiguous
  <2>4. Mark' = Mark
    BY <2>1, <1>1, <1>2, <1>3, EmptyHeld DEF Mark
  <2>5. Progress'
    BY <2>1, <2>4, <1>0, <1>1, <1>5 DEF Progress
  <2> QED
    BY <2>2, <2>3, <2>5, <1>4 DEF EventHubInv
<1>7. CASE Acknowledge(Delivery, ending)
  <2>1. settled' = settled \union {e} /\ pending' = pending
    BY <1>7 DEF Dispatched
  <2>2. e \in handled' \/ Waived(Delivery, e \in Unmatched)
    BY <1>7, <1>5 DEF Acknowledge, Waived, Dispatched, EndingsOf
  <2>3. settled' \subseteq handled' \union {f \in Event : Waived(Delivery, f \in Unmatched)}
    BY <2>1, <2>2, <1>0, <1>5 DEF Progress
  <2>4. settled' \subseteq Event
    BY <2>1, <1>0 DEF TypeOK
  <2>5. CASE hook
    <3>1. pc' = "checkpoint" /\ events' = events
      BY <1>7, <2>5 DEF Dispatched
    <3>2. TypeOK'
      BY <2>1, <2>4, <3>1, <1>0, <1>1, <1>5 DEF TypeOK
    <3>3. Shape'
      BY <2>1, <3>1, <1>0, <1>1 DEF Shape, Contiguous, Dispatched
    <3>4. Progress'
      BY <2>1, <2>3, <3>1, <1>0, <1>1 DEF Progress, Mark
    <3> QED
      BY <3>2, <3>3, <3>4, <1>4 DEF EventHubInv
  <2>6. CASE ~hook
    <3>1. pc' = "dispatch" /\ events' = Tail(events)
      BY <1>7, <2>6 DEF Dispatched
    <3>2. TypeOK'
      BY <2>1, <2>4, <3>1, <1>0, <1>1, <1>2, <1>5 DEF TypeOK
    <3>3. Shape'
      BY <2>1, <3>1, <1>0, <1>1, <1>2 DEF Shape, Contiguous
    <3>4. Mark' = Mark + 1
      BY <2>1, <3>1, <1>1, <1>2, <1>3 DEF Mark
    <3>5. Progress'
      BY <2>1, <2>3, <3>4, <1>0, <1>1, <1>3, <1>4 DEF Progress
    <3> QED
      BY <3>2, <3>3, <3>5, <1>4 DEF EventHubInv
  <2> QED
    BY <2>5, <2>6
<1> QED
  BY <1>6, <1>7
\* The event whose checkpoint is taken is the first one in hand.
LEMMA CheckpointPreserves ==
  ASSUME EventHubInv, pc = "checkpoint", UNCHANGED <<cancelled, cursor, settled, handled>>,
         \/ checkpoint' \in {checkpoint, Head(events)} /\ pending' = Tail(events)
              /\ events' = <<>> /\ pc' = "error"
         \/ checkpoint' = Head(events) /\ events' = Tail(events) /\ pending' = pending
              /\ pc' = "dispatch"
  PROVE  EventHubInv' /\ 1..Head(events) \subseteq settled /\ checkpoint' >= checkpoint
<1> USE EventHubAssumption
<1>0. TypeOK /\ Shape /\ Progress
  BY DEF EventHubInv
<1>1. /\ events \in Seq(Event) /\ Contiguous(events) /\ events # <<>> /\ pending = <<>>
      /\ Head(events) \in settled
  BY <1>0 DEF TypeOK, Shape
<1>2. /\ Tail(events) \in Seq(Event) /\ Len(Tail(events)) = Len(events) - 1
      /\ Len(events) \in Nat \ {0} /\ Head(events) = cursor - Len(events) + 1
      /\ Contiguous(Tail(events))
  BY <1>0, <1>1, TailHeld
<1>3. cursor \in Nat /\ checkpoint \in Nat /\ Mark \in Nat /\ Len(pending) = 0
  BY <1>1, Arithmetic
<1>4. Head(events) = Mark + 1 /\ Head(events) \in Event
  BY <1>0, <1>1, <1>2, <1>3 DEF Mark, TypeOK
<1>5. 1..Head(events) \subseteq settled
  BY <1>0, <1>1, <1>3, <1>4 DEF Progress
<1>6. checkpoint' \in 0..NEvents /\ checkpoint' >= checkpoint /\ checkpoint' <= Mark + 1
  BY <1>0, <1>3, <1>4 DEF Progress, TypeOK, Event
<1>7. TypeOK'
  BY <1>0, <1>2, <1>6, EmptyHeld DEF TypeOK
<1>8. Shape'
  BY <1>1, <1>2, EmptyHeld DEF Shape, Contiguous
<1>9. Mark' = Mark + 1
  BY <1>2, <1>3, EmptyHeld DEF Mark
<1>10. Progress'
  BY <1>0, <1>3, <1>4, <1>5, <1>6, <1>9 DEF Progress
<1> QED
  BY <1>5, <1>6, <1>7, <1>8, <1>10 DEF EventHubInv

LEMMA ReceivePreserves ==
  ASSUME EventHubInv, Receive
  PROVE  EventHubInv'
<1> USE EventHubAssumption
<1>0. TypeOK /\ Shape /\ Progress
  BY DEF EventHubInv
<1>1. PICK n \in 0..MaxBatchSize :
        /\ cursor + n <= NEvents
        /\ events' = [i \in 1..n |-> cursor + i]
        /\ cursor' = cursor + n
  BY DEF Receive
<1>2. /\ pending = <<>> /\ events = <<>> /\ pc' = "dispatch"
      /\ UNCHANGED <<cancelled, pending, checkpoint, settled, handled>>
  BY <1>0 DEF Receive, Shape
<1>3. n \in Nat /\ cursor \in Nat /\ cursor' \in 0..NEvents
  BY <1>0, <1>1 DEF TypeOK
<1>4. events' \in Seq(Event) /\ Len(events') = n /\ \A i \in 1..n : events'[i] = cursor + i
  <2>1. \A i \in 1..n : cursor + i \in Event
    BY <1>1, <1>3 DEF Event
  <2> QED
    BY <2>1, <1>1, <1>3
<1>5. TypeOK'
  BY <1>0, <1>2, <1>3, <1>4 DEF TypeOK
<1>6. Shape'
  BY <1>1, <1>2, <1>3, <1>4, EmptyHeld DEF Shape, Contiguous
<1>7. Mark' = Mark
  BY <1>1, <1>2, <1>3, <1>4, EmptyHeld DEF Mark
<1>8. Progress'
  BY <1>0, <1>2, <1>7 DEF Progress
<1> QED
  BY <1>5, <1>6, <1>8 DEF EventHubInv

LEMMA ResumePreserves ==
  ASSUME EventHubInv, Resume
  PROVE  EventHubInv'
<1>0. TypeOK /\ Shape /\ Progress
  BY DEF EventHubInv
<1>1. /\ events = <<>> /\ events' = pending /\ pending' = <<>> /\ pc' = "dispatch"
      /\ UNCHANGED <<cancelled, cursor, checkpoint, settled, handled>>
  BY <1>0 DEF Resume, Shape
<1>2. TypeOK'
  BY <1>0, <1>1, EmptyHeld DEF TypeOK
<1>3. Shape'
  BY <1>0, <1>1, EmptyHeld DEF Shape, Contiguous
<1>4. Mark' = Mark
  BY <1>1, Arithmetic, EmptyHeld DEF Mark
<1>5. Progress'
  BY <1>0, <1>1, <1>4 DEF Progress
<1> QED
  BY <1>2, <1>3, <1>5 DEF EventHubInv

LEMMA RestartPreserves ==
  ASSUME EventHubInv, Restart
  PROVE  EventHubInv'
<1>0. TypeOK /\ Shape /\ Progress
  BY DEF EventHubInv
<1>1. TypeOK'
  BY <1>0, EmptyHeld DEF TypeOK, Restart
<1>2. Shape'
  BY EmptyHeld DEF Shape, Contiguous, Restart
<1>3. Mark' = checkpoint /\ checkpoint \in Nat /\ Mark \in Nat
  BY Arithmetic, EmptyHeld DEF Mark, Restart
<1>4. Progress'
  BY <1>0, <1>3 DEF Progress, Restart
<1> QED
  BY <1>1, <1>2, <1>4 DEF EventHubInv

\* What any step does to the history and to the durable position.
LEMMA StepPreserves ==
  ASSUME EventHubInv, [Next]_vars \/ EventHubNoHook!Next
  PROVE  /\ EventHubInv'
         /\ \/ UNCHANGED <<settled, checkpoint>>
            \/ \E e \in Event : Stream!Settle(e, e)
            \/ \E p \in 0..NEvents : Stream!Advance(p)
         /\ checkpoint' >= checkpoint
<1> USE EventHubAssumption
<1>0. checkpoint \in Nat /\ Shape
  BY Arithmetic DEF EventHubInv
<1>1. ASSUME NEW e \in Event, NEW ending \in Endings, NEW hook \in BOOLEAN,
             Dispatched(e, ending, hook)
      PROVE  EventHubInv' /\ (settled' = settled \/ Stream!Settle(e, e)) /\ checkpoint' = checkpoint
  <2>1. EventHubInv' /\ 1..(e - 1) \subseteq settled
    BY <1>1, DispatchPreserves
  <2>2. e..e = {e}
    BY DEF Event
  <2> QED
    BY <1>1, <2>1, <2>2 DEF Dispatched, Stream!Settle
<1>2. ASSUME NEW e \in Event, Checkpoint(e)
      PROVE  EventHubInv' /\ Stream!Advance(e) /\ checkpoint' >= checkpoint
  <2>1. EventHubInv' /\ 1..Head(events) \subseteq settled /\ checkpoint' >= checkpoint
    BY <1>2, CheckpointPreserves DEF Checkpoint
  <2> QED
    BY <1>2, <2>1 DEF Checkpoint, Stream!Advance
<1>3. ASSUME CheckpointError
      PROVE  /\ EventHubInv' /\ checkpoint' >= checkpoint /\ settled' = settled
             /\ checkpoint' = checkpoint \/ Stream!Advance(checkpoint')
             /\ checkpoint' \in 0..NEvents
  <2>1. EventHubInv' /\ 1..Head(events) \subseteq settled /\ checkpoint' >= checkpoint
    BY <1>3, CheckpointPreserves DEF CheckpointError
  <2>2. checkpoint' \in 0..NEvents
    BY <2>1 DEF EventHubInv, TypeOK
  <2> QED
    BY <1>3, <2>1, <2>2 DEF CheckpointError, Stream!Advance
<1>4. ASSUME Receive PROVE EventHubInv' /\ UNCHANGED <<settled, checkpoint>>
  BY <1>4, ReceivePreserves DEF Receive
<1>5. ASSUME Resume PROVE EventHubInv' /\ UNCHANGED <<settled, checkpoint>>
  BY <1>5, ResumePreserves DEF Resume
<1>6. ASSUME Restart PROVE EventHubInv' /\ UNCHANGED <<settled, checkpoint>>
  BY <1>6, RestartPreserves DEF Restart
<1>7. ASSUME Return \/ ReceiveError \/ EndCycle \/ Backoff \/ Rerun
      PROVE  EventHubInv' /\ UNCHANGED <<settled, checkpoint>>
  <2>1. /\ UNCHANGED <<cursor, events, pending, checkpoint, settled, handled>>
        /\ cancelled' \in BOOLEAN
    BY <1>7 DEF Return, ReceiveError, EndCycle, Backoff, Rerun, EventHubInv, TypeOK
  <2>2. pc' \in {"loop", "error", "returned"} /\ events = <<>>
    BY <1>0, <1>7 DEF Return, ReceiveError, EndCycle, Backoff, Rerun, Shape
  <2> QED
    BY <2>1, <2>2, Quiet
<1>8. ASSUME Cancel \/ UNCHANGED vars PROVE EventHubInv' /\ UNCHANGED <<settled, checkpoint>>
  BY <1>8 DEF Cancel, vars, EventHubInv, TypeOK, Shape, Progress, Mark, Contiguous
<1>9. CASE \E e \in Event : Checkpoint(e) \/ \E ending \in Endings, hook \in BOOLEAN : Dispatched(e, ending, hook)
  <2>1. PICK e \in Event : Checkpoint(e) \/ \E ending \in Endings, hook \in BOOLEAN : Dispatched(e, ending, hook)
    BY <1>9
  <2>2. e \in 0..NEvents
    BY DEF Event
  <2>3. CASE Checkpoint(e)
    BY <2>2, <2>3, <1>2
  <2>4. CASE \E ending \in Endings, hook \in BOOLEAN : Dispatched(e, ending, hook)
    BY <2>4, <1>0, <1>1
  <2> QED
    BY <2>1, <2>3, <2>4
<1>10. CASE CheckpointError
  BY <1>3, <1>10
<1>11. ASSUME NEW e \in Event, NEW ending \in Endings,
              Dispatch(e, ending) \/ EventHubNoHook!Dispatch(e, ending)
       PROVE  \E hook \in BOOLEAN : Dispatched(e, ending, hook)
  BY <1>11 DEF Dispatch, Dispatched, EventHubNoHook!Dispatch, EndingsOf, Acknowledge,
               EventHubNoHook!EndingsOf, EventHubNoHook!Acknowledge
<1>12. CASE [Next]_vars
  BY <1>0, <1>4, <1>5, <1>6, <1>7, <1>8, <1>9, <1>10, <1>11, <1>12 DEF Next, RunStep
<1>13. CASE EventHubNoHook!Next
  <2>1. \/ Return \/ Resume \/ Receive \/ ReceiveError \/ EndCycle \/ Backoff
        \/ CheckpointError \/ Cancel \/ Rerun \/ Restart
        \/ \E e \in Event : Checkpoint(e) \/ \E ending \in Endings : EventHubNoHook!Dispatch(e, ending)
    BY <1>13 DEF EventHubNoHook!Next, EventHubNoHook!RunStep, EventHubNoHook!Return,
         EventHubNoHook!Resume, EventHubNoHook!Receive, EventHubNoHook!ReceiveError,
         EventHubNoHook!EndCycle, EventHubNoHook!Backoff, EventHubNoHook!CheckpointError,
         EventHubNoHook!Cancel, EventHubNoHook!Rerun, EventHubNoHook!Restart,
         EventHubNoHook!Checkpoint, EventHubNoHook!Event, EventHubNoHook!Endings,
         Return, Resume, Receive, ReceiveError, EndCycle, Backoff, CheckpointError, Cancel, Rerun,
         Restart, Checkpoint, Event, Endings
  <2> QED
    BY <1>0, <1>4, <1>5, <1>6, <1>7, <1>8, <1>9, <1>10, <1>11, <2>1
<1> QED
  BY <1>12, <1>13

\* Among the others it makes its own steps.
LEMMA EventHubSteps ==
  /\ MCInit => Init
  /\ [MCNext]_all => ([Next]_vars \/ EventHubNoHook!Next)
BY DEF MCInit, MCNext, EventHubStep, all, vars, kafkaVars, cosmosVars, lambdaVars

LEMMA EventHubStaysSafe == Spec \/ MCSpec => []EventHubInv
<1>1. EventHubInv /\ ([Next]_vars \/ EventHubNoHook!Next) => EventHubInv'
  BY StepPreserves
<1> QED
  BY InitHolds, <1>1, EventHubSteps, PTL DEF Spec, MCSpec

\* The durable checkpoint never passes an event that was not handled, whatever
\* the handler, the hook, shutdown and restarts do: azureeventhub's promise for
\* every partition, batch size and Settlement.
THEOREM EventHubCheckpointCovers == Spec \/ MCSpec => []CheckpointCovers
<1>1. EventHubInv => CheckpointCovers
  BY Arithmetic DEF EventHubInv, Progress, CheckpointCovers
<1> QED
  BY EventHubStaysSafe, <1>1, PTL

\* No event the receiver handed out is lost by a running consumer.
THEOREM EventHubNothingSkipped == Spec \/ MCSpec => []NothingSkipped
<1>1. ASSUME EventHubInv PROVE NothingSkipped
  <2>0. TypeOK /\ Shape /\ Progress
    BY <1>1 DEF EventHubInv
  <2>1. ASSUME NEW e \in 1..cursor, e \notin settled
        PROVE  e \in Held
    <3>1. e \in Nat /\ e > Mark /\ e <= cursor
      BY <1>1, <2>0, <2>1, Arithmetic DEF Progress
    <3>2. CASE pending = <<>>
      <4>1. e - (cursor - Len(events)) \in 1..Len(events)
        BY <1>1, <3>1, <3>2, Arithmetic DEF Mark
      <4>2. events[e - (cursor - Len(events))] = e
        BY <1>1, <2>0, <3>1, <4>1, Arithmetic DEF Shape, Contiguous
      <4>3. DOMAIN events = 1..Len(events)
        BY <2>0 DEF TypeOK
      <4> QED
        BY <4>1, <4>2, <4>3 DEF Held
    <3>3. CASE events = <<>>
      <4>1. e - (cursor - Len(pending)) \in 1..Len(pending)
        BY <1>1, <3>1, <3>3, Arithmetic DEF Mark
      <4>2. pending[e - (cursor - Len(pending))] = e
        BY <1>1, <2>0, <3>1, <4>1, Arithmetic DEF Shape, Contiguous
      <4>3. DOMAIN pending = 1..Len(pending)
        BY <2>0 DEF TypeOK
      <4> QED
        BY <4>1, <4>2, <4>3 DEF Held
    <3> QED
      BY <2>0, <3>2, <3>3 DEF Shape
  <2> QED
    BY <2>1 DEF NothingSkipped
<1> QED
  BY EventHubStaysSafe, <1>1, PTL

\* A stored checkpoint is never moved back.
THEOREM EventHubCheckpointMonotone == Spec \/ MCSpec => CheckpointMonotone
<1>1. EventHubInv /\ ([Next]_vars \/ EventHubNoHook!Next) => [checkpoint' >= checkpoint]_vars
  BY StepPreserves
<1> QED
  BY EventHubStaysSafe, <1>1, EventHubSteps, PTL DEF Spec, MCSpec, CheckpointMonotone

\* The consumer implements the ordered stream.
THEOREM EventHubImplementsStream == Spec \/ MCSpec => ImplementsOrderedStream
<1>1. Init => Stream!Init
  BY DEF Init, Stream!Init
<1>2. ASSUME EventHubInv, [Next]_vars \/ EventHubNoHook!Next PROVE [Stream!Next]_(Stream!vars)
  BY <1>2, StepPreserves DEF Stream!Next, Stream!vars, Event
<1> QED
  BY EventHubStaysSafe, <1>1, <1>2, EventHubSteps, PTL DEF Spec, MCSpec, ImplementsOrderedStream, Stream!Spec

-----------------------------------------------------------------------------
(***************************************************************************)
(* Kafka.  Everything fetched is settled except the message in hand; what  *)
(* is committed is settled and was fetched.                                *)
(***************************************************************************)

\* The message in hand is the last one fetched from its partition.
InHand(s) ==
  /\ kafkaPc \in {"dispatch", "backoff", "commit"} =>
       \E p \in Partition : kafkaCursor[p] > 0 /\ msg = <<p, kafkaCursor[p]>>
  /\ kafkaPc = "fetch" => msg = Kafka(s)!NoMessage
  /\ kafkaPc = "commit" => msg \in kafkaSettled
  /\ Kafka(s)!delivery = "AtMostOnce" =>
       kafkaPc # "backoff" /\ (kafkaPc = "returned" => msg = Kafka(s)!NoMessage)

Fetched(p) ==
  /\ \A o \in 1..kafkaCursor[p] : <<p, o>> \in kafkaSettled \/ msg = <<p, o>>
  /\ \A o \in 1..committed[p] : <<p, o>> \in kafkaSettled
  /\ committed[p] <= kafkaCursor[p]

KafkaEarned(s) ==
  \A m \in kafkaSettled : m \in kafkaHandled \/ Kafka(s)!Waived(Kafka(s)!delivery, m \in Unserved)

KafkaInv(s) ==
  /\ Kafka(s)!TypeOK /\ InHand(s) /\ KafkaEarned(s)
  /\ \A p \in Partition : Fetched(p)

LEMMA KafkaStarts ==
  ASSUME NEW s \in Setups, Kafka(s)!Init
  PROVE  KafkaInv(s) /\ Kafka(s)!StreamsStart
<1> USE StreamAssumption DEF Kafka!Init
<1>1. Kafka(s)!TypeOK
  <2>1. kafkaCursor \in [Partition -> 0..NMessages] /\ committed \in [Partition -> 0..NMessages]
    OBVIOUS
  <2> QED
    BY <2>1 DEF Kafka!TypeOK
<1>2. InHand(s) /\ KafkaEarned(s) /\ \A p \in Partition : Fetched(p)
  BY DEF InHand, KafkaEarned, Fetched, Kafka!NoMessage
<1>3. Kafka(s)!StreamsStart
  BY DEF Kafka!StreamsStart, Kafka!Stream!Init
<1> QED
  BY <1>1, <1>2, <1>3 DEF KafkaInv

\* A message is one of its partition's.
LEMMA KafkaMessages ==
  ASSUME NEW s, NEW m \in Kafka(s)!Message
  PROVE  /\ m[1] \in Partition /\ m[2] \in 1..NMessages /\ m = <<m[1], m[2]>>
         /\ m # Kafka(s)!NoMessage
BY DEF Kafka!Message, Kafka!Offset, Kafka!NoMessage

\* What a step does to the history and to the committed offsets.
KafkaMoves(s) ==
  \/ UNCHANGED <<kafkaSettled, committed>>
  \/ /\ kafkaPc = "dispatch" /\ msg \in Kafka(s)!Message
     /\ kafkaSettled' = kafkaSettled \union {msg} /\ committed' = committed
  \/ /\ kafkaPc = "commit" /\ msg \in Kafka(s)!Message
     /\ committed' = [committed EXCEPT ![msg[1]] = msg[2]] /\ kafkaSettled' = kafkaSettled

LEMMA KafkaInHand ==
  ASSUME NEW s, KafkaInv(s), msg \in Kafka(s)!Message,
         kafkaPc \in {"dispatch", "backoff", "commit"}
  PROVE  /\ msg[2] = kafkaCursor[msg[1]]
         /\ \A o \in 1..(msg[2] - 1) : <<msg[1], o>> \in kafkaSettled
<1>1. PICK p \in Partition : msg = <<p, kafkaCursor[p]>>
  BY DEF KafkaInv, InHand
<1>2. msg[1] = p /\ msg[2] = kafkaCursor[p] /\ kafkaCursor[p] \in Nat
  BY <1>1, StreamAssumption DEF KafkaInv, Kafka!TypeOK
<1>3. ASSUME NEW o \in 1..(msg[2] - 1) PROVE <<msg[1], o>> \in kafkaSettled
  <2>1. o \in 1..kafkaCursor[p] /\ o # kafkaCursor[p]
    BY <1>2
  <2>2. msg # <<p, o>>
    BY <1>2, <2>1
  <2> QED
    BY <1>2, <2>1, <2>2 DEF KafkaInv, Fetched
<1> QED
  BY <1>2, <1>3

LEMMA KafkaMoveIsOrdered ==
  ASSUME NEW s, KafkaInv(s), KafkaMoves(s)
  PROVE  Kafka(s)!StreamsStep /\ Kafka(s)!CommitForward
<1> SUFFICES ASSUME NEW p \in Partition
             PROVE  [Kafka(s)!Stream(p)!Next]_(Kafka(s)!Stream(p)!vars) /\ committed'[p] >= committed[p]
  BY DEF Kafka!StreamsStep, Kafka!CommitForward
<1> DEFINE mine == {o \in Kafka(s)!Offset : <<p, o>> \in kafkaSettled}
<1>0. committed \in [Partition -> 0..NMessages] /\ committed[p] \in Nat /\ NMessages \in Nat
  BY StreamAssumption DEF KafkaInv, Kafka!TypeOK
<1>1. CASE UNCHANGED <<kafkaSettled, committed>>
  BY <1>0, <1>1 DEF Kafka!Stream!vars
<1>2. CASE /\ kafkaPc = "dispatch" /\ msg \in Kafka(s)!Message
           /\ kafkaSettled' = kafkaSettled \union {msg} /\ committed' = committed
  <2>1. CASE msg[1] # p
    <3>1. mine' = mine
      BY <1>2, <2>1
    <3> QED
      BY <1>0, <1>2, <3>1 DEF Kafka!Stream!vars
  <2>2. CASE msg[1] = p
    <3>1. PICK o \in 1..NMessages : msg = <<p, o>> /\ msg[2] = o
      BY <1>2, <2>2, KafkaMessages
    <3>2. mine' = mine \union (o..o)
      BY <1>2, <3>1 DEF Kafka!Offset
    <3>3. 1..(o - 1) \subseteq mine
      BY <1>0, <1>2, <2>2, <3>1, KafkaInHand DEF Kafka!Offset
    <3>4. Kafka(s)!Stream(p)!Settle(o, o)
      BY <1>2, <3>2, <3>3 DEF Kafka!Stream!Settle
    <3>5. Kafka(s)!Stream(p)!Next
      BY <3>4 DEF Kafka!Stream!Next
    <3>6. committed'[p] >= committed[p]
      BY <1>0, <1>2
    <3> QED
      BY <3>5, <3>6
  <2> QED
    BY <2>1, <2>2
<1>3. CASE /\ kafkaPc = "commit" /\ msg \in Kafka(s)!Message
           /\ committed' = [committed EXCEPT ![msg[1]] = msg[2]] /\ kafkaSettled' = kafkaSettled
  <2>1. CASE msg[1] # p
    <3>1. committed'[p] = committed[p]
      BY <1>0, <1>3, <2>1
    <3> QED
      BY <1>0, <1>3, <3>1 DEF Kafka!Stream!vars
  <2>2. CASE msg[1] = p
    <3>1. PICK o \in 1..NMessages : msg = <<p, o>> /\ msg[2] = o
      BY <1>3, <2>2, KafkaMessages
    <3>2. msg \in kafkaSettled /\ committed'[p] = o
      BY <1>0, <1>3, <3>1 DEF KafkaInv, InHand
    <3>3. 1..o \subseteq mine
      BY <1>0, <1>3, <2>2, <3>1, <3>2, KafkaInHand DEF Kafka!Offset
    <3>4. o >= committed[p]
      <4>1. o = kafkaCursor[p]
        BY <1>3, <2>2, <3>1, KafkaInHand
      <4> QED
        BY <4>1 DEF KafkaInv, Fetched
    <3>5. Kafka(s)!Stream(p)!Advance(o)
      BY <1>3, <3>2, <3>3 DEF Kafka!Stream!Advance
    <3>6. Kafka(s)!Stream(p)!Next
      BY <1>0, <3>5 DEF Kafka!Stream!Next
    <3> QED
      BY <3>2, <3>4, <3>6
  <2> QED
    BY <2>1, <2>2
<1> QED
  BY <1>1, <1>2, <1>3 DEF KafkaMoves

\* The steps keep the invariant and move the history and the offsets in order.
LEMMA KafkaInductive ==
  ASSUME NEW s \in Of("kafka"), KafkaInv(s), Kafka(s)!Next
  PROVE  KafkaInv(s)' /\ KafkaMoves(s)
<1> USE DEF KafkaInv, Kafka!TypeOK
<1>0. NMessages \in Nat /\ kafkaCursor \in [Partition -> 0..NMessages]
      /\ committed \in [Partition -> 0..NMessages]
      /\ (s.same => Kafka(s)!delivery = "AtMostOnce")
  BY StreamAssumption DEF Kafka!delivery
<1>1. ASSUME NEW p \in Partition, Kafka(s)!FetchMessage(p)
      PROVE  KafkaInv(s)' /\ KafkaMoves(s)
  <2>1. /\ kafkaPc = "fetch" /\ kafkaPc' = "dispatch" /\ msg = Kafka(s)!NoMessage
        /\ kafkaCursor' = [kafkaCursor EXCEPT ![p] = @ + 1] /\ msg' = <<p, kafkaCursor[p] + 1>>
        /\ kafkaCursor[p] \in 0..(NMessages - 1)
        /\ UNCHANGED <<kafkaCancelled, committed, kafkaSettled, kafkaHandled>>
    BY <1>0, <1>1 DEF Kafka!FetchMessage, InHand
  <2>2. kafkaCursor' \in [Partition -> 0..NMessages] /\ kafkaCursor'[p] = kafkaCursor[p] + 1
        /\ \A q \in Partition : q # p => kafkaCursor'[q] = kafkaCursor[q]
    BY <1>0, <2>1
  <2>3. msg' \in Kafka(s)!Message
    BY <1>0, <2>1 DEF Kafka!Message, Kafka!Offset
  <2>4. ASSUME NEW q \in Partition PROVE Fetched(q)'
    <3>1. Fetched(q) /\ \A o : msg # <<q, o>>
      BY <2>1 DEF Kafka!NoMessage
    <3>2. \A o \in 1..kafkaCursor'[q] : o \in 1..kafkaCursor[q] \/ (q = p /\ o = kafkaCursor[p] + 1)
      BY <1>0, <2>1, <2>2
    <3> QED
      BY <1>0, <2>1, <2>2, <3>1, <3>2 DEF Fetched
  <2> QED
    BY <2>1, <2>2, <2>3, <2>4 DEF InHand, KafkaEarned, KafkaMoves
<1>2. CASE Kafka(s)!FetchError \/ Kafka(s)!Backoff \/ Kafka(s)!Cancel
  <2>1. /\ UNCHANGED <<kafkaCursor, msg, committed, kafkaSettled, kafkaHandled>>
        /\ kafkaCancelled' \in BOOLEAN
        /\ \/ kafkaPc = "fetch" /\ kafkaPc' = "returned"
           \/ kafkaPc = "backoff" /\ kafkaPc' \in {"returned", "dispatch"}
           \/ kafkaPc' = kafkaPc
    BY <1>2 DEF Kafka!FetchError, Kafka!Backoff, Kafka!Cancel
  <2> QED
    BY <2>1 DEF InHand, KafkaEarned, KafkaMoves, Fetched
<1>3. ASSUME NEW m \in Kafka(s)!Message, NEW ending \in Kafka(s)!Endings, Kafka(s)!Dispatch(m, ending)
      PROVE  KafkaInv(s)' /\ KafkaMoves(s)
  <2>1. /\ kafkaPc = "dispatch" /\ m = msg
        /\ UNCHANGED <<kafkaCancelled, kafkaCursor, msg, committed>>
        /\ kafkaHandled' \in {kafkaHandled, kafkaHandled \union {m}}
        /\ ending = "success" => m \in kafkaHandled'
    BY <1>3 DEF Kafka!Dispatch
  <2>2. CASE Kafka(s)!Acknowledge(Kafka(s)!delivery, ending)
    <3>1. kafkaPc' = "commit" /\ kafkaSettled' = kafkaSettled \union {m}
      BY <1>3, <2>2 DEF Kafka!Dispatch
    <3>2. m \in kafkaHandled' \/ Kafka(s)!Waived(Kafka(s)!delivery, m \in Unserved)
      BY <1>3, <2>1, <2>2 DEF Kafka!Dispatch, Kafka!Acknowledge, Kafka!Waived, Kafka!EndingsOf
    <3> QED
      BY <2>1, <3>1, <3>2 DEF InHand, KafkaEarned, KafkaMoves, Fetched
  <2>3. CASE ~Kafka(s)!Acknowledge(Kafka(s)!delivery, ending)
    <3>1. kafkaPc' = "backoff" /\ kafkaSettled' = kafkaSettled /\ Kafka(s)!delivery # "AtMostOnce"
      BY <1>3, <2>3 DEF Kafka!Dispatch, Kafka!Acknowledge
    <3> QED
      BY <2>1, <3>1 DEF InHand, KafkaEarned, KafkaMoves, Fetched
  <2> QED
    BY <2>2, <2>3
<1>4. ASSUME NEW m \in Kafka(s)!Message, Kafka(s)!CommitMessages(m) \/ Kafka(s)!CommitError(m)
      PROVE  KafkaInv(s)' /\ KafkaMoves(s)
  <2>1. /\ kafkaPc = "commit" /\ m = msg /\ msg' = Kafka(s)!NoMessage
        /\ kafkaPc' \in {"fetch", "returned"}
        /\ committed' \in {committed, [committed EXCEPT ![m[1]] = m[2]]}
        /\ UNCHANGED <<kafkaCancelled, kafkaCursor, kafkaSettled, kafkaHandled>>
    BY <1>4 DEF Kafka!CommitMessages, Kafka!CommitError
  <2>2. /\ m[1] \in Partition /\ m[2] \in 1..NMessages /\ m = <<m[1], m[2]>>
        /\ m[2] = kafkaCursor[m[1]] /\ m \in kafkaSettled
        /\ \A o \in 1..(m[2] - 1) : <<m[1], o>> \in kafkaSettled
    BY <2>1, KafkaMessages, KafkaInHand DEF InHand
  <2>3. committed' \in [Partition -> 0..NMessages]
    BY <1>0, <2>1, <2>2
  <2>4. ASSUME NEW q \in Partition PROVE Fetched(q)'
    <3>1. \A o \in 1..kafkaCursor[q] : <<q, o>> \in kafkaSettled
      BY <2>1, <2>2 DEF Fetched
    <3>2. committed'[q] = committed[q] \/ committed'[q] = kafkaCursor[q]
      BY <1>0, <2>1, <2>2
    <3>3. kafkaCursor[q] \in Nat /\ Fetched(q)
      BY <1>0
    <3> QED
      BY <2>1, <3>1, <3>2, <3>3 DEF Fetched
  <2> QED
    BY <2>1, <2>3, <2>4 DEF InHand, KafkaEarned, KafkaMoves
<1>5. CASE Kafka(s)!Restart
  <2>1. /\ kafkaPc' = "fetch" /\ kafkaCancelled' = FALSE /\ kafkaCursor' = committed
        /\ msg' = Kafka(s)!NoMessage /\ UNCHANGED <<committed, kafkaSettled, kafkaHandled>>
    BY <1>5 DEF Kafka!Restart
  <2>2. \A q \in Partition : Fetched(q)'
    BY <1>0, <2>1 DEF Fetched
  <2> QED
    BY <2>1, <2>2 DEF InHand, KafkaEarned, KafkaMoves
<1>6. CASE Kafka(s)!Rerun
  <2>1. /\ kafkaPc' = "fetch" /\ kafkaCancelled' = FALSE
        /\ msg = Kafka(s)!NoMessage /\ msg' = Kafka(s)!NoMessage
        /\ UNCHANGED <<kafkaCursor, committed, kafkaSettled, kafkaHandled>>
    BY <1>0, <1>6 DEF Kafka!Rerun, InHand
  <2> QED
    BY <2>1 DEF InHand, KafkaEarned, KafkaMoves, Fetched
<1> QED
  BY <1>1, <1>2, <1>3, <1>4, <1>5, <1>6 DEF Kafka!Next, Kafka!RunStep

LEMMA KafkaCovers ==
  ASSUME NEW s \in Setups, KafkaInv(s)
  PROVE  Kafka(s)!CommittedCovers
BY DEF KafkaInv, Fetched, KafkaEarned, Kafka!CommittedCovers

-----------------------------------------------------------------------------
(***************************************************************************)
(* Cosmos.  The three tokens drift apart, and each of them covers settled  *)
(* documents only; a page in hand is one past the token it was read from.  *)
(***************************************************************************)

\* Every document up to a position is settled.
Covered(n) == \A o \in 1..n : o \in cosmosSettled \union Gaps

\* The page in hand, while it is in hand.
PageInHand ==
  /\ cosmosPc = "dispatch" => continuation < page
  /\ cosmosPc = "checkpoint" => continuation <= page /\ Covered(page)

CosmosEarned(s) ==
  \A o \in cosmosSettled : o \in cosmosHandled \/ Cosmos(s)!Waived(s.delivery, ~s.topic)

CosmosInv(s) ==
  /\ Cosmos(s)!TypeOK /\ PageInHand /\ CosmosEarned(s)
  /\ Covered(start) /\ Covered(continuation) /\ Covered(durable)

LEMMA CosmosStarts ==
  ASSUME NEW s \in Setups, Cosmos(s)!Init
  PROVE  CosmosInv(s) /\ Cosmos(s)!Stream!Init
<1> USE DEF Cosmos!Init
<1>0. 0 \in 0..Last
  BY StreamAssumption
<1>1. Cosmos(s)!TypeOK
  BY <1>0 DEF Cosmos!TypeOK
<1>2. PageInHand /\ CosmosEarned(s) /\ Covered(start) /\ Covered(continuation) /\ Covered(durable)
  BY DEF PageInHand, CosmosEarned, Covered
<1>3. Cosmos(s)!Stream!Init
  BY DEF Cosmos!Stream!Init
<1> QED
  BY <1>1, <1>2, <1>3 DEF CosmosInv

\* The page's documents are settled: the batch of the stream between the token and the page.
LEMMA CosmosSettles ==
  ASSUME NEW s, CosmosInv(s), cosmosPc = "dispatch",
         cosmosSettled' = cosmosSettled \union Cosmos(s)!Documents(continuation, page),
         durable' = durable
  PROVE  Cosmos(s)!Stream!Next /\ \A o \in 1..page : o \in cosmosSettled' \union Gaps
<1>1. PICK from, to \in 1..Last : from = continuation + 1 /\ to = page
  BY StreamAssumption DEF CosmosInv, Cosmos!TypeOK, PageInHand
<1>2. (cosmosSettled \union Gaps)' = (cosmosSettled \union Gaps) \union (from..to)
  BY <1>1 DEF Cosmos!Documents
<1>3. 1..(from - 1) \subseteq cosmosSettled \union Gaps
  BY <1>1 DEF CosmosInv, Cosmos!TypeOK, Covered
<1>4. Cosmos(s)!Stream!Settle(from, to)
  BY <1>2, <1>3 DEF Cosmos!Stream!Settle
<1>5. \A o \in 1..page : o \in 1..(from - 1) \/ o \in from..to
  BY <1>1
<1>6. Cosmos(s)!Stream!Next
  BY <1>4 DEF Cosmos!Stream!Next
<1> QED
  BY <1>2, <1>3, <1>5, <1>6

\* What is stored is the page's token, and its documents are settled.
LEMMA CosmosStores ==
  ASSUME NEW s, CosmosInv(s), cosmosPc = "checkpoint",
         cosmosSettled' = cosmosSettled, durable' = page
  PROVE  Cosmos(s)!Stream!Next
<1>1. PICK to \in 0..Last : to = page
  BY DEF CosmosInv, Cosmos!TypeOK
<1>2. Cosmos(s)!Stream!Advance(to)
  BY <1>1 DEF Cosmos!Stream!Advance, CosmosInv, PageInHand, Covered
<1> QED
  BY <1>2 DEF Cosmos!Stream!Next

LEMMA CosmosInductive ==
  ASSUME NEW s \in Of("cosmos"), CosmosInv(s), Cosmos(s)!Next
  PROVE  CosmosInv(s)' /\ [Cosmos(s)!Stream!Next]_(Cosmos(s)!Stream!vars)
<1> USE DEF CosmosInv, Cosmos!TypeOK
<1>0. Last \in Nat /\ s \in Setups /\ Gaps \subseteq 1..Last
  BY StreamAssumption DEF Of
<1>1. CASE Cosmos(s)!Return \/ Cosmos(s)!ReadError \/ Cosmos(s)!Backoff \/ Cosmos(s)!Cancel
  <2>1. /\ UNCHANGED <<start, continuation, page, durable, cosmosSettled, cosmosHandled>>
        /\ cosmosCancelled' \in BOOLEAN
        /\ cosmosPc' \in {"poll", "backoff", "returned"} \/ cosmosPc' = cosmosPc
    BY <1>1 DEF Cosmos!Return, Cosmos!ReadError, Cosmos!Backoff, Cosmos!Cancel
  <2> QED
    BY <2>1 DEF PageInHand, CosmosEarned, Covered, Cosmos!Stream!vars
<1>2. ASSUME NEW to \in 0..Last, Cosmos(s)!ReadNext(to)
      PROVE  CosmosInv(s)' /\ [Cosmos(s)!Stream!Next]_(Cosmos(s)!Stream!vars)
  <2>1. continuation < to
    BY <1>0, <1>2 DEF Cosmos!ReadNext, Cosmos!Documents
  <2> QED
    BY <1>2, <2>1 DEF Cosmos!ReadNext, PageInHand, CosmosEarned, Covered, Cosmos!Stream!vars
<1>3. ASSUME NEW to \in 0..Last, Cosmos(s)!ReadEmpty(to)
      PROVE  CosmosInv(s)' /\ [Cosmos(s)!Stream!Next]_(Cosmos(s)!Stream!vars)
  <2>1. \A o \in 1..to : o \in 1..continuation \/ o \in Gaps
    BY <1>0, <1>3 DEF Cosmos!ReadEmpty, Cosmos!Documents
  <2> QED
    BY <1>3, <2>1 DEF Cosmos!ReadEmpty, PageInHand, CosmosEarned, Covered, Cosmos!Stream!vars
<1>4. ASSUME NEW ending \in Cosmos(s)!Endings, Cosmos(s)!Dispatch(ending)
      PROVE  CosmosInv(s)' /\ [Cosmos(s)!Stream!Next]_(Cosmos(s)!Stream!vars)
  <2> DEFINE docs == Cosmos(s)!Documents(continuation, page)
  <2>1. /\ cosmosPc = "dispatch" /\ docs \subseteq 1..Last
        /\ UNCHANGED <<cosmosCancelled, start, page, durable>>
        /\ cosmosHandled' \in {cosmosHandled, cosmosHandled \union docs}
        /\ ending = "success" => cosmosHandled' = cosmosHandled \union docs
    BY <1>0, <1>4 DEF Cosmos!Dispatch, Cosmos!Documents
  <2>2. CASE Cosmos(s)!Acknowledge(s.delivery, ending)
    <3>1. /\ cosmosSettled' = cosmosSettled \union docs
          /\ cosmosPc' \in {"checkpoint", "poll"} /\ continuation' \in {continuation, page}
      BY <1>4, <2>2 DEF Cosmos!Dispatch
    <3>2. docs \subseteq cosmosHandled' \/ Cosmos(s)!Waived(s.delivery, ~s.topic)
      BY <1>4, <2>1, <2>2 DEF Cosmos!Dispatch, Cosmos!Acknowledge, Cosmos!Waived, Cosmos!EndingsOf
    <3>3. Cosmos(s)!Stream!Next /\ \A o \in 1..page : o \in cosmosSettled' \union Gaps
      BY <2>1, <3>1, CosmosSettles DEF Covered
    <3>4. Cosmos(s)!TypeOK'
      BY <1>0, <2>1, <3>1
    <3>5. PageInHand' /\ CosmosEarned(s)'
      BY <1>0, <2>1, <3>1, <3>2, <3>3 DEF PageInHand, CosmosEarned, Covered
    <3>6. Covered(start)' /\ Covered(durable)' /\ Covered(continuation)'
      BY <2>1, <3>1, <3>3 DEF Covered
    <3> QED
      BY <3>3, <3>4, <3>5, <3>6
  <2>3. CASE ~Cosmos(s)!Acknowledge(s.delivery, ending)
    <3>1. cosmosPc' = "backoff" /\ UNCHANGED <<cosmosSettled, continuation>>
      BY <1>4, <2>3 DEF Cosmos!Dispatch
    <3> QED
      BY <1>0, <2>1, <3>1 DEF PageInHand, CosmosEarned, Covered, Cosmos!Stream!vars
  <2> QED
    BY <2>2, <2>3
<1>5. CASE Cosmos(s)!Checkpoint \/ Cosmos(s)!CheckpointError
  <2>1. /\ cosmosPc = "checkpoint" /\ cosmosPc' \in {"poll", "backoff"}
        /\ durable' \in {durable, page} /\ continuation' \in {continuation, page}
        /\ UNCHANGED <<cosmosCancelled, start, page, cosmosSettled, cosmosHandled>>
    BY <1>5 DEF Cosmos!Checkpoint, Cosmos!CheckpointError
  <2>2. [Cosmos(s)!Stream!Next]_(Cosmos(s)!Stream!vars)
    BY <2>1, CosmosStores DEF Cosmos!Stream!vars
  <2> QED
    BY <1>0, <2>1, <2>2 DEF PageInHand, CosmosEarned, Covered
<1>6. CASE Cosmos(s)!Rerun \/ Cosmos(s)!Restart
  <2>1. /\ cosmosPc' = "poll" /\ cosmosCancelled' = FALSE
        /\ start' \in {start, durable} /\ continuation' \in {start, durable}
        /\ UNCHANGED <<page, durable, cosmosSettled, cosmosHandled>>
    BY <1>6 DEF Cosmos!Rerun, Cosmos!Restart
  <2> QED
    BY <1>0, <2>1 DEF PageInHand, CosmosEarned, Covered, Cosmos!Stream!vars
<1> QED
  BY <1>1, <1>2, <1>3, <1>4, <1>5, <1>6 DEF Cosmos!Next, Cosmos!RunStep

LEMMA CosmosCovers ==
  ASSUME NEW s \in Setups, CosmosInv(s)
  PROVE  Cosmos(s)!DurableCovers /\ Cosmos(s)!TokenCovers
BY DEF CosmosInv, Covered, CosmosEarned, Cosmos!DurableCovers, Cosmos!TokenCovers, Cosmos!Documents

-----------------------------------------------------------------------------
(***************************************************************************)
(* Lambda.  In a running invocation a partition's records are settled or   *)
(* still to come, up to the one reported; what the mapping has moved past  *)
(* is settled.                                                             *)
(***************************************************************************)

\* A partition's records in the running invocation.
InEvent(p) ==
  /\ remaining[p] \subseteq 1..last[p]
  /\ report[p] = 0 => \A o \in 1..last[p] : <<p, o>> \in lambdaSettled \/ o \in remaining[p]
  /\ report[p] # 0 =>
       remaining[p] = {} /\ \A o \in 1..(report[p] - 1) : <<p, o>> \in lambdaSettled
  /\ p \notin todo \union current => remaining[p] = {}

Passed(p) == \A o \in 1..position[p] : <<p, o>> \in lambdaSettled

LambdaEarned(s) ==
  \A r \in lambdaSettled :
    \/ r \in lambdaHandled
    \/ s.delivery = "AtMostOnce"
    \/ r \notin Poison /\ Lambda(s)!Waived(s.delivery, r \in Unserved)

LambdaInv(s) ==
  /\ Lambda(s)!TypeOK /\ LambdaEarned(s)
  /\ lambdaPc = "idle" => current = {}
  /\ \A p \in Partition : Passed(p) /\ (lambdaPc = "running" => InEvent(p))

LEMMA LambdaStarts ==
  ASSUME NEW s \in Setups, Lambda(s)!Init
  PROVE  LambdaInv(s) /\ Lambda(s)!StreamsStart
<1> USE DEF Lambda!Init
<1>0. 0 \in 0..NMessages
  BY StreamAssumption
<1>1. Lambda(s)!TypeOK
  BY <1>0 DEF Lambda!TypeOK
<1>2. LambdaEarned(s) /\ \A p \in Partition : Passed(p)
  BY DEF LambdaEarned, Passed
<1>3. Lambda(s)!StreamsStart
  BY DEF Lambda!StreamsStart, Lambda!Stream!Init
<1> QED
  BY <1>1, <1>2, <1>3 DEF LambdaInv

\* What a step does to the history and to the mapping's positions.
LambdaMoves(s) ==
  \/ UNCHANGED <<lambdaSettled, position>>
  \/ /\ UNCHANGED position
     /\ \E p \in Partition, o \in 1..NMessages :
          /\ \A before \in 1..(o - 1) : <<p, before>> \in lambdaSettled
          /\ lambdaSettled' = lambdaSettled \union {<<p, o>>}
  \/ /\ UNCHANGED lambdaSettled
     /\ \A p \in Partition : \E to \in 0..NMessages :
          position'[p] = to /\ \A o \in 1..to : <<p, o>> \in lambdaSettled

LEMMA LambdaMoveIsOrdered ==
  ASSUME NEW s, LambdaMoves(s)
  PROVE  Lambda(s)!StreamsStep
<1> SUFFICES ASSUME NEW p \in Partition
             PROVE  [Lambda(s)!Stream(p)!Next]_(Lambda(s)!Stream(p)!vars)
  BY DEF Lambda!StreamsStep
<1> DEFINE mine == {o \in Lambda(s)!Offset : <<p, o>> \in lambdaSettled}
<1>1. CASE UNCHANGED <<lambdaSettled, position>>
  BY <1>1 DEF Lambda!Stream!vars
<1>2. ASSUME UNCHANGED position, NEW q \in Partition, NEW o \in 1..NMessages,
             \A before \in 1..(o - 1) : <<q, before>> \in lambdaSettled,
             lambdaSettled' = lambdaSettled \union {<<q, o>>}
      PROVE  [Lambda(s)!Stream(p)!Next]_(Lambda(s)!Stream(p)!vars)
  <2>1. CASE q # p
    <3>1. mine' = mine
      BY <1>2, <2>1
    <3> QED
      BY <1>2, <3>1 DEF Lambda!Stream!vars
  <2>2. CASE q = p
    <3>1. mine' = mine \union (o..o)
      BY <1>2, <2>2 DEF Lambda!Offset
    <3>2. 1..(o - 1) \subseteq mine
      BY <1>2, <2>2, StreamAssumption DEF Lambda!Offset
    <3>3. Lambda(s)!Stream(p)!Settle(o, o)
      BY <1>2, <3>1, <3>2 DEF Lambda!Stream!Settle
    <3> QED
      BY <3>3 DEF Lambda!Stream!Next
  <2> QED
    BY <2>1, <2>2
<1>3. ASSUME UNCHANGED lambdaSettled, NEW to \in 0..NMessages, position'[p] = to,
             \A o \in 1..to : <<p, o>> \in lambdaSettled
      PROVE  Lambda(s)!Stream(p)!Next
  <2>1. 1..to \subseteq mine
    BY <1>3, StreamAssumption DEF Lambda!Offset
  <2>2. Lambda(s)!Stream(p)!Advance(to)
    BY <1>3, <2>1 DEF Lambda!Stream!Advance
  <2> QED
    BY <2>2 DEF Lambda!Stream!Next
<1> QED
  BY <1>1, <1>2, <1>3 DEF LambdaMoves

\* The records before the next one are settled, and none of the partition has been reported.
LEMMA LambdaNext ==
  ASSUME NEW s, LambdaInv(s), NEW p \in Partition, NEW o \in 1..NMessages,
         current = {p}, Lambda(s)!Next1(p, o)
  PROVE  /\ lambdaPc = "running" /\ report[p] = 0 /\ o \in 1..last[p]
         /\ \A before \in 1..(o - 1) : <<p, before>> \in lambdaSettled
<1>1. lambdaPc = "running" /\ report[p] = 0 /\ o \in 1..last[p]
  BY DEF LambdaInv, Lambda!TypeOK, InEvent, Lambda!Next1
<1>2. ASSUME NEW before \in 1..(o - 1) PROVE <<p, before>> \in lambdaSettled
  <2>1. before \in 1..last[p] /\ before \notin remaining[p]
    BY <1>1, StreamAssumption DEF LambdaInv, Lambda!TypeOK, Lambda!Next1
  <2> QED
    BY <1>1, <2>1 DEF LambdaInv, InEvent
<1> QED
  BY <1>1, <1>2

\* A partition goes on behind a record, or breaks off at it.
LEMMA LambdaRecord ==
  ASSUME NEW s, LambdaInv(s), NEW p \in Partition, NEW o \in 1..NMessages,
         current = {p}, Lambda(s)!Next1(p, o),
         UNCHANGED <<lambdaPc, todo, current, last, position>>,
         \/ Lambda(s)!Skip(p, o) /\ lambdaSettled' = lambdaSettled \union {<<p, o>>}
         \/ Lambda(s)!FailAt(p, o) /\ lambdaSettled' = lambdaSettled
  PROVE  /\ remaining' \in [Partition -> SUBSET Lambda(s)!Offset] /\ report' \in [Partition -> 0..NMessages]
         /\ \A q \in Partition : InEvent(q)' /\ Passed(q)'
         /\ LambdaMoves(s)
<1>0. /\ remaining \in [Partition -> SUBSET Lambda(s)!Offset] /\ report \in [Partition -> 0..NMessages]
      /\ NMessages \in Nat
  BY StreamAssumption DEF LambdaInv, Lambda!TypeOK
<1>1. /\ lambdaPc = "running" /\ report[p] = 0 /\ o \in 1..last[p]
      /\ \A before \in 1..(o - 1) : <<p, before>> \in lambdaSettled
  BY LambdaNext
<1>2. \A q \in Partition : InEvent(q) /\ Passed(q)
  BY <1>1 DEF LambdaInv
<1>3. \A q \in Partition : Passed(q)'
  BY <1>2 DEF Passed, LambdaInv
<1>4. CASE Lambda(s)!Skip(p, o) /\ lambdaSettled' = lambdaSettled \union {<<p, o>>}
  <2>1. remaining' = [remaining EXCEPT ![p] = @ \ {o}] /\ report' = report
    BY <1>4 DEF Lambda!Skip
  <2>2. remaining' \in [Partition -> SUBSET Lambda(s)!Offset]
    BY <1>0, <2>1
  <2>3. ASSUME NEW q \in Partition PROVE InEvent(q)'
    <3>1. remaining'[q] = (IF q = p THEN remaining[q] \ {o} ELSE remaining[q])
      BY <1>0, <2>1
    <3> QED
      BY <1>1, <1>2, <1>4, <2>1, <3>1 DEF InEvent
  <2> QED
    BY <1>0, <1>1, <1>3, <1>4, <2>1, <2>2, <2>3 DEF LambdaMoves
<1>5. CASE Lambda(s)!FailAt(p, o) /\ lambdaSettled' = lambdaSettled
  <2>1. /\ remaining' = [remaining EXCEPT ![p] = {}] /\ report' = [report EXCEPT ![p] = o]
        /\ remaining' \in [Partition -> SUBSET Lambda(s)!Offset] /\ report' \in [Partition -> 0..NMessages]
    BY <1>0, <1>5 DEF Lambda!FailAt
  <2>2. ASSUME NEW q \in Partition PROVE InEvent(q)'
    <3>1. /\ remaining'[q] = (IF q = p THEN {} ELSE remaining[q])
          /\ report'[q] = (IF q = p THEN o ELSE report[q])
      BY <1>0, <2>1
    <3> QED
      BY <1>1, <1>2, <1>5, <3>1 DEF InEvent
  <2> QED
    BY <1>3, <1>5, <2>1, <2>2 DEF LambdaMoves
<1> QED
  BY <1>4, <1>5

LEMMA LambdaInductive ==
  ASSUME NEW s \in Of("lambda"), LambdaInv(s), Lambda(s)!Next
  PROVE  LambdaInv(s)' /\ LambdaMoves(s)
<1>0. NMessages \in Nat /\ Lambda(s)!TypeOK /\ LambdaEarned(s)
      /\ \A p \in Partition : Passed(p) /\ (lambdaPc = "running" => InEvent(p))
  BY StreamAssumption DEF LambdaInv
<1>1. ASSUME NEW end \in [Partition -> 0..NMessages], Lambda(s)!Invoke(end)
      PROVE  LambdaInv(s)' /\ LambdaMoves(s)
  <2>1. /\ lambdaPc = "idle" /\ lambdaPc' = "running" /\ last' = end
        /\ remaining' = [p \in Partition |-> (position[p] + 1)..end[p]]
        /\ todo' = {p \in Partition : end[p] > position[p]}
        /\ report' = [p \in Partition |-> 0]
        /\ UNCHANGED <<current, position, lambdaSettled, lambdaHandled>>
    BY <1>1 DEF Lambda!Invoke
  <2>2. \A p \in Partition : position[p] \in 0..NMessages /\ end[p] \in 0..NMessages
    BY <1>0 DEF Lambda!TypeOK
  <2>3. Lambda(s)!TypeOK'
    <3>1. remaining' \in [Partition -> SUBSET Lambda(s)!Offset]
      BY <1>0, <2>1, <2>2 DEF Lambda!Offset
    <3>2. report' \in [Partition -> 0..NMessages]
      BY <1>0, <2>1
    <3> QED
      BY <1>0, <2>1, <3>1, <3>2 DEF Lambda!TypeOK
  <2>4. ASSUME NEW p \in Partition PROVE InEvent(p)' /\ Passed(p)'
    <3>1. /\ remaining'[p] = (position[p] + 1)..end[p] /\ report'[p] = 0 /\ last'[p] = end[p]
          /\ p \in todo' <=> end[p] > position[p]
      BY <2>1
    <3> QED
      BY <1>0, <2>1, <2>2, <3>1 DEF InEvent, Passed
  <2> QED
    BY <1>0, <2>1, <2>3, <2>4 DEF LambdaInv, LambdaEarned, LambdaMoves
<1>2. ASSUME NEW p \in Partition, Lambda(s)!TakePartition(p) \/ Lambda(s)!LeavePartition(p)
      PROVE  LambdaInv(s)' /\ LambdaMoves(s)
  <2>1. /\ UNCHANGED <<lambdaPc, remaining, last, report, position, lambdaSettled, lambdaHandled>>
        /\ todo' \subseteq Partition /\ lambdaPc = "running"
        /\ current' = {} \/ current' = {p}
    BY <1>0, <1>2 DEF Lambda!TakePartition, Lambda!LeavePartition, Lambda!TypeOK, LambdaInv
  <2>3. ASSUME NEW q \in Partition PROVE InEvent(q)' /\ Passed(q)'
    <3>1. q \notin todo' \union current' => q \notin todo \union current \/ remaining[q] = {}
      BY <1>2 DEF Lambda!TakePartition, Lambda!LeavePartition
    <3> QED
      BY <1>0, <2>1, <3>1 DEF InEvent, Passed
  <2> QED
    BY <1>0, <2>1, <2>3 DEF LambdaInv, LambdaEarned, LambdaMoves, Lambda!TypeOK
<1>3. ASSUME NEW p \in Partition, NEW o \in Lambda(s)!Offset, Lambda(s)!PoisonRecord(p, o)
      PROVE  LambdaInv(s)' /\ LambdaMoves(s)
  <2>1. /\ current = {p} /\ Lambda(s)!Next1(p, o) /\ o \in 1..NMessages
        /\ UNCHANGED <<lambdaPc, todo, current, last, position, lambdaHandled>>
        /\ \/ /\ Lambda(s)!Skip(p, o) /\ lambdaSettled' = lambdaSettled \union {<<p, o>>}
              /\ s.delivery = "AtMostOnce"
           \/ Lambda(s)!FailAt(p, o) /\ lambdaSettled' = lambdaSettled
    BY <1>3 DEF Lambda!PoisonRecord, Lambda!Offset
  <2>2. /\ remaining' \in [Partition -> SUBSET Lambda(s)!Offset] /\ report' \in [Partition -> 0..NMessages]
        /\ \A q \in Partition : InEvent(q)' /\ Passed(q)'
        /\ LambdaMoves(s)
    BY <2>1, LambdaRecord
  <2>3. Lambda(s)!TypeOK' /\ LambdaEarned(s)'
    BY <1>0, <2>1, <2>2 DEF Lambda!TypeOK, Lambda!Record, LambdaEarned
  <2> QED
    BY <2>1, <2>2, <2>3 DEF LambdaInv
<1>4. ASSUME NEW p \in Partition, NEW o \in Lambda(s)!Offset, NEW ending \in Lambda(s)!Endings,
             Lambda(s)!Dispatch(p, o, ending)
      PROVE  LambdaInv(s)' /\ LambdaMoves(s)
  <2>1. /\ current = {p} /\ Lambda(s)!Next1(p, o) /\ o \in 1..NMessages
        /\ UNCHANGED <<lambdaPc, todo, current, last, position>>
        /\ lambdaHandled' \in {lambdaHandled, lambdaHandled \union {<<p, o>>}}
        /\ \/ Lambda(s)!Skip(p, o) /\ lambdaSettled' = lambdaSettled \union {<<p, o>>}
           \/ Lambda(s)!FailAt(p, o) /\ lambdaSettled' = lambdaSettled
    BY <1>4 DEF Lambda!Dispatch, Lambda!Offset
  <2>2. <<p, o>> \in lambdaSettled' \ lambdaSettled =>
          \/ <<p, o>> \in lambdaHandled' \/ s.delivery = "AtMostOnce"
          \/ <<p, o>> \notin Poison /\ Lambda(s)!Waived(s.delivery, <<p, o>> \in Unserved)
    BY <1>4 DEF Lambda!Dispatch, Lambda!Acknowledge, Lambda!EndingsOf, Lambda!Waived
  <2>3. /\ remaining' \in [Partition -> SUBSET Lambda(s)!Offset] /\ report' \in [Partition -> 0..NMessages]
        /\ \A q \in Partition : InEvent(q)' /\ Passed(q)'
        /\ LambdaMoves(s)
    BY <2>1, LambdaRecord
  <2>4. Lambda(s)!TypeOK'
    BY <1>0, <2>1, <2>3 DEF Lambda!TypeOK, Lambda!Record, Lambda!Offset
  <2>5. LambdaEarned(s)'
    BY <1>0, <2>1, <2>2 DEF LambdaEarned
  <2> QED
    BY <2>1, <2>3, <2>4, <2>5 DEF LambdaInv
<1>5. CASE Lambda(s)!Respond
  <2>1. /\ lambdaPc = "running" /\ current = {} /\ todo = {} /\ lambdaPc' = "idle"
        /\ position' = [p \in Partition |-> IF report[p] = 0 THEN last[p] ELSE report[p] - 1]
        /\ UNCHANGED <<todo, current, remaining, last, report, lambdaSettled, lambdaHandled>>
    BY <1>5 DEF Lambda!Respond
  <2>2. ASSUME NEW p \in Partition
        PROVE  /\ position'[p] \in 0..NMessages
               /\ \A o \in 1..position'[p] : <<p, o>> \in lambdaSettled
    <3>1. remaining[p] = {} /\ InEvent(p) /\ last[p] \in 0..NMessages /\ report[p] \in 0..NMessages
      BY <1>0, <2>1 DEF InEvent, Lambda!TypeOK
    <3> QED
      BY <1>0, <2>1, <3>1 DEF InEvent
  <2>3. position' \in [Partition -> 0..NMessages]
    BY <2>1, <2>2
  <2> QED
    BY <1>0, <2>1, <2>2, <2>3 DEF LambdaInv, LambdaEarned, LambdaMoves, Passed, Lambda!TypeOK
<1>6. CASE Lambda(s)!InvocationLost
  <2>1. /\ lambdaPc' = "idle" /\ todo' = {} /\ current' = {}
        /\ remaining' = [p \in Partition |-> {}]
        /\ UNCHANGED <<last, report, position, lambdaSettled, lambdaHandled>>
    BY <1>6 DEF Lambda!InvocationLost
  <2> QED
    BY <1>0, <2>1 DEF LambdaInv, LambdaEarned, LambdaMoves, Passed, Lambda!TypeOK
<1> QED
  BY <1>1, <1>2, <1>3, <1>4, <1>5, <1>6 DEF Lambda!Next, Lambda!HandlerStep

LEMMA LambdaCovers ==
  ASSUME NEW s \in Setups, LambdaInv(s)
  PROVE  Lambda(s)!PositionCovers
BY DEF LambdaInv, Passed, LambdaEarned, Lambda!PositionCovers

-----------------------------------------------------------------------------
(***************************************************************************)
(* The composition: the consumer that runs keeps its own invariant.        *)
(***************************************************************************)

StreamsInv(s) ==
  /\ s.consumer = "kafka" => KafkaInv(s)
  /\ s.consumer = "cosmos" => CosmosInv(s)
  /\ s.consumer = "lambda" => LambdaInv(s)

RunningInv == \A s \in Setups : setup = s => StreamsInv(s)

LEMMA StreamsBegin ==
  ASSUME MCInit, NEW s \in Setups, setup = s
  PROVE  StreamsInv(s) /\ StreamsStart(s)
<1>1. Kafka(s)!Init /\ Cosmos(s)!Init /\ Lambda(s)!Init
  BY DEF MCInit
<1> QED
  BY <1>1, KafkaStarts, CosmosStarts, LambdaStarts DEF StreamsInv, StreamsStart

LEMMA StreamsInductive ==
  ASSUME [MCNext]_all, NEW s \in Setups, setup = s, StreamsInv(s)
  PROVE  setup' = s /\ StreamsInv(s)' /\ StreamsStep(s)
<1>0. setup' = s
  BY DEF MCNext, all
<1>1. CASE s.consumer = "kafka"
  <2>1. KafkaInv(s) /\ s \in Of("kafka")
    BY <1>1 DEF StreamsInv, Of
  <2>2. CASE Kafka(s)!Next
    <3>1. KafkaInv(s)' /\ KafkaMoves(s)
      BY <2>1, <2>2, KafkaInductive
    <3> QED
      BY <1>0, <1>1, <2>1, <3>1, KafkaMoveIsOrdered DEF StreamsInv, StreamsStep
  <2>3. CASE UNCHANGED kafkaVars
    <3>1. KafkaInv(s)'
      BY <2>1, <2>3 DEF kafkaVars, KafkaInv, Kafka!TypeOK, InHand, Fetched, KafkaEarned
    <3>2. KafkaMoves(s)
      BY <2>3 DEF kafkaVars, KafkaMoves
    <3> QED
      BY <1>0, <1>1, <2>1, <3>1, <3>2, KafkaMoveIsOrdered DEF StreamsInv, StreamsStep
  <2> QED
    BY <1>1, <2>2, <2>3 DEF MCNext, all
<1>2. CASE s.consumer = "cosmos"
  <2>1. CosmosInv(s) /\ s \in Of("cosmos")
    BY <1>2 DEF StreamsInv, Of
  <2>2. CASE Cosmos(s)!Next
    BY <1>0, <1>2, <2>1, <2>2, CosmosInductive DEF StreamsInv, StreamsStep
  <2>3. CASE UNCHANGED cosmosVars
    <3>1. CosmosInv(s)'
      BY <2>1, <2>3 DEF cosmosVars, CosmosInv, Cosmos!TypeOK, PageInHand, CosmosEarned, Covered
    <3>2. UNCHANGED Cosmos(s)!Stream!vars
      BY <2>3 DEF cosmosVars, Cosmos!Stream!vars
    <3> QED
      BY <1>0, <1>2, <3>1, <3>2 DEF StreamsInv, StreamsStep
  <2> QED
    BY <1>2, <2>2, <2>3 DEF MCNext, all
<1>3. CASE s.consumer = "lambda"
  <2>1. LambdaInv(s) /\ s \in Of("lambda")
    BY <1>3 DEF StreamsInv, Of
  <2>2. CASE Lambda(s)!Next
    <3>1. LambdaInv(s)' /\ LambdaMoves(s)
      BY <2>1, <2>2, LambdaInductive
    <3> QED
      BY <1>0, <1>3, <3>1, LambdaMoveIsOrdered DEF StreamsInv, StreamsStep
  <2>3. CASE UNCHANGED lambdaVars
    <3>1. LambdaInv(s)'
      BY <2>1, <2>3 DEF lambdaVars, LambdaInv, Lambda!TypeOK, InEvent, Passed, LambdaEarned
    <3>2. LambdaMoves(s)
      BY <2>3 DEF lambdaVars, LambdaMoves
    <3> QED
      BY <1>0, <1>3, <3>1, <3>2, LambdaMoveIsOrdered DEF StreamsInv, StreamsStep
  <2> QED
    BY <1>3, <2>2, <2>3 DEF MCNext, all
<1> QED
  BY <1>0, <1>1, <1>2, <1>3 DEF StreamsInv, StreamsStep

LEMMA StreamsStaySafe == MCSpec => []RunningInv
<1>1. MCInit => RunningInv
  BY StreamsBegin DEF RunningInv
<1>2. RunningInv /\ [MCNext]_all => RunningInv'
  <2> SUFFICES ASSUME RunningInv, [MCNext]_all, NEW s \in Setups, setup' = s
               PROVE  StreamsInv(s)'
    BY DEF RunningInv
  <2>1. setup = s
    BY DEF MCNext, all
  <2> QED
    BY <2>1, StreamsInductive DEF RunningInv
<1> QED
  BY <1>1, <1>2, PTL DEF MCSpec

\* Whatever handlers, commits, hooks, shutdown and restarts do, a Kafka offset, a Cosmos
\* token and an event source mapping's position cover handled and waived records only.
THEOREM StreamPositionsCover == MCSpec => []PositionsCover
<1>1. EventHubInv /\ RunningInv => PositionsCover
  <2> SUFFICES ASSUME EventHubInv, RunningInv PROVE PositionsCover
    OBVIOUS
  <2>1. ASSUME NEW s \in Setups, setup = s
        PROVE  /\ s.consumer = "kafka" => Kafka(s)!TypeOK /\ Kafka(s)!CommittedCovers
               /\ s.consumer = "cosmos" =>
                    Cosmos(s)!TypeOK /\ Cosmos(s)!DurableCovers /\ Cosmos(s)!TokenCovers
               /\ s.consumer = "lambda" => Lambda(s)!TypeOK /\ Lambda(s)!PositionCovers
    <3>1. StreamsInv(s)
      BY <2>1 DEF RunningInv
    <3> QED
      BY <3>1, KafkaCovers, CosmosCovers, LambdaCovers
         DEF StreamsInv, KafkaInv, CosmosInv, LambdaInv
  <2> QED
    BY <2>1 DEF PositionsCover, EventHubInv, Of
<1> QED
  BY EventHubStaysSafe, StreamsStaySafe, <1>1, PTL

\* Each partition, feed and shard is an ordered stream: settled in order, its position moved
\* over settled records only; and Kafka never commits an offset backwards.
THEOREM StreamsAreOrdered == MCSpec => OthersAreOrdered
<1>1. MCInit => \A s \in Setups : setup = s => StreamsStart(s)
  BY StreamsBegin
<1>2. RunningInv /\ [MCNext]_all => [\A s \in Setups : setup = s => StreamsStep(s)]_all
  BY StreamsInductive DEF RunningInv
<1> QED
  BY StreamsStaySafe, <1>1, <1>2, PTL DEF MCSpec, OthersAreOrdered
=============================================================================
