-------------------------- MODULE EventHubConsumer --------------------------
(***************************************************************************)
(* The self-hosted Event Hubs consumer (azureeventhub/consumer.go): Run's  *)
(* loop over receiveAndDispatch, for one partition.  The receiver is a     *)
(* cursor into the partition; it never goes back by itself, so the         *)
(* consumer holds what it could not settle in "pending".  The checkpoint   *)
(* store belongs to the application: a new process opens its receiver at   *)
(* the stored position.                                                    *)
(***************************************************************************)
EXTENDS Settlement, Sequences

CONSTANTS
  NEvents,        \* bound: events 1..NEvents are in the partition
  MaxBatchSize,   \* events one ReceiveEvents call may return
  Unmatched,      \* events whose topic no handler serves
  HasCheckpoint   \* whether the Checkpoint hook is set

ASSUME EventHubAssumption ==
  /\ NEvents \in Nat
  /\ MaxBatchSize \in Nat \ {0}
  /\ Unmatched \subseteq 1..NEvents
  /\ HasCheckpoint \in BOOLEAN

VARIABLES
  pc,          \* where Run is
  cancelled,   \* ctx.Err() # nil
  cursor,      \* the receiver: events 1..cursor have been handed out
  events,      \* the part of receiveAndDispatch's batch not dealt with yet
  pending,     \* Consumer.pending
  checkpoint,  \* the application's durable position
  settled,     \* history: events acknowledged by the Settlement
  handled      \* outside world: events whose handler has succeeded

vars == <<pc, cancelled, cursor, events, pending, checkpoint, settled, handled>>

Event == 1..NEvents

Init ==
  /\ pc = "loop"
  /\ cancelled = FALSE
  /\ cursor = 0
  /\ events = <<>>
  /\ pending = <<>>
  /\ checkpoint = 0
  /\ settled = {}
  /\ handled = {}

\* Shutdown is requested, at any time.
Cancel ==
  /\ ~cancelled
  /\ pc # "returned"
  /\ cancelled' = TRUE
  /\ UNCHANGED <<pc, cursor, events, pending, checkpoint, settled, handled>>

\* Run looks at its context between two cycles.
Return ==
  /\ pc = "loop"
  /\ cancelled
  /\ pc' = "returned"
  /\ UNCHANGED <<cancelled, cursor, events, pending, checkpoint, settled, handled>>

\* Wrong variant: the event that failed goes behind the others.
ResumeFailedLast ==
  /\ pc = "loop"
  /\ pending # <<>>
  /\ events' = Append(Tail(pending), Head(pending))
  /\ pending' = <<>>
  /\ pc' = "dispatch"
  /\ UNCHANGED <<cancelled, cursor, checkpoint, settled, handled>>

\* A cycle over the remainder of an earlier batch.
Resume ==
  /\ pc = "loop"
  /\ pending # <<>>
  /\ events' = pending
  /\ pending' = <<>>
  /\ pc' = "dispatch"
  /\ UNCHANGED <<cancelled, cursor, checkpoint, settled, handled>>

\* A cycle over a freshly received batch, possibly an empty one.
Receive ==
  /\ pc = "loop"
  /\ pending = <<>>
  /\ \E n \in 0..MaxBatchSize :
       /\ cursor + n <= NEvents
       /\ events' = [i \in 1..n |-> cursor + i]
       /\ cursor' = cursor + n
  /\ pc' = "dispatch"
  /\ UNCHANGED <<cancelled, pending, checkpoint, settled, handled>>

\* ReceiveEvents failed, or its context is over.
ReceiveError ==
  /\ pc = "loop"
  /\ pending = <<>>
  /\ pc' = "error"
  /\ UNCHANGED <<cancelled, cursor, events, pending, checkpoint, settled, handled>>

\* Wrong variant: the event is settled whatever its handler said.
DispatchIgnoresOutcome(e, ending) ==
  /\ pc = "dispatch"
  /\ events # <<>>
  /\ e = Head(events)
  /\ ending \in EndingsOf(e \in Unmatched)
  /\ handled' = IF ending = "success" THEN handled \union {e} ELSE handled
  /\ settled' = settled \union {e}
  /\ pc' = "checkpoint"
  /\ UNCHANGED <<cancelled, cursor, events, pending, checkpoint>>

\* One turn of the loop over the batch: dispatch the event, and unless it is
\* acknowledged hold it and everything after it for the next cycle.
Dispatch(e, ending) ==
  /\ pc = "dispatch"
  /\ events # <<>>
  /\ e = Head(events)
  /\ ending \in EndingsOf(e \in Unmatched)
  /\ handled' = IF ending = "success" THEN handled \union {e} ELSE handled
  /\ IF Acknowledge(Delivery, ending)
     THEN /\ settled' = settled \union {e}
          /\ IF HasCheckpoint
             THEN pc' = "checkpoint" /\ UNCHANGED events
             ELSE UNCHANGED pc /\ events' = Tail(events)
          /\ UNCHANGED pending
     ELSE /\ pending' = events
          /\ events' = <<>>
          /\ pc' = "error"
          /\ UNCHANGED settled
  /\ UNCHANGED <<cancelled, cursor, checkpoint>>

\* The Checkpoint hook, on a context a shutdown does not cancel.
Checkpoint(e) ==
  /\ pc = "checkpoint"
  /\ e = Head(events)
  /\ checkpoint' = e
  /\ events' = Tail(events)
  /\ pc' = "dispatch"
  /\ UNCHANGED <<cancelled, cursor, pending, settled, handled>>

\* Wrong variant: the rest of the batch is forgotten.
CheckpointErrorDropsRest ==
  /\ pc = "checkpoint"
  /\ checkpoint' \in {checkpoint, Head(events)}
  /\ events' = <<>>
  /\ pc' = "error"
  /\ UNCHANGED <<cancelled, cursor, pending, settled, handled>>

\* The hook returned an error, whether or not the position was stored: the rest
\* of the batch is held, and a later checkpoint covers this event.
CheckpointError ==
  /\ pc = "checkpoint"
  /\ checkpoint' \in {checkpoint, Head(events)}
  /\ pending' = Tail(events)
  /\ events' = <<>>
  /\ pc' = "error"
  /\ UNCHANGED <<cancelled, cursor, settled, handled>>

\* The batch is done: receiveAndDispatch returns nil.
EndCycle ==
  /\ pc = "dispatch"
  /\ events = <<>>
  /\ pc' = "loop"
  /\ UNCHANGED <<cancelled, cursor, events, pending, checkpoint, settled, handled>>

\* receiveAndDispatch returned an error: Run returns if its context is over,
\* otherwise it sleeps and goes round again.
Backoff ==
  /\ pc = "error"
  /\ pc' = IF cancelled THEN "returned" ELSE "loop"
  /\ UNCHANGED <<cancelled, cursor, events, pending, checkpoint, settled, handled>>

\* The owner calls Run again on the same Consumer.
Rerun ==
  /\ pc = "returned"
  /\ pc' = "loop"
  /\ cancelled' = FALSE
  /\ UNCHANGED <<cursor, events, pending, checkpoint, settled, handled>>

\* The process dies; a new one opens its receiver at the stored position.
Restart ==
  /\ pc' = "loop"
  /\ cancelled' = FALSE
  /\ cursor' = checkpoint
  /\ events' = <<>>
  /\ pending' = <<>>
  /\ UNCHANGED <<checkpoint, settled, handled>>

RunStep ==
  \/ Return \/ Resume \/ Receive \/ ReceiveError \/ EndCycle \/ Backoff
  \/ \E e \in Event : Checkpoint(e) \/ \E ending \in Endings : Dispatch(e, ending)
  \/ CheckpointError

Next == RunStep \/ Cancel \/ Rerun \/ Restart

Spec == Init /\ [][Next]_vars

\* Run keeps running and is run again.  A receive, a handler and a checkpoint
\* that are tried again and again succeed in the end, restarts or not.
Fairness ==
  /\ WF_vars(RunStep) /\ WF_vars(Rerun)
  /\ SF_vars(Receive /\ cursor' > cursor) /\ SF_vars(Resume)
  /\ \A e \in Event :
       /\ SF_vars(Checkpoint(e))
       /\ SF_vars(\E ending \in Endings : Acknowledge(Delivery, ending) /\ Dispatch(e, ending))

FairSpec == Spec /\ Fairness

-----------------------------------------------------------------------------
\* The values each variable can hold.
TypeOK ==
  /\ pc \in {"loop", "dispatch", "checkpoint", "error", "returned"}
  /\ cancelled \in BOOLEAN
  /\ cursor \in 0..NEvents
  /\ events \in Seq(Event)
  /\ pending \in Seq(Event)
  /\ checkpoint \in 0..NEvents
  /\ settled \subseteq Event
  /\ handled \subseteq Event

\* "the durable checkpoint never advances past an unhandled event", unless the
\* Settlement accepts the event's failure: whatever fails, is cancelled, is
\* retried or crashes in between.
CheckpointCovers ==
  \A e \in 1..checkpoint : e \in handled \/ Waived(Delivery, e \in Unmatched)

Held == {events[i] : i \in DOMAIN events} \union {pending[i] : i \in DOMAIN pending}

\* "never silently skipped in a running process": an event the receiver has
\* handed out is settled or still held, across errors, shutdown and re-runs.
NothingSkipped == 1..cursor \subseteq settled \union Held

\* A checkpoint is a position: it is never moved back.
CheckpointMonotone == [][checkpoint' >= checkpoint]_vars

\* Every event is settled in the end.
EventuallySettled == <>(Event \subseteq settled)

Stream == INSTANCE OrderedStream WITH
            Last <- NEvents, Empty <- {}, position <- checkpoint

\* The consumer is an ordered stream: events are settled in order and the
\* checkpoint covers settled events only.
ImplementsOrderedStream == Stream!Spec
=============================================================================
