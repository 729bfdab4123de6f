---------------------------- MODULE SQSConsumer -----------------------------
(***************************************************************************)
(* The self-hosted SQS consumer (awssqs/consumer.go): Run polls a batch,   *)
(* dispatches its messages one after the other, and deletes the            *)
(* acknowledged ones together at the end, on a context a shutdown does not *)
(* cancel.  Several workers poll one queue, and a lease may run out while  *)
(* its message waits in the batch, is handled, or is about to be deleted.  *)
(***************************************************************************)
EXTENDS LeasedQueue

VARIABLES
  pc,          \* per worker, where Run is
  cancelled,   \* per worker, ctx.Err() # nil
  batch,       \* per worker, out.Messages still to dispatch
  toDelete,    \* per worker, the entries of the delete request
  handled,     \* outside world: messages whose handler has succeeded
  owed         \* history: per worker, acknowledged messages no delete was tried for

vars == <<queue, pc, cancelled, batch, toDelete, handled, owed>>

Init ==
  /\ QueueInit
  /\ pc = [w \in Worker |-> "loop"]
  /\ cancelled = [w \in Worker |-> FALSE]
  /\ batch = [w \in Worker |-> {}]
  /\ toDelete = [w \in Worker |-> {}]
  /\ handled = {}
  /\ owed = [w \in Worker |-> {}]

\* Shutdown is requested, at any time.
Cancel(w) ==
  /\ ~cancelled[w]
  /\ pc[w] # "returned"
  /\ cancelled' = [cancelled EXCEPT ![w] = TRUE]
  /\ UNCHANGED <<queue, pc, batch, toDelete, handled, owed>>

\* Run looks at its context between two polls and after a failed one.
Return(w) ==
  /\ pc[w] \in {"loop", "error"}
  /\ cancelled[w]
  /\ pc' = [pc EXCEPT ![w] = "returned"]
  /\ UNCHANGED <<queue, cancelled, batch, toDelete, handled, owed>>

\* ReceiveMessage returns messages, possibly none, possibly just after the
\* context was cancelled.
Receive(w) ==
  /\ pc[w] = "loop"
  /\ \E received \in SUBSET Visible :
       /\ Lease(w, received)
       /\ batch' = [batch EXCEPT ![w] = received]
  /\ toDelete' = [toDelete EXCEPT ![w] = {}]
  /\ pc' = [pc EXCEPT ![w] = "dispatch"]
  /\ UNCHANGED <<cancelled, handled, owed>>

\* ReceiveMessage fails.  Messages may have been leased to a lost answer.
ReceiveError(w) ==
  /\ pc[w] = "loop"
  /\ \E lost \in SUBSET Visible : Lease(w, lost)
  /\ pc' = [pc EXCEPT ![w] = "error"]
  /\ UNCHANGED <<cancelled, batch, toDelete, handled, owed>>

\* Wrong variant: every dispatched message is put down for deletion.
DispatchDeletesAll(w, m, ending) ==
  /\ pc[w] = "dispatch"
  /\ m \in batch[w]
  /\ ending \in EndingsOf(m \in Unmatched)
  /\ batch' = [batch EXCEPT ![w] = @ \ {m}]
  /\ handled' = IF ending = "success" THEN handled \union {m} ELSE handled
  /\ toDelete' = [toDelete EXCEPT ![w] = @ \union {m}]
  /\ owed' = [owed EXCEPT ![w] = @ \union {m}]
  /\ UNCHANGED <<queue, pc, cancelled>>

\* One message of the batch is dispatched, whether or not its lease still runs.
Dispatch(w, m, ending) ==
  /\ pc[w] = "dispatch"
  /\ m \in batch[w]
  /\ ending \in EndingsOf(m \in Unmatched)
  /\ batch' = [batch EXCEPT ![w] = @ \ {m}]
  /\ handled' = IF ending = "success" THEN handled \union {m} ELSE handled
  /\ IF Acknowledge(Delivery, ending)
     THEN /\ toDelete' = [toDelete EXCEPT ![w] = @ \union {m}]
          /\ owed' = [owed EXCEPT ![w] = @ \union {m}]
     ELSE UNCHANGED <<toDelete, owed>>
  /\ UNCHANGED <<queue, pc, cancelled>>

\* Nothing was acknowledged: poll returns without a delete.
NothingToDelete(w) ==
  /\ pc[w] = "dispatch"
  /\ batch[w] = {}
  /\ toDelete[w] = {}
  /\ pc' = [pc EXCEPT ![w] = "loop"]
  /\ UNCHANGED <<queue, cancelled, batch, toDelete, handled, owed>>

\* The entries DeleteMessageBatch may remove: any of them may be in Failed, and
\* the receipt of a lease that has run out may or may not still work.
Deletable(w) == SUBSET toDelete[w]

\* Wrong variant: the delete is given Run's own context, which a shutdown cancels.
DeleteOnRunContext(w) ==
  /\ pc[w] = "dispatch"
  /\ batch[w] = {}
  /\ toDelete[w] # {}
  /\ IF cancelled[w]
     THEN UNCHANGED <<queue, owed>> /\ pc' = [pc EXCEPT ![w] = "error"]
     ELSE /\ \E removed \in Deletable(w) : Remove(removed)
          /\ owed' = [owed EXCEPT ![w] = @ \ toDelete[w]]
          /\ pc' = [pc EXCEPT ![w] = "loop"]
  /\ UNCHANGED <<cancelled, batch, toDelete, handled>>

\* DeleteMessageBatch is answered; entries in Failed are only reported.
DeleteMessageBatch(w) ==
  /\ pc[w] = "dispatch"
  /\ batch[w] = {}
  /\ toDelete[w] # {}
  /\ \E removed \in Deletable(w) : Remove(removed)
  /\ owed' = [owed EXCEPT ![w] = @ \ toDelete[w]]
  /\ pc' = [pc EXCEPT ![w] = "loop"]
  /\ UNCHANGED <<cancelled, batch, toDelete, handled>>

\* DeleteMessageBatch fails, with or without effect on the queue.
DeleteError(w) ==
  /\ pc[w] = "dispatch"
  /\ batch[w] = {}
  /\ toDelete[w] # {}
  /\ \E removed \in Deletable(w) : Remove(removed)
  /\ owed' = [owed EXCEPT ![w] = @ \ toDelete[w]]
  /\ pc' = [pc EXCEPT ![w] = "error"]
  /\ UNCHANGED <<cancelled, batch, toDelete, handled>>

\* Wrong variant: only a shutdown ends the pause.
BackoffForever(w) ==
  /\ pc[w] = "error"
  /\ ~cancelled[w]
  /\ pc' = [pc EXCEPT ![w] = "error"]
  /\ UNCHANGED <<queue, cancelled, batch, toDelete, handled, owed>>

\* Run sleeps after an error and polls again.
Backoff(w) ==
  /\ pc[w] = "error"
  /\ ~cancelled[w]
  /\ pc' = [pc EXCEPT ![w] = "loop"]
  /\ UNCHANGED <<queue, cancelled, batch, toDelete, handled, owed>>

\* Run is called again, in this process or in a new one after a crash.
Rerun(w) ==
  /\ pc[w] = "returned"
  /\ pc' = [pc EXCEPT ![w] = "loop"]
  /\ cancelled' = [cancelled EXCEPT ![w] = FALSE]
  /\ UNCHANGED <<queue, batch, toDelete, handled, owed>>

\* The worker's process dies: what it held comes back when the leases run out.
Crash(w) ==
  /\ pc[w] # "returned"
  /\ pc' = [pc EXCEPT ![w] = "returned"]
  /\ batch' = [batch EXCEPT ![w] = {}]
  /\ toDelete' = [toDelete EXCEPT ![w] = {}]
  /\ owed' = [owed EXCEPT ![w] = {}]
  /\ UNCHANGED <<queue, cancelled, handled>>

\* A message's visibility timeout is over.
VisibilityTimeout(m) ==
  /\ holder[m] # Nobody
  /\ GiveBack(m)
  /\ UNCHANGED <<pc, cancelled, batch, toDelete, handled, owed>>

RunStep(w) ==
  \/ Return(w) \/ Receive(w) \/ ReceiveError(w) \/ NothingToDelete(w)
  \/ DeleteMessageBatch(w) \/ DeleteError(w) \/ Backoff(w)
  \/ \E m \in Message, ending \in Endings : Dispatch(w, m, ending)

Next ==
  \/ \E w \in Worker : RunStep(w) \/ Cancel(w) \/ Rerun(w) \/ Crash(w)
  \/ \E m \in Message : VisibilityTimeout(m)

Spec == Init /\ [][Next]_vars

\* Workers run and are run again, leases run out, and a message that is visible
\* again and again is received by somebody.
Fairness ==
  /\ \A w \in Worker : WF_vars(RunStep(w)) /\ WF_vars(Rerun(w))
  /\ \A m \in Message :
       /\ WF_vars(VisibilityTimeout(m))
       /\ SF_vars(\E w \in Worker : Receive(w) /\ m \in batch'[w])

FairSpec == Spec /\ Fairness

-----------------------------------------------------------------------------
\* The values each variable can hold.
TypeOK ==
  /\ QueueTypeOK
  /\ pc \in [Worker -> {"loop", "dispatch", "error", "returned"}]
  /\ cancelled \in [Worker -> BOOLEAN]
  /\ batch \in [Worker -> SUBSET Message]
  /\ toDelete \in [Worker -> SUBSET Message]
  /\ handled \subseteq Message
  /\ owed \in [Worker -> SUBSET Message]

\* "by default this consumer never deletes an unhandled message": whatever
\* expires, fails or is received by another worker in the meantime, a message
\* is deleted only if its handler succeeded or the settlement accepts that it
\* did not.
DeletedIsHandled == \A m \in gone : m \in handled \/ Waived(Delivery, m \in Unmatched)

\* "a graceful shutdown ... still acks the completed work": Run does not return
\* while it owes the queue a delete for a message it has settled.
ShutdownOwesNothing == \A w \in Worker : pc[w] = "returned" => owed[w] = {}

\* Every message leaves the queue in the end, deleted or dead-lettered, though
\* workers crash and stop at any time.
EventuallyGone == <>(Message \subseteq gone \union dead)
=============================================================================
