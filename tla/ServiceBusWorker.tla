-------------------------- MODULE ServiceBusWorker --------------------------
(***************************************************************************)
(* The self-hosted Service Bus worker (azureservicebus/worker.go): Run     *)
(* receives a batch and dispatches and settles its messages one by one, on *)
(* a context a shutdown does not cancel.  The locks of the whole batch run *)
(* from the receive on, so that a message's lock may be lost while earlier *)
(* messages are handled; settling it then fails.                           *)
(***************************************************************************)
EXTENDS LeasedQueue

CONSTANT AckMode   \* Worker.AckMode

VARIABLES
  pc,          \* per worker, where Run is
  cancelled,   \* per worker, ctx.Err() # nil
  batch,       \* per worker, received messages still to dispatch
  current,     \* per worker, the message to settle and its outcome: at most one
  handled,     \* outside world: messages whose handler has succeeded
  failed,      \* history: messages whose handler has failed
  owed         \* history: per worker, dispatched messages no settlement was tried for

vars == <<queue, pc, cancelled, batch, current, handled, failed, owed>>

Outcome == [msg : Message, ending : Endings]

Init ==
  /\ QueueInit
  /\ pc = [w \in Worker |-> "loop"]
  /\ cancelled = [w \in Worker |-> FALSE]
  /\ batch = [w \in Worker |-> {}]
  /\ current = [w \in Worker |-> {}]
  /\ handled = {}
  /\ failed = {}
  /\ owed = [w \in Worker |-> {}]

\* Shutdown is requested, at any time.
Cancel(w) ==
  /\ ~cancelled[w]
  /\ pc[w] # "returned"
  /\ cancelled' = [cancelled EXCEPT ![w] = TRUE]
  /\ UNCHANGED <<queue, pc, batch, current, handled, failed, owed>>

\* Run looks at its context between two polls and after a failed one.
Return(w) ==
  /\ pc[w] \in {"loop", "error"}
  /\ cancelled[w]
  /\ pc' = [pc EXCEPT ![w] = "returned"]
  /\ UNCHANGED <<queue, cancelled, batch, current, handled, failed, owed>>

\* ReceiveMessages returns a batch, possibly an empty one.
Receive(w) ==
  /\ pc[w] = "loop"
  /\ \E received \in SUBSET Visible :
       /\ Lease(w, received)
       /\ batch' = [batch EXCEPT ![w] = received]
  /\ pc' = [pc EXCEPT ![w] = "dispatch"]
  /\ UNCHANGED <<cancelled, current, handled, failed, owed>>

\* ReceiveMessages fails.  Messages may have been locked for a lost answer.
ReceiveError(w) ==
  /\ pc[w] = "loop"
  /\ \E lost \in SUBSET Visible : Lease(w, lost)
  /\ pc' = [pc EXCEPT ![w] = "error"]
  /\ UNCHANGED <<cancelled, batch, current, handled, failed, owed>>

\* The next message of the batch is dispatched, its lock running or not.
Dispatch(w, m, ending) ==
  /\ pc[w] = "dispatch"
  /\ m \in batch[w]
  /\ ending \in EndingsOf(m \in Unmatched)
  /\ batch' = [batch EXCEPT ![w] = @ \ {m}]
  /\ current' = [current EXCEPT ![w] = {[msg |-> m, ending |-> ending]}]
  /\ handled' = IF ending = "success" THEN handled \union {m} ELSE handled
  /\ failed' = IF ending = "success" THEN failed ELSE failed \union {m}
  /\ owed' = [owed EXCEPT ![w] = @ \union {m}]
  /\ pc' = [pc EXCEPT ![w] = "settle"]
  /\ UNCHANGED <<queue, cancelled>>

\* Wrong variant: a message that is not acknowledged is always dead-lettered.
SettleQuarantines(w, o) ==
  IF Acknowledge(Delivery, o.ending) THEN Remove({o.msg}) ELSE MoveAside(o.msg)

\* The call settle makes, when the lock still runs and the call gets through.
Settle(w, o) ==
  IF Acknowledge(Delivery, o.ending) THEN Remove({o.msg})
  ELSE IF AckMode = "AckModeDeadLetter" THEN MoveAside(o.msg)
  ELSE GiveBack(o.msg)

\* Wrong variant: the rest of the batch is skipped after a shutdown.
SettledStopsOnCancel(w) ==
  /\ current' = [current EXCEPT ![w] = {}]
  /\ pc' = [pc EXCEPT ![w] = IF cancelled[w] THEN "returned" ELSE "dispatch"]
  /\ owed' = [owed EXCEPT ![w] = {}]
  /\ UNCHANGED <<cancelled, batch, handled, failed>>

\* settle returns, errors swallowed, and poll's loop goes on.
Settled(w) ==
  /\ current' = [current EXCEPT ![w] = {}]
  /\ pc' = [pc EXCEPT ![w] = "dispatch"]
  /\ owed' = [owed EXCEPT ![w] = {}]
  /\ UNCHANGED <<cancelled, batch, handled, failed>>

SettleMessage(w, o) ==
  /\ pc[w] = "settle"
  /\ o \in current[w]
  /\ holder[o.msg] = w
  /\ Settle(w, o)
  /\ Settled(w)

\* The lock is lost, or the call does not get through.
SettleError(w, o) ==
  /\ pc[w] = "settle"
  /\ o \in current[w]
  /\ UNCHANGED queue
  /\ Settled(w)

\* The batch is done: poll returns nil.
EndPoll(w) ==
  /\ pc[w] = "dispatch"
  /\ batch[w] = {}
  /\ pc' = [pc EXCEPT ![w] = "loop"]
  /\ UNCHANGED <<queue, cancelled, batch, current, handled, failed, owed>>

\* Run sleeps after an error and polls again.
Backoff(w) ==
  /\ pc[w] = "error"
  /\ ~cancelled[w]
  /\ pc' = [pc EXCEPT ![w] = "loop"]
  /\ UNCHANGED <<queue, cancelled, batch, current, handled, failed, owed>>

\* Run is called again, in this process or in a new one after a crash.
Rerun(w) ==
  /\ pc[w] = "returned"
  /\ pc' = [pc EXCEPT ![w] = "loop"]
  /\ cancelled' = [cancelled EXCEPT ![w] = FALSE]
  /\ UNCHANGED <<queue, batch, current, handled, failed, owed>>

\* The worker's process dies: what it held comes back when the locks run out.
Crash(w) ==
  /\ pc[w] # "returned"
  /\ pc' = [pc EXCEPT ![w] = "returned"]
  /\ batch' = [batch EXCEPT ![w] = {}]
  /\ current' = [current EXCEPT ![w] = {}]
  /\ owed' = [owed EXCEPT ![w] = {}]
  /\ UNCHANGED <<queue, cancelled, handled, failed>>

\* A message's lock runs out.
LockExpires(m) ==
  /\ holder[m] # Nobody
  /\ GiveBack(m)
  /\ UNCHANGED <<pc, cancelled, batch, current, handled, failed, owed>>

RunStep(w) ==
  \/ Return(w) \/ Receive(w) \/ ReceiveError(w) \/ EndPoll(w) \/ Backoff(w)
  \/ \E m \in Message, ending \in Endings : Dispatch(w, m, ending)
  \/ \E o \in Outcome : SettleMessage(w, o) \/ SettleError(w, o)

Next ==
  \/ \E w \in Worker : RunStep(w) \/ Cancel(w) \/ Rerun(w) \/ Crash(w)
  \/ \E m \in Message : LockExpires(m)

Spec == Init /\ [][Next]_vars

\* Workers run and are run again, locks run out, and a message that is visible
\* again and again is received by somebody.
Fairness ==
  /\ \A w \in Worker : WF_vars(RunStep(w)) /\ WF_vars(Rerun(w))
  /\ \A m \in Message :
       /\ WF_vars(LockExpires(m))
       /\ SF_vars(\E w \in Worker : Receive(w) /\ m \in batch'[w])

FairSpec == Spec /\ Fairness

-----------------------------------------------------------------------------
\* The values each variable can hold.
TypeOK ==
  /\ QueueTypeOK
  /\ pc \in [Worker -> {"loop", "dispatch", "settle", "error", "returned"}]
  /\ cancelled \in [Worker -> BOOLEAN]
  /\ batch \in [Worker -> SUBSET Message]
  /\ current \in [Worker -> SUBSET Outcome]
  /\ handled \subseteq Message
  /\ failed \subseteq Message
  /\ owed \in [Worker -> SUBSET Message]

\* "by default this Worker never completes an unhandled message", though its
\* lock was lost and another worker had it in between.
CompletedIsHandled == \A m \in gone : m \in handled \/ Waived(Delivery, m \in Unmatched)

\* "Benzene never quarantines a message itself" under AckModeAbandon, and under
\* AckModeDeadLetter it quarantines only what failed: any other message in the
\* dead-letter queue was put there by the entity's delivery count.
QuarantineIsEarned ==
  \A m \in dead : \/ receives[m] = MaxReceives
                  \/ AckMode = "AckModeDeadLetter" /\ m \in failed

\* "a graceful shutdown ... still acks the completed work": Run does not return
\* with a dispatched message it has not tried to settle, nor with a received
\* one it has not dispatched.
ShutdownOwesNothing ==
  \A w \in Worker : pc[w] = "returned" => owed[w] = {} /\ batch[w] = {}

\* Every message leaves the queue in the end, completed or dead-lettered.
EventuallyGone == <>(Message \subseteq gone \union dead)
=============================================================================
