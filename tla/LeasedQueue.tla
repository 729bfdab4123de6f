---------------------------- MODULE LeasedQueue -----------------------------
(***************************************************************************)
(* A queue that leases messages (external: SQS and Service Bus, as the     *)
(* consumers of this repository use them).  A received message is hidden   *)
(* from the others until it is settled or its lease runs out: SQS calls    *)
(* this the visibility timeout, Service Bus the message lock.  A message   *)
(* received MaxReceives times and not settled is moved aside by the        *)
(* queue's own redrive policy.                                             *)
(***************************************************************************)
EXTENDS Settlement, FiniteSets

CONSTANTS
  Message,
  Worker,        \* consumer processes on the queue
  Unmatched,     \* messages whose topic no handler serves
  MaxMessages,   \* messages one receive may return
  MaxReceives,   \* the redrive policy's receive count
  Nobody         \* the holder of a message that is not leased

ASSUME LeasedQueueAssumption ==
  /\ Unmatched \subseteq Message
  /\ MaxMessages \in Nat \ {0}
  /\ MaxReceives \in Nat \ {0}
  /\ Nobody \notin Worker

VARIABLES
  holder,    \* the worker whose lease on the message is running
  receives,  \* how often the message has been received
  gone,      \* messages deleted, or completed
  dead       \* messages in the dead-letter queue

queue == <<holder, receives, gone, dead>>

QueueInit ==
  /\ holder = [m \in Message |-> Nobody]
  /\ receives = [m \in Message |-> 0]
  /\ gone = {}
  /\ dead = {}

Visible == {m \in Message \ (gone \union dead) : holder[m] = Nobody}

\* Some visible messages are leased to a worker.
Lease(w, batch) ==
  /\ batch \subseteq Visible
  /\ Cardinality(batch) <= MaxMessages
  /\ holder' = [m \in Message |-> IF m \in batch THEN w ELSE holder[m]]
  /\ receives' = [m \in Message |-> IF m \in batch THEN receives[m] + 1 ELSE receives[m]]
  /\ UNCHANGED <<gone, dead>>

\* Messages are removed for good.
Remove(removed) ==
  /\ gone' = gone \union (removed \ dead)
  /\ holder' = [m \in Message |-> IF m \in removed THEN Nobody ELSE holder[m]]
  /\ UNCHANGED <<receives, dead>>

\* Wrong variant: the redrive policy counts one receive too many.
GiveBackLate(m) ==
  /\ holder' = [holder EXCEPT ![m] = Nobody]
  /\ dead' = IF receives[m] > MaxReceives THEN dead \union {m} ELSE dead
  /\ UNCHANGED <<receives, gone>>

\* A lease ends with the message unsettled: it is visible again, unless it has
\* been received too often.
GiveBack(m) ==
  /\ holder' = [holder EXCEPT ![m] = Nobody]
  /\ dead' = IF receives[m] = MaxReceives THEN dead \union {m} ELSE dead
  /\ UNCHANGED <<receives, gone>>

\* A message is moved aside at a worker's request.
MoveAside(m) ==
  /\ holder' = [holder EXCEPT ![m] = Nobody]
  /\ dead' = dead \union {m}
  /\ UNCHANGED <<receives, gone>>

QueueTypeOK ==
  /\ holder \in [Message -> Worker \union {Nobody}]
  /\ receives \in [Message -> 0..MaxReceives]
  /\ gone \subseteq Message
  /\ dead \subseteq Message
=============================================================================
