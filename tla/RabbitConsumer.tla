--------------------------- MODULE RabbitConsumer ---------------------------
(***************************************************************************)
(* The RabbitMQ consumer (rabbitmq/consumer.go): Run takes deliveries off  *)
(* a channel's stream and settles each one with an ack or a nack.  The     *)
(* broker and the amqp client (external) push up to Prefetch unsettled     *)
(* deliveries to a consumer; when its channel goes, whatever it has not    *)
(* settled is put back, marked redelivered, handled or not.                *)
(***************************************************************************)
EXTENDS Settlement, FiniteSets

CONSTANTS
  Message,
  Consumer,    \* consumer processes on the one queue
  Unmatched,   \* messages whose topic no handler serves
  Prefetch,    \* bound: unsettled deliveries a channel may have
  NoRequeue    \* Consumer.NoRequeue

VARIABLES
  ready,        \* broker: messages waiting in the queue
  redelivered,  \* broker: messages marked redelivered
  unsettled,    \* broker: per consumer, deliveries of its open channel not settled
  acked,        \* broker: messages done with
  dead,         \* broker: messages rejected without requeue (dropped or dead-lettered)
  open,         \* per consumer, whether its channel is up
  pc,           \* per consumer, where Run is
  buffer,       \* per consumer, deliveries in the stream's buffer
  current,      \* per consumer, the delivery being handled: at most one
  handled,      \* outside world: messages whose handler has succeeded
  requeues      \* history: nacks with requeue per message, up to 2

vars == <<ready, redelivered, unsettled, acked, dead, open, pc, buffer, current,
          handled, requeues>>
broker == <<ready, redelivered, unsettled, acked, dead>>
history == <<handled, requeues>>

\* A delivery: the message and the flag it was sent with.
DeliveryOf(m) == [msg |-> m, redelivered |-> m \in redelivered]
Deliver1 == [msg : Message, redelivered : BOOLEAN]

UpTo2(n) == IF n < 2 THEN n + 1 ELSE n

Init ==
  /\ ready = Message
  /\ redelivered = {}
  /\ unsettled = [c \in Consumer |-> {}]
  /\ acked = {}
  /\ dead = {}
  /\ open = [c \in Consumer |-> TRUE]
  /\ pc = [c \in Consumer |-> "select"]
  /\ buffer = [c \in Consumer |-> {}]
  /\ current = [c \in Consumer |-> {}]
  /\ handled = {}
  /\ requeues = [m \in Message |-> 0]

\* The broker pushes a message.
Push(c, m) ==
  /\ open[c]
  /\ m \in ready
  /\ Cardinality(unsettled[c]) < Prefetch
  /\ ready' = ready \ {m}
  /\ unsettled' = [unsettled EXCEPT ![c] = @ \union {m}]
  /\ buffer' = [buffer EXCEPT ![c] = @ \union {DeliveryOf(m)}]
  /\ UNCHANGED <<redelivered, acked, dead, open, pc, current, history>>

\* Run's select: a delivery.  It may come after the channel has gone, until the
\* client drops what it had buffered.
Take(c, d) ==
  /\ pc[c] = "select"
  /\ d \in buffer[c]
  /\ buffer' = [buffer EXCEPT ![c] = @ \ {d}]
  /\ current' = [current EXCEPT ![c] = {d}]
  /\ pc' = [pc EXCEPT ![c] = "handle"]
  /\ UNCHANGED <<broker, open, history>>

\* The broker's side of Ack: nothing, if the channel is gone.
Ack(c, m) ==
  IF open[c]
  THEN /\ unsettled' = [unsettled EXCEPT ![c] = @ \ {m}]
       /\ acked' = acked \union {m}
       /\ UNCHANGED <<ready, redelivered, dead>>
  ELSE UNCHANGED broker

\* The broker's side of Nack.
Nack(c, m, requeue) ==
  IF open[c]
  THEN /\ unsettled' = [unsettled EXCEPT ![c] = @ \ {m}]
       /\ ready' = IF requeue THEN ready \union {m} ELSE ready
       /\ redelivered' = IF requeue THEN redelivered \union {m} ELSE redelivered
       /\ dead' = IF requeue THEN dead ELSE dead \union {m}
       /\ UNCHANGED acked
  ELSE UNCHANGED broker

\* Wrong variant: every failure is requeued.
RequeueAlways(d) == ~NoRequeue

\* handle's requeue: once, unless NoRequeue.
Requeue(d) == ~NoRequeue /\ ~d.redelivered

\* Wrong variant: acks before it looks at the outcome.
HandleAcksFirst(c, d, ending) ==
  LET m == d.msg IN
  /\ pc[c] = "handle"
  /\ d \in current[c]
  /\ ending \in EndingsOf(m \in Unmatched)
  /\ handled' = IF ending = "success" THEN handled \union {m} ELSE handled
  /\ Ack(c, m)
  /\ current' = [current EXCEPT ![c] = {}]
  /\ pc' = [pc EXCEPT ![c] = "select"]
  /\ UNCHANGED <<open, buffer, requeues>>

\* handle: dispatch, then ack or nack.  Errors of the settlement are ignored.
Handle(c, d, ending) ==
  LET m == d.msg IN
  /\ pc[c] = "handle"
  /\ d \in current[c]
  /\ ending \in EndingsOf(m \in Unmatched)
  /\ handled' = IF ending = "success" THEN handled \union {m} ELSE handled
  /\ IF Acknowledge(Delivery, ending)
     THEN Ack(c, m) /\ UNCHANGED requeues
     ELSE /\ Nack(c, m, Requeue(d))
          /\ requeues' = IF Requeue(d) /\ open[c] THEN [requeues EXCEPT ![m] = UpTo2(@)]
                         ELSE requeues
  /\ current' = [current EXCEPT ![c] = {}]
  /\ pc' = [pc EXCEPT ![c] = "select"]
  /\ UNCHANGED <<open, buffer>>

\* The channel or its connection goes: unsettled deliveries go back, marked.
Drop(c) ==
  /\ open[c]
  /\ open' = [open EXCEPT ![c] = FALSE]
  /\ ready' = ready \union unsettled[c]
  /\ redelivered' = redelivered \union unsettled[c]
  /\ unsettled' = [unsettled EXCEPT ![c] = {}]
  /\ UNCHANGED <<acked, dead, pc, buffer, current, history>>

\* Run returns: its context is over, or the closed stream is drained or dropped.
Return(c) ==
  /\ pc[c] = "select"
  /\ pc' = [pc EXCEPT ![c] = "returned"]
  /\ UNCHANGED <<broker, open, buffer, current, history>>

\* The owner runs again, on a new channel; the old one is closed.
Reopen(c) ==
  /\ pc[c] = "returned"
  /\ ~open[c]
  /\ open' = [open EXCEPT ![c] = TRUE]
  /\ pc' = [pc EXCEPT ![c] = "select"]
  /\ buffer' = [buffer EXCEPT ![c] = {}]
  /\ UNCHANGED <<broker, current, history>>

Step(c) ==
  \/ \E d \in Deliver1 : Take(c, d) \/ \E ending \in Endings : Handle(c, d, ending)

Next ==
  \E c \in Consumer :
    \/ Step(c) \/ Drop(c) \/ Return(c) \/ Reopen(c)
    \/ \E m \in Message : Push(c, m)

Spec == Init /\ [][Next]_vars

\* No running consumer loses its channel or is told to stop.
Calm ==
  \A c \in Consumer :
    /\ pc[c] = "select" /\ open[c] => ~Drop(c) /\ ~Return(c)
    /\ pc[c] = "handle" => ~Drop(c)

\* The broker delivers, a running consumer runs, a returned one is run again on
\* a new channel, and channels are not lost for ever.
Fairness ==
  /\ \A c \in Consumer :
       /\ WF_vars(Step(c)) /\ WF_vars(Reopen(c)) /\ WF_vars(~open[c] /\ Return(c))
       /\ WF_vars(pc[c] = "returned" /\ Drop(c))
  /\ \A m \in Message : WF_vars(\E c \in Consumer : Push(c, m))
  /\ <>[][Calm]_vars

FairSpec == Spec /\ Fairness

-----------------------------------------------------------------------------
\* The values each variable can hold.
TypeOK ==
  /\ ready \subseteq Message
  /\ redelivered \subseteq Message
  /\ unsettled \in [Consumer -> SUBSET Message]
  /\ acked \subseteq Message
  /\ dead \subseteq Message
  /\ open \in [Consumer -> BOOLEAN]
  /\ pc \in [Consumer -> {"select", "handle", "returned"}]
  /\ buffer \in [Consumer -> SUBSET Deliver1]
  /\ current \in [Consumer -> SUBSET Deliver1]
  /\ handled \subseteq Message
  /\ requeues \in [Message -> 0..2]

\* The broker is told to forget a message only when it was handled or its
\* failure is accepted, whatever is buffered, dropped and delivered again.
AckedIsHandled == \A m \in acked : m \in handled \/ Waived(Delivery, m \in Unmatched)

\* "the requeue is BOUNDED to one retry": no message is requeued twice, across
\* consumers and channels.
RequeuedOnce == \A m \in Message : requeues[m] <= 1

\* Every message is acknowledged or rejected in the end: none loops for ever.
EventuallySettled == <>(Message \subseteq acked \union dead)
=============================================================================
