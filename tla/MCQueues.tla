------------------------------ MODULE MCQueues ------------------------------
(***************************************************************************)
(* The consumers of queues for TLC: SQS, Service Bus and RabbitMQ, several *)
(* workers on one queue each.  They share no state, so one run checks them *)
(* side by side: the first state picks a set-up, that consumer then runs   *)
(* alone.  SQS and Service Bus use the same variables of a leased queue.   *)
(***************************************************************************)
EXTENDS SQSConsumer

CONSTANTS
  Setups,    \* what runs, and how it is configured
  Prefetch   \* RabbitMQ: unsettled deliveries a channel may have

VARIABLES
  setup,
  \* Service Bus, besides the variables it shares with SQS
  current, failed,
  \* RabbitMQ
  ready, redelivered, unsettled, acked, rejected, open, rabbitPc, buffer, rabbitCurrent,
  rabbitHandled, requeues

-----------------------------------------------------------------------------
(***************************************************************************)
(* A set-up names the consumer that runs and its settings; SQS has those   *)
(* of this module.                                                         *)
(***************************************************************************)
Of(consumer) == {s \in Setups : s.consumer = consumer}

Bus(s) == INSTANCE ServiceBusWorker WITH
  IgnoreUnmatchedTopics <- s.ignore, AckMode <- s.ackMode

Rabbit(s) == INSTANCE RabbitConsumer WITH
  Consumer <- Worker, IgnoreUnmatchedTopics <- s.ignore, NoRequeue <- s.noRequeue,
  dead <- rejected, pc <- rabbitPc, current <- rabbitCurrent, handled <- rabbitHandled

\* The set-ups for TLC: SQS, Service Bus in either acknowledgement mode, and RabbitMQ.
Setup(consumer, ignore, ackMode) ==
  [consumer |-> consumer, ignore |-> ignore, ackMode |-> ackMode, noRequeue |-> FALSE]

MCSetups ==
  {Setup("sqs", FALSE, "AckModeAbandon"),
   Setup("service bus", TRUE, "AckModeAbandon"),
   Setup("service bus", FALSE, "AckModeDeadLetter"),
   Setup("rabbit", TRUE, "AckModeAbandon")}

-----------------------------------------------------------------------------
busVars == <<queue, pc, cancelled, batch, current, handled, failed, owed>>
rabbitVars == <<ready, redelivered, unsettled, acked, rejected, open, rabbitPc, buffer,
                rabbitCurrent, rabbitHandled, requeues>>
all == <<setup, vars, current, failed, rabbitVars>>

MCInit ==
  \E s \in Setups :
    /\ setup = s
    /\ Init /\ Bus(s)!Init /\ Rabbit(s)!Init

\* A step of the consumer that runs, which is one of these three.
OneOf(sqs, bus(_), rabbit(_)) ==
  /\ UNCHANGED setup
  /\ \E s \in Setups :
       /\ setup = s
       /\ \/ s.consumer = "sqs" /\ sqs /\ UNCHANGED <<current, failed, rabbitVars>>
          \/ s.consumer = "service bus" /\ bus(s) /\ UNCHANGED <<toDelete, rabbitVars>>
          \/ s.consumer = "rabbit" /\ rabbit(s) /\ UNCHANGED <<vars, current, failed>>

MCNext == OneOf(Next, LAMBDA s : Bus(s)!Next, LAMBDA s : Rabbit(s)!Next)

\* The fairness of the consumer that runs, as its own module states it.
MCFairness ==
  /\ \A w \in Worker :
       /\ WF_all(OneOf(RunStep(w), LAMBDA s : Bus(s)!RunStep(w), LAMBDA s : Rabbit(s)!Step(w)))
       /\ WF_all(OneOf(Rerun(w), LAMBDA s : Bus(s)!Rerun(w), LAMBDA s : Rabbit(s)!Reopen(w)))
       /\ WF_all(OneOf(FALSE, LAMBDA s : FALSE, LAMBDA s : ~open[w] /\ Rabbit(s)!Return(w)))
       /\ WF_all(OneOf(FALSE, LAMBDA s : FALSE,
                       LAMBDA s : rabbitPc[w] = "returned" /\ Rabbit(s)!Drop(w)))
  /\ \A m \in Message :
       /\ WF_all(OneOf(VisibilityTimeout(m), LAMBDA s : Bus(s)!LockExpires(m),
                       LAMBDA s : \E w \in Worker : Rabbit(s)!Push(w, m)))
       /\ SF_all(OneOf(\E w \in Worker : Receive(w) /\ m \in batch'[w],
                       LAMBDA s : \E w \in Worker : Bus(s)!Receive(w) /\ m \in batch'[w],
                       LAMBDA s : FALSE))
  /\ <>[][\A s \in Of("rabbit") : setup = s => Rabbit(s)!Calm]_all

MCSpec == MCInit /\ [][MCNext]_all /\ MCFairness

-----------------------------------------------------------------------------
\* The values each variable of each consumer can hold.
MCTypeOK ==
  /\ setup.consumer = "sqs" => TypeOK
  /\ \A s \in Of("service bus") : setup = s => Bus(s)!TypeOK
  /\ \A s \in Of("rabbit") : setup = s => Rabbit(s)!TypeOK

\* A message leaves the queue, deleted, completed or acknowledged, only if its
\* handler succeeded or the settlement accepts that it did not.
GoneIsHandled ==
  /\ setup.consumer = "sqs" => DeletedIsHandled
  /\ \A s \in Of("service bus") : setup = s => Bus(s)!CompletedIsHandled
  /\ \A s \in Of("rabbit") : setup = s => Rabbit(s)!AckedIsHandled

\* SQS and Service Bus: Run does not return while it owes the queue a delete, or
\* with a handled message it has not tried to settle.
NothingOwedOnReturn ==
  /\ setup.consumer = "sqs" => ShutdownOwesNothing
  /\ \A s \in Of("service bus") : setup = s => Bus(s)!ShutdownOwesNothing

\* The variables keep their types, and no message is lost: neither by leaving the
\* queue unhandled nor by a shutdown that forgets what it owes.
NothingIsLost == MCTypeOK /\ GoneIsHandled /\ NothingOwedOnReturn

\* Service Bus dead-letters a message by its delivery count, or under
\* AckModeDeadLetter because it failed; RabbitMQ puts no message back twice,
\* across consumers and channels.
SetAsideIsEarned ==
  /\ \A s \in Of("service bus") : setup = s => Bus(s)!QuarantineIsEarned
  /\ \A s \in Of("rabbit") : setup = s => Rabbit(s)!RequeuedOnce

\* Every message leaves the queue in the end: none loops for ever, though
\* workers crash and stop, leases run out and channels go.
AllDrained ==
  <>(Message \subseteq IF setup.consumer = "rabbit" THEN acked \union rejected ELSE gone \union dead)
=============================================================================
