----------------------------- MODULE MCStreams ------------------------------
(***************************************************************************)
(* The ordered-stream consumers for TLC: Event Hubs, Kafka, the Cosmos DB  *)
(* change feed and the Lambda stream handlers.  They share no state, so    *)
(* one run checks them side by side: the first state picks a set-up, that  *)
(* consumer then runs alone and the others stay where they started.  A     *)
(* consumer met under two settings has two instances over the same         *)
(* variables.                                                              *)
(***************************************************************************)
EXTENDS EventHubConsumer

CONSTANTS
  Setups,      \* what runs, and how it is configured
  Partition, NMessages, Unserved,   \* Kafka and the Lambda handlers
  Poison,                           \* the Lambda handlers
  Last, Gaps                        \* Cosmos

VARIABLES
  setup,
  \* Kafka
  kafkaPc, kafkaCancelled, kafkaCursor, msg, committed, kafkaSettled, kafkaHandled,
  \* Cosmos
  cosmosPc, cosmosCancelled, start, continuation, page, durable, cosmosSettled, cosmosHandled,
  \* Lambda
  lambdaPc, todo, current, remaining, last, report, position, lambdaSettled, lambdaHandled

-----------------------------------------------------------------------------
(***************************************************************************)
(* A set-up names the consumer that runs and its settings.                 *)
(***************************************************************************)
Of(consumer) == {s \in Setups : s.consumer = consumer}

\* A consumer without a Checkpoint hook: only a running process can be checked.
EventHubNoHook == INSTANCE EventHubConsumer WITH HasCheckpoint <- FALSE

Kafka(s) == INSTANCE KafkaConsumer WITH
  Delivery <- s.delivery, IgnoreUnmatchedTopics <- s.ignore, SameSource <- s.same,
  Unmatched <- Unserved,
  pc <- kafkaPc, cancelled <- kafkaCancelled, cursor <- kafkaCursor,
  settled <- kafkaSettled, handled <- kafkaHandled

Cosmos(s) == INSTANCE CosmosWorker WITH
  Delivery <- s.delivery, IgnoreUnmatchedTopics <- s.ignore,
  HasTopic <- s.topic, HasCheckpoint <- s.hook,
  pc <- cosmosPc, cancelled <- cosmosCancelled, settled <- cosmosSettled,
  handled <- cosmosHandled

Lambda(s) == INSTANCE StreamLambda WITH
  Delivery <- s.delivery, IgnoreUnmatchedTopics <- s.ignore,
  NRecords <- NMessages, Unmatched <- Unserved,
  pc <- lambdaPc, settled <- lambdaSettled, handled <- lambdaHandled

\* What the constants' comments say.  An owner who runs Kafka again on its Source has the
\* default settlement, which skips and continues (README.md, the finding on Kafka).
ASSUME StreamAssumption ==
  /\ NMessages \in Nat /\ Last \in Nat /\ Gaps \subseteq 1..Last
  /\ \A s \in Setups : s.hook \in BOOLEAN
  /\ \A s \in Of("kafka") : s.same => s.delivery \in {"AtMostOnce", "BindingDefault"}

\* The set-ups for TLC.  Event Hubs with a hook and without; Kafka with a new Source for every
\* run, and on one Source for ever; a feed with a handler and a hook, and with neither; a Lambda
\* function whose partitions stop at a poison record, and one whose never do.
Setup(consumer, delivery, ignore) ==
  [consumer |-> consumer, delivery |-> delivery, ignore |-> ignore,
   same |-> FALSE, topic |-> TRUE, hook |-> TRUE]

MCSetups ==
  {Setup("eventhub", "AtLeastOnce", TRUE),
   [Setup("eventhub", "AtLeastOnce", TRUE) EXCEPT !.hook = FALSE],
   Setup("kafka", "AtLeastOnce", TRUE),
   [Setup("kafka", "BindingDefault", FALSE) EXCEPT !.same = TRUE],
   Setup("cosmos", "BindingDefault", FALSE),
   [Setup("cosmos", "BindingDefault", TRUE) EXCEPT !.topic = FALSE, !.hook = FALSE],
   Setup("lambda", "AtLeastOnce", TRUE), Setup("lambda", "AtMostOnce", FALSE)}

MCPartition == {"orders", "audit"}
MCUnserved == {<<"audit", 1>>}
MCPoison == {<<"orders", 2>>}

-----------------------------------------------------------------------------
kafkaVars == <<kafkaPc, kafkaCancelled, kafkaCursor, msg, committed, kafkaSettled, kafkaHandled>>
cosmosVars == <<cosmosPc, cosmosCancelled, start, continuation, page, durable, cosmosSettled,
                cosmosHandled>>
lambdaVars == <<lambdaPc, todo, current, remaining, last, report, position, lambdaSettled,
                lambdaHandled>>
all == <<setup, vars, kafkaVars, cosmosVars, lambdaVars>>

MCInit ==
  \E s \in Setups :
    /\ setup = s
    /\ Init /\ Kafka(s)!Init /\ Cosmos(s)!Init /\ Lambda(s)!Init

EventHubStep(s) == IF s.hook THEN Next ELSE EventHubNoHook!Next

MCNext ==
  /\ UNCHANGED setup
  /\ \E s \in Setups :
       /\ setup = s
       /\ \/ s.consumer = "eventhub" /\ EventHubStep(s) /\ UNCHANGED <<kafkaVars, cosmosVars, lambdaVars>>
          \/ s.consumer = "kafka" /\ Kafka(s)!Next /\ UNCHANGED <<vars, cosmosVars, lambdaVars>>
          \/ s.consumer = "cosmos" /\ Cosmos(s)!Next /\ UNCHANGED <<vars, kafkaVars, lambdaVars>>
          \/ s.consumer = "lambda" /\ Lambda(s)!Next /\ UNCHANGED <<vars, kafkaVars, cosmosVars>>

\* The fairness of the consumer that runs.
MCFairness ==
  \/ setup.consumer = "eventhub" /\ (setup.hook => Fairness)
  \/ \E s \in Of("kafka") : setup = s /\ Kafka(s)!Fairness
  \/ \E s \in Of("cosmos") : setup = s /\ Cosmos(s)!Fairness
  \/ \E s \in Of("lambda") : setup = s /\ Lambda(s)!Fairness

MCSpec == MCInit /\ [][MCNext]_all /\ MCFairness

-----------------------------------------------------------------------------
\* The consumer that runs keeps its variables' types, and for Kafka, Cosmos and Lambda no
\* position that outlives the process covers a record that was neither handled nor waived:
\* not a committed offset, not the stored continuation token nor the one in hand, not what a
\* batch response moves an event source mapping to.
PositionsCover ==
  /\ TypeOK
  /\ \A s \in Of("kafka") : setup = s => Kafka(s)!TypeOK /\ Kafka(s)!CommittedCovers
  /\ \A s \in Of("cosmos") : setup = s =>
       Cosmos(s)!TypeOK /\ Cosmos(s)!DurableCovers /\ Cosmos(s)!TokenCovers
  /\ \A s \in Of("lambda") : setup = s => Lambda(s)!TypeOK /\ Lambda(s)!PositionCovers

StreamsStart(s) ==
  /\ s.consumer = "kafka" => Kafka(s)!StreamsStart
  /\ s.consumer = "cosmos" => Cosmos(s)!Stream!Init
  /\ s.consumer = "lambda" => Lambda(s)!StreamsStart

StreamsStep(s) ==
  /\ s.consumer = "kafka" => Kafka(s)!StreamsStep /\ Kafka(s)!CommitForward
  /\ s.consumer = "cosmos" => [Cosmos(s)!Stream!Next]_(Cosmos(s)!Stream!vars)
  /\ s.consumer = "lambda" => Lambda(s)!StreamsStep

\* Kafka, Cosmos, Lambda: every partition is an ordered stream, with a hook or
\* without, and an offset is never committed backwards.
OthersAreOrdered ==
  /\ \A s \in Setups : setup = s => StreamsStart(s)
  /\ [][\A s \in Setups : setup = s => StreamsStep(s)]_all

\* Every record is settled in the end, whatever failed before; the default
\* settlement gets past messages that can never succeed, and a Lambda partition
\* stuck behind a poison record does not stop the others.
EverythingSettles ==
  /\ setup.consumer = "eventhub" /\ setup.hook => EventuallySettled
  /\ \A s \in Of("kafka") : setup = s => Kafka(s)!EventuallySettled
  /\ \A s \in Of("cosmos") : setup = s => Cosmos(s)!EventuallySettled
  /\ \A s \in Of("lambda") : setup = s => Lambda(s)!OthersProceed
=============================================================================
