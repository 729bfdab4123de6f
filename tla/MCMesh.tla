------------------------------- MODULE MCMesh -------------------------------
(***************************************************************************)
(* The mesh: the trace feed's exporter and the announcer on the    *)
(* service side, the store on the collector's side.  They meet only over   *)
(* HTTP and share no state, so one run checks them side by side: the first *)
(* state picks one, which then runs alone while the others stay where they *)
(* started.                                                                *)
(*   exporter   a channel and batches smaller than the events that arrive, *)
(*              two callers of Close                                       *)
(*   announcer  two processes of one service on different deploys          *)
(*   collector  two services whose events call each other, an event nobody *)
(*              owns and one without a span, two topics of which one is    *)
(*              reserved, contracts that grow, shrink and leave members    *)
(*              unknown, a ring that wraps                                 *)
(***************************************************************************)
EXTENDS PushFeed

CONSTANTS
  none,              \* no name, no registration
  Instance, Doc, DocOf, RegisterAttempts, MaxRestarts,
  Service, Topic, Reserved, Span, Event, Document, Capacity,
  MaxTraced          \* bound: how many events the collector ingests

VARIABLES
  setup,
  \* Announcer
  pc, attempt, registered, cancelled, up, contract, health, restarts,
  \* Collector
  log, ring, next, spanService, registration, providers, consumers,
  providerSeen, consumerSeen, drift

-----------------------------------------------------------------------------
Announcers == INSTANCE Announcer WITH NoDoc <- none

Store == INSTANCE Collector WITH None <- none, MaxEvents <- MaxTraced

\* What the constants' comments say: names and documents are not empty, an announcer and a
\* ring have room for one.
ASSUME MeshAssumption ==
  /\ none \notin Doc \cup Service \cup Span /\ none \notin Store!DocumentType
  /\ DocOf \in [Instance -> Doc] /\ RegisterAttempts \in Nat \ {0} /\ MaxRestarts \in Nat
  /\ Reserved \subseteq Topic /\ Event \subseteq Store!EventType /\ Document \subseteq Store!DocumentType
  /\ Capacity \in Nat \ {0} /\ MaxTraced \in Nat

\* The values of the constants for TLC.
Deploys == [i \in {"first", "second"} |-> IF i = "first" THEN "deploy 1" ELSE "deploy 2"]

TraceEvent(service, topic, span, parent) ==
  [service |-> service, topic |-> topic, span |-> span, parent |-> parent]

FlowEvents ==
  {TraceEvent("web", "orders", "s1", none), TraceEvent("shop", "orders", "s2", "s1"),
   TraceEvent("web", "probe", "s3", "s2"), TraceEvent(none, "orders", none, "s2")}

Claims(requests, requestsKnown, produces, producesKnown) ==
  [requests |-> requests, requestsKnown |-> requestsKnown,
   produces |-> produces, producesKnown |-> producesKnown]

Contracts ==
  {Claims({"orders", "probe"}, TRUE, {}, TRUE), Claims({}, TRUE, {"orders"}, TRUE),
   Claims({}, FALSE, {"probe"}, FALSE)}

-----------------------------------------------------------------------------
announcerVars == <<pc, attempt, registered, cancelled, up, contract, health, restarts>>
collectorVars == <<log, ring, next, spanService, registration, providers, consumers,
                   providerSeen, consumerSeen, drift>>
all == <<setup, vars, announcerVars, collectorVars>>

MCInit ==
  /\ setup \in {"exporter", "announcer", "collector"}
  /\ Init /\ Announcers!Init /\ Store!Init

MCNext ==
  /\ UNCHANGED setup
  /\ \/ setup = "exporter" /\ Next /\ UNCHANGED <<announcerVars, collectorVars>>
     \/ setup = "announcer" /\ Announcers!Next /\ UNCHANGED <<vars, collectorVars>>
     \/ setup = "collector" /\ Store!Next /\ UNCHANGED <<vars, announcerVars>>

\* The fairness of the part that runs.
MCFairness ==
  \/ setup = "exporter" /\ Fairness
  \/ setup = "announcer" /\ Announcers!Fairness
  \/ setup = "collector"

MCSpec == MCInit /\ [][MCNext]_all /\ MCFairness

-----------------------------------------------------------------------------
\* An instance stops registering only once the collector has had the contract.
RegisteredMeansKnown == Announcers!RegisteredMeansKnown

\* The comment on Run: a collector that restarts and forgets the fleet learns
\* the contract again.
CollectorRelearns == setup = "announcer" => Announcers!CollectorRelearns

\* The window is the newest events in order, and the index finds every owned span
\* in it that arrived once and names no owner from outside it.
WindowIsIndexed == Store!RingIsNewest /\ Store!IndexNamesOwner /\ Store!MirrorsRing

\* What the collector says of the fleet is true: the graph is what the latest
\* registrations claim, an observed sender did send, and contract drift is charged
\* on evidence.
GraphIsTrue == Store!GraphIsDeclared /\ Store!SendersAreTrue /\ Store!DriftHasEvidence

\* Close returns; an instance that keeps running is registered in the end; Run
\* returns once its context is over.
MeshProceeds ==
  /\ setup = "exporter" => CloseReturns
  /\ setup = "announcer" => Announcers!EventuallyRegistered /\ Announcers!CancelStops
=============================================================================
