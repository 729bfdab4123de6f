----------------------------- MODULE Collector -----------------------------
(***************************************************************************)
(* The mesh collector's store (meshd/store.go): registered contracts and   *)
(* the declared graph, a bounded ring of trace events with an index from   *)
(* span to service, the edges traffic was seen on, and the contract-drift  *)
(* issues the collector derives itself.  Every operation holds the store's *)
(* mutex, so each is one step; a trace batch is its events one after       *)
(* another, which no query can tell from the same events in batches of     *)
(* one.  Times are left out (an edge is seen or not), and so are the       *)
(* invocation, status and duration totals.                                 *)
(***************************************************************************)
EXTENDS Integers, Sequences

CONSTANTS
  Service,    \* service names
  Topic,      \* topics with their version
  Reserved,   \* the benzene: topics among them
  Span,       \* span ids
  None,       \* an empty string, a missing registration
  Event,      \* trace events that may arrive
  Document,   \* Contract Documents that may be registered
  Capacity,   \* Options.MaxTraceEvents
  MaxEvents   \* bound: how many events arrive

EventType ==
  [service : Service \cup {None}, topic : Topic, span : Span \cup {None},
   parent : Span \cup {None}]

\* known is FALSE for a member that is absent or named in degraded.
DocumentType ==
  [requests : SUBSET Topic, requestsKnown : BOOLEAN,
   produces : SUBSET Topic, producesKnown : BOOLEAN]

VARIABLES
  log,           \* every event ingested, oldest first (history)
  ring,          \* the last events
  next,          \* the overwrite cursor
  spanService,   \* the owner of a span, None when the span is not indexed
  registration,  \* the current contract of each service
  providers,     \* the declared graph: who provides each topic
  consumers,     \* and who consumes it
  providerSeen,  \* the observed edges
  consumerSeen,
  drift          \* occurrences of contract drift, per service and topic

storeVars == <<registration, providers, consumers>>
traceVars == <<log, ring, next, spanService, providerSeen, consumerSeen, drift>>
vars == <<storeVars, traceVars>>

Init ==
  /\ log = <<>>
  /\ ring = <<>>
  /\ next = 0
  /\ spanService = [s \in Span |-> None]
  /\ registration = [s \in Service |-> None]
  /\ providers = [t \in Topic |-> {}]
  /\ consumers = [t \in Topic |-> {}]
  /\ providerSeen = [t \in Topic |-> {}]
  /\ consumerSeen = [t \in Topic |-> {}]
  /\ drift = [s \in Service |-> [t \in Topic |-> 0]]

\* newRegistration: the benzene: entries of a document claim nothing.
newRegistration(doc) ==
  [doc EXCEPT !.requests = @ \ Reserved, !.produces = @ \ Reserved]

\* Wrong variant: claims are added and the old ones stay.
RegisterAdds(s, doc) ==
  LET reg == newRegistration(doc) IN
  /\ registration' = [registration EXCEPT ![s] = reg]
  /\ consumers' = [t \in Topic |-> IF t \in reg.requests THEN consumers[t] \cup {s} ELSE consumers[t]]
  /\ providers' = [t \in Topic |-> IF t \in reg.produces THEN providers[t] \cup {s} ELSE providers[t]]
  /\ UNCHANGED traceVars

\* store.register: the service's old claims go, the document's come.
Register(s, doc) ==
  LET reg == newRegistration(doc) IN
  /\ registration' = [registration EXCEPT ![s] = reg]
  /\ consumers' = [t \in Topic |-> (consumers[t] \ {s}) \cup {x \in {s} : t \in reg.requests}]
  /\ providers' = [t \in Topic |-> (providers[t] \ {s}) \cup {x \in {s} : t \in reg.produces}]
  /\ UNCHANGED traceVars

\* Wrong variant: the cursor wraps one slot late.
RecordSpanWrapsLate(e) ==
  LET full == Len(ring) >= Capacity
      gone == IF full THEN ring[next + 1].span ELSE None
  IN
  /\ ring' = IF full THEN [ring EXCEPT ![next + 1] = e] ELSE Append(ring, e)
  /\ next' = IF full THEN IF next + 1 >= Capacity THEN Capacity - 1 ELSE next + 1 ELSE next
  /\ spanService' =
       [s \in Span |->
          IF s = e.span /\ e.service # None THEN e.service
          ELSE IF s = gone THEN None ELSE spanService[s]]

\* Wrong variant: the cursor moves before the evicted event is looked up.
RecordSpanEvictsNext(e) ==
  LET full == Len(ring) >= Capacity
      gone == IF full THEN ring[((next + 1) % Capacity) + 1].span ELSE None
  IN
  /\ ring' = IF full THEN [ring EXCEPT ![next + 1] = e] ELSE Append(ring, e)
  /\ next' = IF full THEN (next + 1) % Capacity ELSE next
  /\ spanService' =
       [s \in Span |->
          IF s = e.span /\ e.service # None THEN e.service
          ELSE IF s = gone THEN None ELSE spanService[s]]

\* Wrong variant: an event that leaves the ring stays in the index.
RecordSpanNoEvict(e) ==
  LET full == Len(ring) >= Capacity IN
  /\ ring' = IF full THEN [ring EXCEPT ![next + 1] = e] ELSE Append(ring, e)
  /\ next' = IF full THEN (next + 1) % Capacity ELSE next
  /\ spanService' =
       [s \in Span |-> IF s = e.span /\ e.service # None THEN e.service ELSE spanService[s]]

\* store.recordSpan: append, or overwrite the oldest slot and drop its span.
recordSpan(e) ==
  LET full == Len(ring) >= Capacity
      gone == IF full THEN ring[next + 1].span ELSE None
  IN
  /\ ring' = IF full THEN [ring EXCEPT ![next + 1] = e] ELSE Append(ring, e)
  /\ next' = IF full THEN (next + 1) % Capacity ELSE next
  /\ spanService' =
       [s \in Span |->
          IF s = e.span /\ e.service # None THEN e.service
          ELSE IF s = gone THEN None ELSE spanService[s]]

\* store.checkHandlerDrift: e.service handled a topic its contract does not list.
HandlerDrift(e) ==
  /\ e.service # None
  /\ e.topic \notin Reserved
  /\ registration[e.service] # None
  /\ registration[e.service].requestsKnown
  /\ e.topic \notin registration[e.service].requests

\* Wrong variant: the event's own service is taken for its caller.
CallerIsOwner(e, index) ==
  IF e.parent = None \/ index[e.parent] = None THEN None ELSE e.service

\* Who sent e, as far as the index knows once e itself is in it.
Caller(e, index) ==
  IF e.parent = None \/ index[e.parent] = e.service THEN None ELSE index[e.parent]

\* Wrong variant: a caller that never registered has drifted too.
SenderDriftUnregistered(e, caller) ==
  /\ caller # None
  /\ e.topic \notin Reserved
  /\ \/ registration[caller] = None
     \/ /\ registration[caller].producesKnown
        /\ e.topic \notin registration[caller].produces

\* store.checkSenderDrift, the same for the service that sent it.
SenderDrift(e, caller) ==
  /\ caller # None
  /\ e.topic \notin Reserved
  /\ registration[caller] # None
  /\ registration[caller].producesKnown
  /\ e.topic \notin registration[caller].produces

\* store.addEvents, for one event.
AddEvent(e) ==
  LET caller == Caller(e, spanService')
      Occurrences(s) ==
        (IF s = e.service /\ HandlerDrift(e) THEN 1 ELSE 0)
          + (IF s = caller /\ SenderDrift(e, caller) THEN 1 ELSE 0)
  IN
  /\ Len(log) < MaxEvents
  /\ log' = Append(log, e)
  /\ recordSpan(e)
  /\ consumerSeen' = [consumerSeen EXCEPT ![e.topic] = @ \cup ({e.service} \ {None})]
  /\ providerSeen' = [providerSeen EXCEPT ![e.topic] = @ \cup ({caller} \ {None})]
  /\ drift' = [s \in Service |-> [drift[s] EXCEPT ![e.topic] = @ + Occurrences(s)]]
  /\ UNCHANGED storeVars

Next ==
  \/ \E s \in Service, doc \in Document : Register(s, doc)
  \/ \E e \in Event : AddEvent(e)

Spec == Init /\ [][Next]_vars
-----------------------------------------------------------------------------
\* The values each variable can hold; the cursor moves only over a full ring.
TypeOK ==
  /\ log \in Seq(EventType)
  /\ ring \in Seq(EventType) /\ Len(ring) <= Capacity
  /\ next \in 0..(Capacity - 1)
  /\ Len(ring) < Capacity => next = 0
  /\ spanService \in [Span -> Service \cup {None}]
  /\ registration \in [Service -> DocumentType \cup {None}]
  /\ providers \in [Topic -> SUBSET Service]
  /\ consumers \in [Topic -> SUBSET Service]
  /\ providerSeen \in [Topic -> SUBSET Service]
  /\ consumerSeen \in [Topic -> SUBSET Service]
  /\ drift \in [Service -> [Topic -> Nat]]

InRing(s, owner) ==
  \E k \in 1..Len(ring) : ring[k].span = s /\ ring[k].service = owner

\* The window is the newest events, Capacity of them, in the order the cursor
\* reads them, however often it has gone round.
RingIsNewest ==
  \A k \in 1..Len(ring) :
    ring[((next + k - 1) % Capacity) + 1] = log[Len(log) - Len(ring) + k]

\* The index names a caller only from an event still in the window: the
\* retention bound holds for attributions as well as for events.
IndexNamesOwner ==
  \A s \in Span : spanService[s] # None => InRing(s, spanService[s])

\* "spanService mirrors the ring 1:1": every owned span in the window is found,
\* if its event arrived once (the older copy of one that arrived twice takes the
\* newer one's entry with it when it leaves the window).
MirrorsRing ==
  \A k \in 1..Len(ring) :
    LET e == ring[k] IN
    /\ e.span # None /\ e.service # None
    /\ \A i, j \in 1..Len(log) : log[i].span = e.span /\ log[j].span = e.span => i = j
    => spanService[e.span] = e.service

\* The graph is what the latest registrations claim, nothing an earlier one
\* left behind and nothing traffic added.
GraphIsDeclared ==
  \A t \in Topic :
    /\ consumers[t] = {s \in Service : registration[s] # None /\ t \in registration[s].requests}
    /\ providers[t] = {s \in Service : registration[s] # None /\ t \in registration[s].produces}

\* A service is charged with drift on a topic only if it has a contract, the
\* topic can be in one, and it was seen to handle or to send the topic.
DriftHasEvidence ==
  \A s \in Service, t \in Topic :
    drift[s][t] > 0 =>
      /\ registration[s] # None
      /\ t \notin Reserved
      /\ s \in consumerSeen[t] \cup providerSeen[t]

\* An observed sender is true: some event of its own is the parent of an event
\* on the topic that another service, or nobody, owns.
SendersAreTrue ==
  \A t \in Topic : \A s \in providerSeen[t] :
    \E j, k \in 1..Len(log) :
      /\ log[k].topic = t /\ log[k].parent # None /\ log[k].service # s
      /\ log[j].span = log[k].parent /\ log[j].service = s
=============================================================================
