----------------------------- MODULE FleetStore -----------------------------
(***************************************************************************)
(* The read side of the mesh collector (meshd/store.go, meshd/meshd.go):   *)
(* what its store counts for each service and topic as messages arrive, in *)
(* whatever order and with whichever feeds missing, and the views that the *)
(* benzene:mesh:query:* topics read from it.  The declared graph, the span *)
(* index and contract drift are in Collector, the merge of issues is in    *)
(* IssueFeed.  Every ingest and every query holds the store's mutex.       *)
(***************************************************************************)
EXTENDS Naturals, Sequences, FiniteSets

CONSTANTS
  Service, Topic, Instance, Status,
  Failing,     \* the failing statuses
  Hash,        \* registration hashes; None is an absent one, or an absent service
  None,
  Event,       \* trace events that may arrive
  Capacity,    \* Options.MaxTraceEvents
  MaxFleetTraces,  \* how many flows the fleet view shows
  MaxMessages  \* bound: messages ingested

VARIABLES
  services,  \* of the known services
  topics,    \* of the known topics
  ring,      \* the window of trace events, slot by slot
  next,      \* the slot that is overwritten next, from 0
  log        \* history: the messages ingested

vars == <<services, topics, ring, next, log>>

\* ensureService, ensureTopic
NewService ==
  [registered |-> FALSE, hash |-> None, instances |-> <<>>, invocations |-> 0, errors |-> 0,
   issuesFeedSeen |-> FALSE]
NewTopic == [counts |-> [s \in Status |-> 0], invocations |-> 0, errors |-> 0]

Of(map, key, fresh) == IF key \in DOMAIN map THEN map[key] ELSE fresh
With(map, key, value) == [k \in DOMAIN map \union {key} |-> IF k = key THEN value ELSE map[k]]
Update(s, state) == services' = With(services, s, state)

IsFailure(event) == event.status \in Failing
One(condition) == IF condition THEN 1 ELSE 0

-----------------------------------------------------------------------------
Init == services = <<>> /\ topics = <<>> /\ ring = <<>> /\ next = 0 /\ log = <<>>

Ingest(message) == Len(log) < MaxMessages /\ log' = Append(log, message)

\* Wrong variant: a document without a hash leaves the last one's.
RegisterKeepsHash(s, hash) ==
  /\ Ingest([kind |-> "register", service |-> s, hash |-> hash])
  /\ Update(s, [Of(services, s, NewService) EXCEPT !.registered = TRUE,
                 !.hash = IF hash = None THEN @ ELSE hash])
  /\ UNCHANGED <<topics, ring, next>>

\* benzene:mesh:register: the latest document, with its hash or none.
Register(s, hash) ==
  /\ Ingest([kind |-> "register", service |-> s, hash |-> hash])
  /\ Update(s, [Of(services, s, NewService) EXCEPT !.registered = TRUE, !.hash = hash])
  /\ UNCHANGED <<topics, ring, next>>

\* benzene:mesh:heartbeat: the latest report of the instance.
Heartbeat(s, i, healthy, hash) ==
  LET state == Of(services, s, NewService) IN
  /\ Ingest([kind |-> "heartbeat", service |-> s, instance |-> i, healthy |-> healthy, hash |-> hash])
  /\ Update(s, [state EXCEPT !.instances = With(@, i, [healthy |-> healthy, hash |-> hash])])
  /\ UNCHANGED <<topics, ring, next>>

\* Wrong variant: an event that names no service is not counted at all.
CountTopicOwned(event) ==
  LET topic == Of(topics, event.topic, NewTopic)
      n == One(event.service # None)
  IN topics' = With(topics, event.topic,
       [topic EXCEPT !.invocations = @ + 1, !.counts[event.status] = @ + n,
          !.errors = @ + One(IsFailure(event))])

CountTopic(event) ==
  LET topic == Of(topics, event.topic, NewTopic)
  IN topics' = With(topics, event.topic,
       [topic EXCEPT !.invocations = @ + 1, !.counts[event.status] = @ + 1,
          !.errors = @ + One(IsFailure(event))])

\* Wrong variant: a full ring's last slot is written over.
RecordSpanLast(event) ==
  /\ ring' = IF Len(ring) < Capacity THEN Append(ring, event) ELSE [ring EXCEPT ![Len(ring)] = event]
  /\ UNCHANGED next

\* recordSpan: a new slot while there are any, then over the oldest.
RecordSpan(event) ==
  IF Len(ring) < Capacity THEN ring' = Append(ring, event) /\ UNCHANGED next
  ELSE ring' = [ring EXCEPT ![next + 1] = event] /\ next' = (next + 1) % Capacity

\* benzene:mesh:traces, one event at a time: the window, the topic's totals and, if it
\* names a service, that service's.
AddEvent(event) ==
  /\ Ingest([kind |-> "trace", event |-> event])
  /\ RecordSpan(event)
  /\ CountTopic(event)
  /\ IF event.service = None THEN UNCHANGED services
     ELSE Update(event.service,
            [Of(services, event.service, NewService) EXCEPT
               !.invocations = @ + 1, !.errors = @ + One(IsFailure(event))])

\* benzene:mesh:issues: any batch, an empty one too, says that the feed is alive.
AddIssues(s) ==
  /\ Ingest([kind |-> "issues", service |-> s])
  /\ Update(s, [Of(services, s, NewService) EXCEPT !.issuesFeedSeen = TRUE])
  /\ UNCHANGED <<topics, ring, next>>

\* A message that names no service is answered bad-request and leaves no trace (an event
\* may: it is the batch's emitter that is unknown then).
Next ==
  \/ \E s \in Service, hash \in Hash : Register(s, hash)
  \/ \E s \in Service, i \in Instance, healthy \in BOOLEAN, hash \in Hash : Heartbeat(s, i, healthy, hash)
  \/ \E event \in Event : AddEvent(event)
  \/ \E s \in Service : AddIssues(s)

Spec == Init /\ [][Next]_vars

-----------------------------------------------------------------------------
\* Wrong variant: the last instance that the map yields decides.
HealthOfAny(s) ==
  LET instances == services[s].instances IN
  IF DOMAIN instances = {} THEN "unknown"
  ELSE IF \A i \in DOMAIN instances : ~instances[i].healthy THEN "degraded" ELSE "healthy"

\* serviceSummary: one unhealthy instance degrades the service.
Health(s) ==
  LET instances == services[s].instances IN
  IF DOMAIN instances = {} THEN "unknown"
  ELSE IF \E i \in DOMAIN instances : ~instances[i].healthy THEN "degraded" ELSE "healthy"

\* Wrong variant: the issue feed is missed even where nothing failed.
MissingFeedsEager(s) ==
  {f \in {"descriptor", "health", "traces", "issues"} :
     \/ f = "descriptor" /\ ~services[s].registered
     \/ f = "health" /\ DOMAIN services[s].instances = {}
     \/ f = "traces" /\ services[s].invocations = 0
     \/ f = "issues" /\ ~services[s].issuesFeedSeen}

\* serviceSummary's missingFeeds: issues only where a failure needs explaining.
MissingFeeds(s) ==
  {f \in {"descriptor", "health", "traces", "issues"} :
     \/ f = "descriptor" /\ ~services[s].registered
     \/ f = "health" /\ DOMAIN services[s].instances = {}
     \/ f = "traces" /\ services[s].invocations = 0
     \/ f = "issues" /\ services[s].errors > 0 /\ ~services[s].issuesFeedSeen}

\* service: whether an instance runs the registered contract, unknown unless both say.
HashMatches(s, i) ==
  LET known == services[s].hash
      reported == services[s].instances[i].hash
  IN IF known = None \/ reported = None \/ ~services[s].registered THEN "unknown"
     ELSE IF reported = known THEN "yes" ELSE "no"

\* The slots with a trace's events, and the first of some slots: by time, of equals the
\* lower one, which after the ring has wrapped may hold the newer event.
Flow(trace) == {i \in 1..Len(ring) : ring[i].trace = trace}
First(places) ==
  CHOOSE i \in places : \A j \in places :
    \/ ring[i].startedAt < ring[j].startedAt
    \/ ring[i].startedAt = ring[j].startedAt /\ i <= j
FailuresIn(places) == {i \in places : IsFailure(ring[i])}

\* Wrong variant: the flow ends as the event in the last slot did.
FlowStatusOfLast(places) == ring[CHOOSE i \in places : \A j \in places : j <= i].status

\* traceSummaries: the earliest failing event's status, else the earliest event's.
FlowStatus(places) ==
  ring[First(IF FailuresIn(places) = {} THEN places ELSE FailuresIn(places))].status

\* traceSummaries, for one trace of the window
TraceSummary(trace) ==
  LET places == Flow(trace)
  IN [trace |-> trace, events |-> Cardinality(places), status |-> FlowStatus(places),
      startedAt |-> ring[First(places)].startedAt,
      services |-> {ring[i].service : i \in places} \ {None},
      failed |-> FailuresIn(places) # {}]

Summaries == {TraceSummary(ring[i].trace) : i \in 1..Len(ring)}
Smaller(m, n) == IF m <= n THEN m ELSE n

\* Wrong variant: the flows are sorted the other way round.
TraceSummariesOldest ==
  {shown \in SUBSET Summaries :
     /\ Cardinality(shown) = Smaller(MaxFleetTraces, Cardinality(Summaries))
     /\ \A a \in shown, b \in Summaries \ shown : a.startedAt <= b.startedAt}

\* fleet: the newest flows up to the limit.  Which of those that started at once is left to
\* the map's order and an unstable sort, so there are several answers.
TraceSummaries ==
  {shown \in SUBSET Summaries :
     /\ Cardinality(shown) = Smaller(MaxFleetTraces, Cardinality(Summaries))
     /\ \A a \in shown, b \in Summaries \ shown : b.startedAt <= a.startedAt}

-----------------------------------------------------------------------------
\* The places in the log of what was sent.
Sent(kind, s) == {k \in 1..Len(log) : log[k].kind = kind /\ log[k].service = s}
Events == {k \in 1..Len(log) : log[k].kind = "trace"}
Owned(s) == {k \in Events : log[k].event.service = s}
On(t) == {k \in Events : log[k].event.topic = t}
Failed(places) == {k \in places : IsFailure(log[k].event)}
Last(places) == CHOOSE k \in places : \A j \in places : j <= k

\* A reduced service is shown as reduced: a feed is missing if and only if nothing of it
\* has come, however the feeds arrive interleaved, and a service is listed once any has.
ReducedIsVisible ==
  /\ \A s \in Service :
       s \in DOMAIN services <=>
         Owned(s) # {} \/ \E kind \in {"register", "heartbeat", "issues"} : Sent(kind, s) # {}
  /\ \A s \in DOMAIN services :
       LET missing == MissingFeeds(s) IN
       /\ "descriptor" \in missing <=> Sent("register", s) = {}
       /\ "health" \in missing <=> Sent("heartbeat", s) = {}
       /\ "traces" \in missing <=> Owned(s) = {}
       /\ "issues" \in missing <=> Failed(Owned(s)) # {} /\ Sent("issues", s) = {}

\* A topic's and a service's totals are those of the events that arrived, events without
\* a service included in the former only, whatever has left the window since.
TotalsAgree ==
  /\ \A t \in DOMAIN topics :
       /\ topics[t].invocations = Cardinality(On(t))
       /\ \A x \in Status : topics[t].counts[x] = Cardinality({k \in On(t) : log[k].event.status = x})
       /\ topics[t].errors = Cardinality(Failed(On(t)))
  /\ \A s \in DOMAIN services :
       /\ services[s].invocations = Cardinality(Owned(s))
       /\ services[s].errors = Cardinality(Failed(Owned(s)))

Before(k) == Cardinality({j \in Events : j < k})

\* The turn of a slot: the oldest event is in the one that is overwritten next.
Turn(i) == IF i > next THEN i - next ELSE i + Capacity - next

\* The window is the last events that arrived, whatever came between them, in the order of
\* the slots' turns.
WindowIsTheLatest ==
  /\ Len(ring) = Smaller(Capacity, Cardinality(Events))
  /\ \A i \in 1..Len(ring), k \in Events :
       Before(k) + Len(ring) + 1 = Cardinality(Events) + Turn(i) => ring[i] = log[k].event

\* Each event of the window is in one of the flows shown, unless they are as many as may be
\* and each began no earlier than one of the event's own flow.
ShowsTheNewest(shown) ==
  \A i \in 1..Len(ring) :
    \/ \E flow \in shown : \A other \in shown : i \in Flow(other.trace) <=> other = flow
    \/ /\ Cardinality(shown) = MaxFleetTraces
       /\ \A flow \in shown : \E j \in Flow(ring[i].trace) : ring[j].startedAt <= flow.startedAt

\* A flow counts its events in the window; it has failed if and only if it ends in a
\* failure, and is not reported to end before an earlier failure did; it started when the
\* first of its events did.
FlowIsTrue(flow) ==
  /\ flow.events = Cardinality(Flow(flow.trace))
  /\ flow.failed <=> flow.status \in Failing
  /\ \E i \in Flow(flow.trace) :
       /\ ring[i].status = flow.status
       /\ \A j \in Flow(flow.trace) : IsFailure(ring[j]) \/ ~flow.failed => ring[i].startedAt <= ring[j].startedAt
  /\ \A j \in Flow(flow.trace) : flow.startedAt <= ring[j].startedAt

\* Whichever of its possible answers the view gives, its flows are those of the window.
FlowsAreTheWindow == \A shown \in TraceSummaries : ShowsTheNewest(shown) /\ \A flow \in shown : FlowIsTrue(flow)

LatestHeartbeat(s, i) == log[Last({k \in Sent("heartbeat", s) : log[k].instance = i})]
LatestDocument(s) == log[Last(Sent("register", s))]

\* An instance is said to run another contract than the registered one exactly when its
\* own last heartbeat and the service's last registration name different ones; one
\* instance that last reported itself unhealthy shows on its service.
InstancesAreCurrent ==
  \A s \in DOMAIN services :
    /\ \A i \in DOMAIN services[s].instances :
         HashMatches(s, i) = "no" <=>
           /\ Sent("register", s) # {}
           /\ None \notin {LatestDocument(s).hash, LatestHeartbeat(s, i).hash}
           /\ LatestDocument(s).hash # LatestHeartbeat(s, i).hash
    /\ Health(s) = "healthy" <=>
         /\ Sent("heartbeat", s) # {}
         /\ \A i \in DOMAIN services[s].instances : LatestHeartbeat(s, i).healthy

ViewsAreTrue ==
  ReducedIsVisible /\ TotalsAgree /\ WindowIsTheLatest /\ FlowsAreTheWindow /\ InstancesAreCurrent
=============================================================================
