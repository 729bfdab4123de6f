# Benzene in TLA+

A verification project for the Benzene library (Go): TLA+ modules translated from the source, TLC
configurations that model-check them on small instances, and TLAPS proofs of what matters most for
every value of the constants.

Benzene runs one application of topic handlers behind many transports. Its own logic is therefore
less in any one algorithm than in the promises it makes where things go wrong: a consumer that
crashes between handling and acknowledging, a saga whose third step fails, two goroutines that
resolve one singleton, a collector that restarts. Those promises are what is modelled.

Paths below are relative to the repository (`src/`).

## 1. Inventory

For each component: its state, its operations, who it talks to, what is hard about it, and what
makes it correct.

### Application core

| Component | State | Operations | Hard | Correct when |
|---|---|---|---|---|
| **Registry and router** `registry.go` `router.go` `topic.go` | handlers by (id, version), the number of versions per id, the default versions | `Register` (with `AsDefault`), `lookup`, `DefaultVersion`, `TopicsWithoutDefault`, `RouterMiddleware` | every order of registrations, refused ones in the middle; unversioned messages against versioned handlers | the handler a lookup selects exists, one default per id, the unmatched marker means that nobody serves the topic, a later registration takes no message from its handler |
| **Container and scopes** `scope.go` | registrations, singletons, one map per scope | `Add*`, `TryAdd*`, `GetService`, `TryGetService` | factories run outside the lock and resolve other services; goroutines of one invocation race | one instance per container or scope is ever handed out, and no resolution waits for ever |
| **Application and pipeline** `app.go` `middleware.go` `context.go` `result.go` `status.go` | none between invocations | `Run`: one scope per invocation, the middleware chain, results | a result and an error both come up the chain; a failure whose status is the application's own | a result is the last attempt's, and a caller hears of it what the handler said |
| **Settlement** `envelope/settlement.go` `envelope/dispatch.go` | none | `DispatchTopic`: acknowledge or not, from the policy, the result and the unmatched marker | three policies and four endings decide about loss and repetition | used by every consumer below |

### Workflows and middlewares

| Component | State | Operations | Hard | Correct when |
|---|---|---|---|---|
| **Saga engine** `saga/` | step states, the saga context, the store's log | `RunWith` (attempts), `runOnce`, `Stage.execute`, `rollBack`, `compensate` | steps of a stage run concurrently and one of them fails; a compensation fails; retries | all, nothing, or a report of what is left; reverse order; a retry only from a clean world; every run ends |
| **Idempotency** `idempotency/` | per key: in progress with a lease, or completed with a TTL | `Middleware`, `Claim`, `Complete`, `Release` | two deliveries of one key; a handler that outlives its lease; a failing store; a dead claimant | one handler per key at a time within the lease, nothing acknowledged that was not handled, no duplicate within the TTL |
| **Bulkhead** `resilience/bulkhead.go` | two buffered channels as semaphores | the middleware: admission, slot, cancellation | the `select` of slot and context | permits conserved on every path, rejection only when full, every call ends |
| **Timeout, retry, fallback** `resilience/` | none | middlewares around `next` | the deadline passes as the handler succeeds, or with the caller's cancellation; back-off against cancellation | the outcome is the last attempt's or a middleware's verdict on it, and only the caller's own cancellation comes back as an error |
| **Circuit breaker** `circuitbreaker/` | gobreaker's state, counts and generation | `Middleware` | calls that outlive the state they started in | it trips and closes on the dependency's failures and successes of the current generation, and closes once the dependency is well |
| **Cache** `cache/` | entries with expiry | `Get` `Set` `Delete` `GetOrLoad` | a load racing an invalidation | nothing served is out of date for longer than the TTL and a load; no failure is remembered |
| **Rate limiting** `ratelimiting/` | tokens, last refill | `Allow` | a clock that goes back, the cap, costs and configurations out of range | over every interval burst and rate bound what goes through, and no less is let through |
| **Health checks** `healthcheck/` `clienthealthcheck/` | none | concurrent `Run` | panics, duplicate names | not modelled: section 5 |
| **Authentication** `auth/` | the JWKS cache | key lookup, throttled refetch; validation of a token, scopes | rotation within the throttle window; dates at the edge of the skew; keys of the wrong use or family | the endpoint is spared without locking a rotated key out; a request goes through exactly with a token the policy accepts |
| **Response events** `responseevents/` `inprocess/` | none | mappings resolved and published after the handler | one of several publications fails, or its reply is lost | an acknowledged message has its events out, or their failure told |

### Ordered streams

| Component | State | Operations | Hard | Correct when |
|---|---|---|---|---|
| **Event Hubs consumer** `azureeventhub/consumer.go` | the pending rest of a batch | `Run`, `receiveAndDispatch` | errors of receive, handler and checkpoint hook; `Run` called again; crash | the checkpoint covers handled events only, nothing received is forgotten |
| **Kafka consumer** `kafka/kafka.go` | the source's cursor, the group's offsets | `Run`: fetch, dispatch and retry in place, commit | a commit covers everything before it | no commit past an unhandled message |
| **Cosmos worker** `azurecosmos/worker.go` | the continuation token in hand, the durable one | `Run`, `pollAndDispatch` | empty pages, a hook that fails after the page was handled | neither token covers an unhandled document |
| **Lambda stream handlers** `awskafka/` `awskinesis/` `awsdynamodb/` | none; the event source mapping keeps positions | `Handler`: partial batch response | the first failure of each partition | positions move over handled or waived records only; other partitions proceed |

### Queues

| Component | State | Operations | Hard | Correct when |
|---|---|---|---|---|
| **SQS consumer** `awssqs/consumer.go` | the batch, the messages to delete | `Run`, `poll` | leases that run out in the batch, partial deletes, shutdown before the delete | only handled messages are deleted, shutdown owes no delete |
| **Service Bus worker** `azureservicebus/worker.go` | the batch | `Run`, `poll`, `settle` | locks lost while earlier messages run; the delivery count | only handled messages are completed, only earned dead-letters |
| **RabbitMQ consumer** `rabbitmq/consumer.go` | none; the broker's redelivered flag | `Run`, `handle` | channels that drop with deliveries buffered or in a handler | acknowledged means handled, one requeue |
| **Push handlers** `awssqs/sqs.go` `awssns/` `awss3/` `awseventbridge/` `awslambda/` `azurefunctions/` `gcppubsub/` `gcpfunctions/` `cloudevents/http.go` | none; the platform keeps the event | one message or one batch per call, and an answer | partial batch responses, panics, environments that die, lost answers | the platform forgets what was handled or waived, and nothing else |

### The mesh

| Component | State | Operations | Hard | Correct when |
|---|---|---|---|---|
| **Announcer** `mesh/announce.go` | whether it registered | `Run`, `Register`, `Heartbeat` | a collector that is late, loses messages, restarts; shutdown | nobody stops registering too early, everybody registers in the end |
| **Trace and issue feeds** `mesh/push.go` `mesh/issues.go` | a bounded channel and a batch; delta windows | `Export`, `Close`, the loop; `Record`, flush | `Close` against producers, ticker and a full batch | what was queued at `Close` is sent before it returns |
| **Collector** `meshd/store.go` | contracts, declared graph, trace ring and span index, observed edges, drift | `register`, `addEvents`, `addIssues`, heartbeats, read models | overwriting ring, spans out of order or twice, redeploys | window, index, graph and drift agree with what was reported |

### The edges

| Component | State | Operations | Hard | Correct when |
|---|---|---|---|---|
| **Outbound client** `client/` `httpclient/` `awslambdaclient/` `gcppubsubclient/` | none | `WithRetry`, `CallFailure`, each client's `Send` | a lost reply, the caller's context in the back-off | as many attempts as may be and as the results call for; nothing begun for a caller that is gone |
| **Wire and status** `wire/` `envelope/dispatch.go` `httpstatus/` `grpcstatus/` `grpcbinding/` | none | responses and problem documents written and read, status tables both ways | statuses outside the vocabulary, several errors, pointers in dotted form | the caller hears what the handler answered, as far as the transport can say it |
| **Messages and metadata** `wire/metadata.go` and every client and binding of a broker | none | topic, version, headers and body put into a native message and read from it | the topic key in other spellings, envelopes in bodies, batches quoted as text | what is sent is what is read |
| **HTTP front** `httpbinding/` `cors/` | the route table | `Match`, body with parameters, envelope and spec endpoints, CORS | templates against exact routes, parameters against body members | one route for a request, the first of the most specific kind; a grant exactly as the settings say |
| **Cloud events** `cloudevents/` | none | parse, convert, marshal | both content modes, data that is JSON or text | an event survives either mode and its way out |

### The rest

`contract/`, `openapi/`, `asyncapi/`, `codegen/`, `internal/jcs/`, `cloudservice*/`, `diagnostics/`, `logging/`,
`validation/`, `healthcheck/`, `benzenetest/`, examples and templates. `PROJECT.json` lists each with its
status; section 5 says why they are left out.

### How the components interact

- A transport receives messages and calls `Settlement.DispatchTopic`, which runs the application once
  per message; what comes back decides whether the transport acknowledges. Every consumer module
  therefore EXTENDs `Settlement` and is parameterised by the policy.
- `App.Run` opens one container scope per invocation; middlewares wrap the router; the router asks the
  registry. The idempotency middleware turns a transport's redelivery into at most one effect; it relies
  on the transport redelivering what it answers with a conflict.
- A saga runs inside a handler; its effects are outside the process.
- The announcer, the feeds and the collector meet over HTTP only: a send is accepted, handled with its
  answer lost, or lost.
- A result crosses from a handler to a caller through `ResultHop`, a message from a client to a binding through
  `MessageHop`; both put the sending and the receiving package's code together. Response events are the one
  place where the library calls a client from inside its own pipeline.

## 2. The modules

| Module | Models | State and actions against the code |
|---|---|---|
| `Saga` | `saga/saga.go` `saga/step.go` `saga/store.go` | `state` is each step's `StepState`, `sc` the SagaContext's keys, `clean` whether every compensation so far succeeded, `log` the store's events, `effects` the outside world. One action per goroutine's `Execute`, per completed or failed stage, per `Compensate`, per stage of `rollBack`, per retry |
| `AtomicSaga` | what a saga promises (abstract) | a world, and an outcome: Commit, Abort or Orphan in one step |
| `Bulkhead` | `resilience/bulkhead.go` | `admit` and `exec` are the occupancy of the two channels; `TakeSlot` and `GiveUp` are the two cases of the `select`, either of which Go may take when both are ready; `Finish` and `Leave` are the deferred receives in their order |
| `Idempotency` | `idempotency/` | entries hold the ticks left before `expiresAt`, so the clock runs for ever in a finite model; every store call may fail; `Settle` is the transport acting on the middleware's result |
| `Settlement` | `envelope/settlement.go` | `Acknowledge` as a function of policy, ending and the unmatched marker; no state |
| `OrderedStream` | what an ordered-stream consumer promises (abstract) | positions settled in order, a durable position behind them |
| `EventHubConsumer` | `azureeventhub/consumer.go` | `pending` is `c.pending`, `cursor` the receiver's position, `checkpoint` the application's durable one |
| `KafkaConsumer` | `kafka/kafka.go` | `cursor` is the source's next offset per partition, `committed` the group's |
| `CosmosWorker` | `azurecosmos/worker.go` | a feed of positions with gaps; `continuation` is the worker's token, `durable` the hook's |
| `StreamLambda` | `awskafka/` `awskinesis/` `awsdynamodb/` | `report` is the `batchItemFailures` response; `position` is the event source mapping's |
| `LeasedQueue` | a queue with leases and a delivery count (external) | visible, leased, gone, dead; shared by the next two |
| `SQSConsumer` | `awssqs/consumer.go` | `toDelete` is the poll's list; `DeleteMessageBatch` removes any subset the leases allow |
| `ServiceBusWorker` | `azureservicebus/worker.go` | `current` is the loop's message; `Settle` is the decision of `settle` by ack mode and delivery count |
| `RabbitConsumer` | `rabbitmq/consumer.go` | `buffer` is the client's prefetched deliveries; `redelivered` the broker's flag |
| `Resilience` | `resilience/timeout.go` `retry.go` `fallback.go` `circuitbreaker/` | `pos` and `heading` are where an invocation is in its chain, before or after `next`; `err` and `result` are the two ways an outcome travels; `breaker` is gobreaker's (external) |
| `ResponseEvents` | `responseevents/` and the fan-out of `inprocess/` | `position` is the loop over the mappings, `outcome` is `ic.Result`; one action per mapping skipped or published, and the transport's acknowledgement or redelivery |
| `OneShot` | the push handlers and `awslambda/runtime.go` | a transport is a record of how its handler goes through an event and answers; `env` is each environment's run, `held` what the platform has |
| `Cache` | `cache/` | `entry` is the store's; `GetOrLoad`'s Get, load and Set are steps, the writer and its `Delete` two more |
| `TokenBucket` | `ratelimiting/` | `bucket` is tokens and last refill, `granted` a history: per instant, the tokens handed out since it |
| `KeyResolver` | `auth/jwks.go` | `keys` and `fetched` are the cache, `holder` the mutex, kept through a fetch; the issuer rotates when it likes |
| `TokenValidator` | `auth/jwt.go` `jwtkeys.go` `bearer.go` `auth.go` | operators from a key set, a token and a policy to a verdict; a signature is the key and the algorithm it was made with |
| `OutboundCall` | `client/retry.go` `client/failure.go` `httpclient/` | `tried` is what the attempts came to; `applied` and `lost` are the service's side |
| `ResultHop` | `result.go` `wire/` `envelope/dispatch.go` the status tables, `httpclient/` `awslambdaclient/` `grpcbinding/` `inprocess/` | operators: a result to a reply and back |
| `MessageHop` | `wire/metadata.go`, the broker clients and the `resolve...` functions of the bindings; `cloudevents/` `gcpfunctions/` | operators: a message to its native form and back, a set where map order decides and an empty one where nothing can be sent; a CloudEvent parsed, validated, converted, marshalled |
| `HTTPFront` | `httpbinding/` `cors/` | operators from routes or settings and a request to what is dispatched or granted |
| `Registry` | `registry.go` `router.go` `topic.go` | `handlers`, `versions` and `defaults` are the maps of the struct; lookups and routing are operators on them |
| `Container` | `scope.go` | `stack` is each goroutine's nest of resolutions; `CallFactory` runs without the lock, `Store` is the second lookup under it |
| `Announcer` | `mesh/announce.go` | `pc` is where each `Run` is; sends are accepted, unanswered or lost; the collector starts late and restarts |
| `PushFeed` | `mesh/push.go` | `queue` is the channel, `batch` the loop's slice, `stop` and `loop = "done"` the two channels `Close` uses |
| `IssueFeed` | `mesh/issues.go` and the collector's `addIssues` | `pending` is the exporter's delta window, `hand` what an invocation observed and has not recorded; `wire` loses, repeats and reorders batches |
| `Collector` | `meshd/store.go` | `ring` and `next` are the window and its cursor, `spanService` the index, `providers`/`consumers` the declared graph |
| `FleetStore` | the read side of `meshd/store.go` | `services`, `topics`, `ring` and `next` as the messages of `log` leave them, the ring slot by slot; the views are operators on them, the list of flows a set of possible answers |
| `MC...` | compositions | the sub-models that a run checks side by side, open in their constants (which consumers run, how each is configured, the `Setups`), and the values of the constants for TLC |
| `...Proofs` | theorems | section 4 |

Components that share no state are checked side by side in one run (`MCMiddlewares`,
`MCStreams`, `MCQueues`, `MCApplication`, `MCMesh`, `MCEdges`): the first state picks a set-up, that component runs alone, the others stay
where they started. The state space is the sum of theirs, not the product. A definition whose comment
begins with "Wrong variant" is not part of the model: it is a plausible bug in the definition after it,
and `PROJECT.json` pairs it with the property that catches it.

What the models leave out on purpose: payloads (a message is its position or a model value), wording
and logging, times other than the idempotency TTLs (a back-off is a step, a timer may always fire), and
metrics. Every `context` is a flag that may become true at any step.

## 3. The runs

| Run | Bounds | What it shows |
|---|---|---|
| `saga` | 4 steps in 3 stages, two of them concurrent, one that may fail after its effect, one without compensation, 2 attempts, 2 runs on one engine | `AllOrNothing`, `RunsAreInOrder`, `ReverseOrder`, `RetryOnlyFromClean`, `Terminates`, and `ImplementsAtomicSaga` |
| `saga_dirty_failure` (violation) | same | a forward that fails after its effect is not compensated, and the run says rolled-back |
| `middlewares` | bulkhead: 3 callers, 1 execution permit, 1 queue place; onion: five chains of up to 4 middlewares, one retry, a breaker that trips at 2, one probe, a second caller; idempotency: 2 concurrent deliveries, one keyed and one unkeyed message, both TTLs 2 ticks | `SlotsAreBounded` and `RejectOnlyWhenFull`; `AnswersAreTrue` (an answer is the last attempt's) and `BreakerActsOnEvidence`; `DedupIsSafe` and `DuplicatesSuppressed`; `Live` |
| `idempotency_slow` (violation) | same | a handler that outlives its lease deletes the record of the worker that took over |
| `streams` | Event Hubs: 4 events in batches of 2. Kafka and Lambda: 2 partitions of 2. Cosmos: 5 positions, 2 gaps, pages of 2. One unmatched record each, a poison record for Lambda | `CheckpointCovers`, `NothingSkipped`, `PositionsCover`, `OthersAreOrdered`, `ImplementsOrderedStream`: positions cover handled records only; `EverythingSettles` |
| `kafka_same_source` (violation) | 1 partition group as above, one source for ever | `Run` called again on the same source commits past the message it was retrying |
| `queues` | 2 workers, 2 messages of which one is unmatched, batches of 2, 2 receives before the delivery count is used up | leases and channels go at every point: `NothingIsLost`, `SetAsideIsEarned`, `AllDrained` |
| `application` | registry: 2 ids, 2 versions and unversioned; container: 3 goroutines in 2 scopes, 2 keys of which one depends on the other; keys: 2 with a kid and one without, 2 rotations, a refetch window of 2 ticks | `SelectionIsSafe`, `SelectionStable`, `DefaultsAreExact`; `OneInstance`; `RefetchIsFair`; `ResolutionEnds` |
| `mesh` | exporter: channel of 3, batches of 2, 6 events, 2 callers of `Close`; announcer: 2 processes on 2 deploys, 2 attempts, 1 restart; collector: 2 services, 2 topics of which one reserved, 3 spans, ring of 2, 4 events, 3 contracts | `ClosedMeansSent`, `RegisteredMeansKnown`, `WindowIsIndexed`, `GraphIsTrue`, `MeshProceeds` |
| `mesh_restart` (violation) | same | a collector that restarts after a registration landed never learns the contract again |
| `edges` | cache: 2 callers, 1 write to the source, TTL 0 (none) or 2, a clock of 5; bucket: three configurations, costs -1, 1 and 2, a clock of 3, 5 grants; issues: 2 callers, 3 occurrences, 2 error pairs of which an issue keeps 1, one batch on the wire and its copies; fleet: 2 services, ring of 2, 3 messages, events of two flows and at equal times, 1 flow shown; call: up to 3 attempts; events: 12 transports, 3 messages of which one unmatched, 2 environments, 2 faults; responses: two chains of 3 mappings, 2 deliveries; cases: products of small sets of tokens, requests, messages, events and results | `CacheIsHonest`; `QuotaIsExact`; `MeshViewsAreTrue`; `CallsAreHonest`; `EventsAreAnswered` and `EventsAreLetGo`; and case by case `EdgesAreExact` |
| `result_hop` (violation) | same | a failure with a status of the application's own succeeds at an in-process caller |

**Why the bounds are enough.** Each is the smallest at which the case it is there for happens twice or
next to another one: a second attempt and a second run of a saga (state that survives the first); one
more caller than the bulkhead admits; a lease that ends while its holder still works and a second
delivery that takes over; a batch boundary in the middle of a stream and a failure on each side of it; a
ring that is overwritten twice and both slots of it; two callers of `Close`; a load that straddles a write and
its invalidation; a batch whose middle message is the one that fails; a response with a mapping before and after
the one whose event is lost. The stateless modules have no interleavings: their cases are products of every
form that the code tells apart, with one form it does not. Nothing in the code counts
beyond that: all limits are parameters, and the theorems below drop the bounds where they matter most.

**Deadlock.** Every passing run has `CHECK_DEADLOCK FALSE`: in each of them some set-up has bounded inputs
(a stream that ends, a bounded number of events, calls or runs) and rightly stops when these are used up.
That it gets there, and does not stop earlier with work left, is what the liveness properties (`Terminates`,
`EverythingSettles`, `AllDrained`, `ResolutionEnds`, `MeshProceeds`, `Live`) say.

**Fairness.** Weak fairness for a goroutine that can go on. Strong fairness where the code offers the
same choice again and again, and the world would have to refuse for ever: a `select` whose case stays
ready or becomes ready again and again (`TakeSlot`, `StopLoop`, `Stop`), a handler or a hook that is
retried until it succeeds, a fetch or a send over a network that works now and then. "Calm": where
shutdown, restart or lost channels would excuse everything, the specification says that they stop
happening at some point, not when (Cosmos, Lambda, RabbitMQ, the onion's downstream). The platform of
`OneShot` delivers what it holds and its environments go on; that all is let go in the end rests on the bound on
faults, which is such a calm. No action of the code that can fail is
assumed to succeed the first time, or at any given time.

### Where code and documentation disagree

Five runs end in a counterexample, each to one sentence of the repository's own comments:

1. `saga_dirty_failure`: `saga/saga.go:17-19` says of `OutcomeRolledBack` that every effect created so far
   was compensated; a step that fails after it acted is not (`saga/step.go:132`).
2. `idempotency_slow`: `idempotency/store.go:26-27` says how long a finished key suppresses duplicates;
   `Release` deletes the record whoever owns it (`idempotency/store.go:112`).
3. `kafka_same_source`: `kafka/kafka.go:39-40` says that a failed message is never skipped; `Run` called
   again after a cancelled retry has lost it (`kafka/kafka.go:148`).
4. `mesh_restart`: `mesh/announce.go:155-157` says that a collector that restarts still learns the contract;
   `registered` is never reset (`mesh/announce.go:173`).
5. `result_hop`: `inprocess/inprocess.go:112-114` says that the in-process sender's result is exactly as every
   other sender's; `toRawResult` (`:212`) drops the flag that says that a result failed, so that a failure with
   a status outside the vocabulary succeeds at its caller.

Smaller ones, met while modelling and followed by the models as the code has them: the `ctx.Done()` branch
of the bulkhead is called unreachable without a queue, but a context that is already over makes both cases
ready (`resilience/bulkhead.go:115-118`); at-most-once Kafka dispatches before it commits, so a crash
between the two delivers a failed message again (`kafka/kafka.go:153` against `:35`); the broker also marks
deliveries redelivered that no handler has seen, so that a first failure may be dead-lettered
(`rabbitmq/consumer.go:163` against `:81-82`); a singleton's factory may run twice in a race
(`scope.go:197` against `:48`, accepted at `:183-186`); the collector's index loses the entry of a span that
is in the window twice (`meshd/store.go:304` against `:46-47`), which is why `MirrorsRing` speaks of spans
that arrived once.

At the edges, likewise followed as the code has them:

- The circuit breaker counts a caller's own cancellation as a failure of the dependency. `Timeout` relabels as
  a timeout a failure that the handler returned just as the deadline passed.
- A key set with a keyless key is searched for any `kid` (`auth/jwks.go:151-154` against `:131-132`).
- An issue's time is read before the lock is taken (`mesh/issues.go:123-129`, `:326-331`), so that `lastSeen` may
  be the earlier of two.
- CORS compares paths exactly (`cors/cors.go:104-119`): a templated route is never granted a preflight.
- The gRPC server maps a status without looking at the result's own success (`grpcbinding/server.go:127`). A success
  without a body becomes Internal with a trailer that says ok. Field errors that are no pointers, and names with
  dots or none, do not survive the dotted form.
- A payload with a `statusCode` member is an envelope to `httpclient`. A failure whose status is one of success
  reads as a success over a native route.
- The gRPC client rebuilds a failed call's result from its status and errors alone (`grpcbinding/client.go:104`), so
  a failure with a status of the application's own reads as a success there, as it does in the same process.
- Clients write a versioned topic as `id@version` (`topic.go:28-33`), which no inbound binding splits.
- Over SQS, SNS and Kafka a header named like the topic key sends the message elsewhere; the Service Bus client
  says why it writes the topic last (`azureservicebus/client.go:73-74`). A header of another spelling, `Topic`, wins
  or loses by the iteration order of the map even there.
- The headers of the Event Grid client are dropped by the Functions handler. A trigger input that is no array is
  an empty batch to `EventHubHandler` and is checkpointed (`azurefunctions/eventhub.go:122-139`).
- `drainQueue` (`mesh/push.go:128-136`) goes on as long as producers fill the channel: that `Close` returns rests on
  the bounded number of exports. `OneAtATime` counts the owners of a claim; a handler that outlives its lease may
  still be at work beside the one that took over, and is left out of it.
- The fleet view shows 20 flows at most, the newest (`meshd/store.go:472`, `:514`, `:648-651`); which of those
  that started at once are shown is left to the order of a map and an unstable sort, so `TraceSummaries` is the
  set of the possible answers. Of events at one time the one in the lower slot comes first, which after the ring has
  wrapped may be the one received later (`:303-307`, `:609`, against the comment at `:617`).
- The EventBridge client panics on a message that is a JSON `null` with headers to embed: it unmarshals into a nil
  map that is written to (`awseventbridge/client.go:92-102`; `:86-91` says that what is no object is returned
  verbatim). Other messages that are no JSON it sends as they are; that the service refuses them is taken from its
  own contract.
- The Event Grid client sends JSON only: a body that is none fails to serialize at publish and is answered with
  service-unavailable, an empty one goes as `null` (`azureeventgrid/client.go:73-93`).
- A Functions trigger that is handed a JSON `null` as it is reads it as an empty body, and a JSON string loses its
  quotes (`azurefunctions/queue.go:97-103`, `eventhub.go:174-178`). Whether the host quotes is its own affair, so
  both readings are possible in `TriggerText`.
- A CloudEvent whose text is itself a JSON string loses a pair of quotes per hop, and attributes with names
  that are not legal are lost on the way out.
- A call whose reply was lost is made again though it was applied, as its documentation warns; the asynchronous
  use of the Lambda envelope and the in-process fan-out drop failures, as theirs says.

## 4. What is proved

All proofs are checked by TLAPS to the last leaf, for every value of the constants. A run's invariant or
action property is usually not inductive: it speaks of the moment at which something shows, and not of how
the state got there. Each proof therefore has an inductive invariant that adds what is true in between; TLC
shows the property on a small instance, the theorem on all.

The theorems are about the specifications that the runs check. A proof module extends the MC module, whose
constants are open: `MCSpec` is the composition, for any set-ups. What is proved of a component
that the composition instantiates once is proved of the component's own `Spec` too
(`Store!Spec \/ MCSpec => ...`), so that no theorem depends on what stands beside it; where the set-ups
choose a component's parameters (the streams and the queues), the theorem is about `MCSpec`, for all of them.

| Module | Theorem | Says | Argument |
|---|---|---|---|
| `SagaProofs` | `SagaTypes` | the engine's counters and states keep their types | with `Shape`: the stage counters move inside `0..NStages`, and the running goroutines belong to the stage that the counters name |
| | `SagaAllOrNothing` | an attempt ends in all effects, none, or those the Result reports (or a failed forward left) | `Accounting`: at every moment each step's effect is what its state and its stage's position say. `AllOrNothing` alone speaks of ended attempts only |
| | `SagaRetriesFromClean` | a retry starts from a world in which no completed step's effect is left | `IInv` and the outcome that the retry loop looks at |
| | `SagaUndoesInReverse` | a step is undone when nothing of a later stage is left to undo | `rollBack` reaches a stage when the states of the later ones say so |
| | `SagaRunsInOrder` | forwards read what the stages before published in their attempt; the store hears of each attempt from start to end | `LogShape`: the attempt's "started" lies as many events back as stages are complete |
| | `SagaIsAtomic` | the engine implements `AtomicSaga` | `Decided`; the steps inside an attempt are stutters, its end is one Commit, Abort or Orphan by `Accounting` |
| `MiddlewareProofs` | `BulkheadConservesPermits` | each channel holds one permit per caller that owns one | the cardinality of the set of owners changes by one exactly where a permit is sent or received |
| | `BulkheadIsolates`, `BulkheadIsBounded` | at most `MaxConcurrency` run, at most `MaxConcurrency + MaxQueue` are inside | conservation and the channels' capacities |
| | `BulkheadNoQueueNeverBlocks` | without a queue an admitted caller finds a slot free | the running callers are a proper subset of those inside |
| | `BulkheadRejectsOnlyWhenFull` | a caller is turned away only when the bulkhead is full | conservation, at the step that rejects |
| | `IdempotencyIsSafe` | one handler of a key at a time while leases hold; what is acknowledged was handled | `ClaimsHold`: while nobody outlived its lease an owner is alone and the store keeps its claim at least as long as its lease; `DeliveriesHold`: who is about to report success was handled |
| | `IdempotencySuppresses` | a finished key is not claimed within its TTL, unless a handler of it outlived its lease | `ClaimsHold`: a promise that runs is in the store for as long |
| | `OnionAnswersTruly` | an answer is the last attempt's or a verdict on it, an error the caller's own, the probes are bounded | `Upward`: what is on its way up says where it came from, wherever in the chain it is. The chain is any sequence of the four middlewares, repeated ones included |
| | `BreakerActsOnlyOnEvidence` | the breaker changes state on a sign of health by a call of its generation | the types of the onion and each step of the breaker |
| `StreamProofs` | `EventHubCheckpointCovers`, `EventHubNothingSkipped`, `EventHubCheckpointMonotone` | the checkpoint covers handled or waived events only, nothing handed out is forgotten, the checkpoint never goes back | `Mark`: the batch in hand and the pending rest are each the last stretch of what the receiver handed out; everything before is settled, and the checkpoint lies before it |
| | `EventHubImplementsStream` | the consumer implements `OrderedStream` | the same invariant; initial states map to initial states, every step to a step or a stutter |
| | `StreamPositionsCover` | Kafka's offsets, both tokens of Cosmos and the mapping's positions cover handled and waived records only | one invariant per consumer, of what it holds in memory: the message in hand is the last one fetched, the page in hand is one past the token it was read from, a partition's records are settled or to come up to the one reported |
| | `StreamsAreOrdered` | each partition, feed and shard implements `OrderedStream`; Kafka commits no offset backwards | the same, and `KafkaMoves`, `LambdaMoves`: what a step does to history and position |
| `QueueProofs` | `QueuesLoseNothing` | what left a queue was handled or waived, and no `Run` returns owing a settlement | SQS: what is put down for deletion was handled. Service Bus: the outcome about to be settled is the one the message had. RabbitMQ: what a consumer holds over an open channel is unsettled at the broker |
| | `QueuesSetAsideRightly` | a dead letter is earned by its delivery count (or failed, under `AckModeDeadLetter`); RabbitMQ requeues a message once, over all consumers | `Receivable`: a message nobody holds has a receive left; `Marked` and `Fresh`: a requeue leaves its mark, and a delivery without the mark is of a message never requeued |
| `ApplicationProofs` | `RegistrySelectedExists`, `RegistryUnmatched`, `RegistryIsSafe` | a selected handler is registered; the unmatched marker is exact | the three maps agree: a count is zero exactly for an id nobody serves, a declared default is a registered handler and its id's only declaration |
| | `RegistrySelectionStable` | no later registration takes a message from its handler, except an unversioned handler an unversioned message | the same invariant, and what one registration changes of a lookup |
| | `RegistryDefaultsAreExact` | one default per id, and the start-up warning names the ids whose unversioned messages reach nobody | the same invariant |
| | `ContainerGivesOneInstance` | one instance per container or scope is ever given, however resolutions nest and race | `NewInstances`: what is about to be stored is nobody else's; `GivenIsKept`: what was given is what the container or its scope keeps; `WellNested`: only the innermost resolution of a stack can be about to store |
| | `KeysAreRefetchedFairly` | the endpoint is fetched from by one at a time and once per window; a published key is refused only while the cache cannot know it | a published key is cached or stale; who holds the mutex has been fetching for less than the window |
| | `BearersAreJudged`, `KeySetsAreJudged` | a request is handled exactly with a token that a published key fit for its algorithm signed and whose claims the policy accepts, and only a bad token is answered with a challenge; a key set is refused only for a malformed key meant for signatures | no state and no induction: `CandidatesAre` (what a set yields for a kid), `AuthenticPass`, `ClaimsAreJudged` and `ValidatePasses` turn each stage's nested checks into a conjunction. The general statement found what the enumerated key sets could not tell: the reference must name the pairs of key type and family, since a key's type may be any text |
| `MeshProofs` | `PushFeedTypes` | the channel and a batch keep to their sizes | part of the next one's invariant |
| | `PushFeedClosedMeansSent` | no caller of `Close` returns before what was queued has been sent, once each and in order | `InOrder`: sent events, batch and channel are consecutive stretches of the order of entry; `Promise`: from `drain` on the promised stretch can only move forward. Neither is enough alone: the lengths say how far, the contents say what |
| | `CollectorWindowIsIndexed` | the ring is the newest events in order, and the index finds their owners and nobody else | `SlotsHold`: `Position(k)` is the place in the log of slot `k`, before and after the cursor; no division is needed, the cursor wraps by a case |
| | `CollectorGraphIsTrue` | the graph is what the latest registrations claim, an observed sender sent, drift has evidence | the index: a name it gives is the owner of an event in the window |
| | `AnnouncerRegisteredMeansKnown` | who stopped registering was heard | a registration that counted was stored by a collector that was up |
| `EdgesProofs` | `QuotaIsKept` | over every interval burst and rate bound what the bucket lets through, and it sheds no message that the quota has room for | `WithinAllowance`: the tokens left and those granted since an instant are at most a full bucket and the refill since; `AllowanceIsSpent`: since some instant, the last with a full bucket, they are no less. The cap of a refill moves that instant, a clock that goes back moves nothing |
| | `CallsStayHonest` | a call is tried as often as it may be and its results call for, applied twice only behind a lost reply, and begins nothing for a caller that is gone | `EarnedSoFar`, `SafeSoFar`: what was tried so far calls for what is done next, and each application before the last ended unanswered |
| | `CacheStaysHonest` | nothing served was out of date for a TTL and a load; only what a call returned as loaded enters the cache | `LoadsAreFresh`: what a load read was current when it read it; `EntryExpires`: an entry ends a TTL and a load after its version was superseded, whoever stored it, and before or after the invalidation |
| | `EventsStayAnswered` | the platform lets go of a message only on the word of the invocation that accepted it, none is handled behind one that was refused where order matters, an answer frees all it can; a message whose response is published is acknowledged only past all the events that are due | `Accounts`: what was gone through is either accepted or refused, and an answer other than a panic's says whether anything was. `PublishingSoFar`, `EndedRightly`: what was tried is what is due of the mappings so far, and a failure is the last one tried where it fails the message |
| | `MeshViewsStayTrue` | the collector counts each occurrence of a failure as often as it arrived, inside the span in which it was observed, and `Close` sends the tail; the views count, miss and blame what has arrived, the window is the last events that did, and the flows shown are its newest | `IssueInv`: a window counts occurrences of its own, each once, and a delivery adds its occurrences once more; an occurrence in a caller's hand overlaps with all that were observed since, which is why `lastSeen` leaves out only those. `FleetInv`: what is kept of a service or topic, or a fresh one where none is kept, is what the messages in the log say of it, so that one message changes what it names and nothing else. `WindowInv`: slot *i* holds the event whose rank among those that arrived is the slot's turn, so that one more event moves every turn by one and takes the slot whose turn is the last |
| | `RoutesAreTakenInOrder` | of any routes none is taken exactly when none fits; an exact one that fits goes before any template, the last registered before the others, and a template is the first route that fits | no state: a search yields 0 or an end of the set of places that fit (`PlacesHaveEnds`, from `LeastNumber`) |
| | `CrossOriginIsJudged` | for any settings, routes and request `CrossOriginIsExact`: only an allowed origin is named, credentials and exposed headers go with it or not at all, a preflight of a routed path ends here and nothing else does | no state: `OriginsMatch`, and the three answers there are |
| | `OutcomesSurvive` | whatever a handler answers, with any status: an envelope and a Lambda function tell success from failure and carry status and payload; a native route tells them apart and names a failure's status; gRPC names every status; in the same process nothing is lost but the flag | no state: `AnsweredIs` (what leaves the pipeline), then one lemma per transport. `CodesAre`: the codes of a success never meet those of a failure, in either direction. Left out are results that contradict themselves (`IsConsistent`) and, for a route and gRPC, an empty status |

**Assumptions.** Each is an `ASSUME` that TLC evaluates, and each says no more than the constants' comments or
the code's own checks: `BulkheadAssumption` is what `Bulkhead` panics over when it is wired (and that there are
finitely many callers); `MiddlewareAssumption` that the TTLs are positive, the probes are not none (gobreaker
takes 0 for 1) and the chains are made of the four middlewares; `EventHubAssumption`, `StreamAssumption` and
`LeasedQueueAssumption` the sizes and sets of what is on the stream or queue; `MeshAssumption` that names are not empty and a ring
and an announcer have room for one; `EdgesAssumption`, `EventsAssumption` and
`ResponsesAssumption` the types of the constants (a rate, a burst and a cost may be any integer, the messages are finitely many numbers in the platform's order); `IssuesAssumption` that the
bounds on exemplars, error pairs and occurrences are numbers and the pairs finitely many; `FleetAssumption` that the name of no service is that of a
missing one, that the window has room for an event, that the limit on flows is a number and that events speak of the services, topics and statuses there are; `ApplicationAssumption` the types of the constants, and that a fetch takes less than
the window between two (the HTTP client's timeout is 10 s, the window 5 min, `auth/jwks.go:70-72`). One leaves a
configuration out: a Kafka consumer run again on its own Source is taken with the default settlement, because
with at-least-once the property is false, as `kafka_same_source` shows.

**Counting.** `MeshViewsAreTrue` compares counters with cardinalities of sets of places in the log. The library's
induction theorems take an operator as a parameter, so `EdgesProofs` states induction about sets instead
(`NumberInduction`, `FiniteSetInduction`, from the well-foundedness of `<` on the naturals): the set of the numbers,
or subsets, with the property wanted is all of them. From these it has that finitely many values have a
highest one and that so-and-so many of the highest can be chosen, which is what the bound on error detail needs.

**Only model-checked.** Everything under fairness (`Terminates`, `Live`, `EverythingSettles`, `AllDrained`,
`ResolutionEnds`, `MeshProceeds`, `EventsAreLetGo`), because liveness is out of the prover's reach. Of `edges`,
`EdgesAreExact`, which is about operators over concrete data that TLC evaluates case by case; of it the part
about tokens, the choice of a route, the cross-origin rules and the outcome of a call over every transport are
proved for every input (`BearersAreJudged`, `RoutesAreTakenInOrder`, `CrossOriginIsJudged`, `OutcomesSurvive`). What
is left to TLC folds or filters sequences, which takes induction over data: the errors of a failure, the captured
parameters of a path, JSON pointers and their dotted form, the batches of a trigger, CloudEvents.
The five violations are counterexamples, and need no proof.

## 5. What is not modelled, and the plan

The order is by how much can go wrong where a test would hardly reach.

Done: the saga engine; bulkhead, idempotency, timeout, retry, fallback and circuit breaker; cache, rate
limiting and key resolution; the settlement policy with all stream and queue consumers and the push handlers;
registry and container; announcer, both feeds, the collector and its views; the outbound call and response
events; and what is decided at the edges, as operators checked case by case.

Left to model:

1. An end-to-end composition: a transport that redelivers, the idempotency middleware, a saga in the
   handler; abstract promise: an effect per message, at most once within the TTL.
2. The bulkhead inside the onion of `Resilience`, and the orders in which rate limiting, authentication and
   idempotency may be composed.

Left to prove: that what a client writes a receiver reads (`MessageArrives`), for every name and value.

Not modelled, and why:

- Contract derivation, code generators, Cloud Service reports and probes (`contract/`, `openapi/`, `asyncapi/`,
  `codegen/`, `internal/jcs/`, `cloudservice*/`): text laid out from one immutable input.
- Health checks: `Run` joins its goroutines before it reads the slot that each has written alone, so that no
  order decides anything; the checks themselves are network and disk I/O. What the HTTP front makes of an
  unhealthy answer is in `ResultHop`.
- The arithmetic of signatures, base64 and JSON parsing: a signature is of a key and an algorithm, a document has
  its members or is malformed. Basic credentials (`auth/basic.go`).
- Logging, diagnostics and validation: reporting, and one value against its own tags.
- In modelled packages: the decoding of S3 object keys and DynamoDB images, the settlement of a timer,
  message attributes that are not strings, the gRPC method table and protobuf conversion, the construction of
  a `PipelineSet`, the collector's HTTP routes and pages, correlation headers. The overflow of `client`'s default
  back-off (`client/retry.go:75`) is left out because the waits before the attempt that overflows add up to
  centuries.
- Examples, templates and test helpers.

## 6. Running the checks

`tlc -config Saga.cfg MCSaga` and likewise for every run in `PROJECT.json`; `tlapm SagaProofs.tla` and
likewise for the other `...Proofs` modules. The longest run takes about two minutes.
