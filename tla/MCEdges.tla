------------------------------- MODULE MCEdges -------------------------------
(***************************************************************************)
(* The cache, the token bucket and the mesh collector's two feeds that no  *)
(* other run hosts, one of them in each behaviour; and what a request,     *)
(* a token or a message decides at the edge of the application, which      *)
(* keeps no state and is checked against its definition case by case.      *)
(***************************************************************************)
EXTENDS Cache, Integers, Sequences, FiniteSets, TLC

CONSTANTS
  Configs, Costs, MaxSecond, MaxGrants,   \* TokenBucket, whose clock ends at MaxSecond
  AttemptOptions, Retryables,             \* OutboundCall
  Env, Message, Unmatched, MaxFaults, IgnoreUnmatchedTopics,  \* OneShot, with a settlement of the binding's default
  Chain, Source, Response, MaxDeliveries, \* ResponseEvents
  Failure, Pair, MaxExemplars, MaxIssueErrors, MaxPendingIssueErrors, MaxOccurrences, MaxWire,  \* IssueFeed
  Service, Topic, Instance, Status, Failing, Hash, None, Event, Capacity, MaxFleetTraces, MaxMessages  \* FleetStore

VARIABLES
  setup,
  config, bucket, verdict, granted,
  failures, overlap, hand, pending, loop, wire, merged, seen, early, delivered,
  services, topics, ring, cursor, messages,
  options, phase, context, attempt, result, tried, applied, lost, late,
  transport, delivery, held, env, faults,
  mode, publisher, chain, handled, step, response, outcome, position, published, told, deliveries

\* The configurations of the bucket and the costs of a message for TLC.
Buckets == {[rate |-> -1, burst |-> 2], [rate |-> 0, burst |-> 0], [rate |-> 1, burst |-> 2]}
Charges == {-1, 1, 2}

Limit == INSTANCE TokenBucket WITH MaxClock <- MaxSecond

Failed(status, exception) == [status |-> status, exception |-> exception]
TimedOut == {Failed("timeout", "")}
FailureCases ==
  {Failed(status, e) : status \in {"bad-request", "not-found", "timeout", "unexpected-error", "gone", ""}, e \in {"", "panic"}}

Issues == INSTANCE IssueFeed WITH log <- failures

Traced(service, topic, status, trace, startedAt) ==
  [service |-> service, topic |-> topic, status |-> status, trace |-> trace, startedAt |-> startedAt]
TracedEvents ==
  {Traced("web", "orders", "timeout", "t1", 2), Traced("web", "orders", "timeout", "t1", 1),
   Traced("shop", "orders", "gone", "t1", 1), Traced("none", "bills", "ok", "t2", 1)}

Fleet == INSTANCE FleetStore WITH log <- messages, next <- cursor

\* What ShouldRetry may be for TLC, the default first.
Predicates == {{"service-unavailable", "too-many-requests"}, {"service-unavailable", "timeout"}}

Call == INSTANCE OutboundCall

Events == INSTANCE OneShot WITH Delivery <- "BindingDefault"

Crud == [kind |-> "crud"]
Rule(from, event, when, project) == [kind |-> "map", from |-> from, event |-> event, when |-> when, project |-> project]
Answered(status, ok, payload) == [status |-> status, successful |-> ok, payload |-> payload]
CreateRules == <<Rule(<<"order", "create">>, <<"audit", "">>, "success", "all"), Crud,
                 Rule(<<"order", "Create">>, <<"alarm", "">>, "failures", "all")>>
UpdateRules == <<Rule(<<"order", "update">>, <<"audit", "">>, "success", "nothing"), Crud,
                 Rule(<<"order", "update">>, <<"audit", "">>, "success", "all")>>

Chains == {CreateRules, UpdateRules}
Sources == {<<"order", "Create">>, <<"order", "update">>, <<"order", "show">>}
Answers == {Answered("created", TRUE, "order"), Answered("updated", TRUE, "order"), Answered("ok", TRUE, "order"),
            Answered("created", TRUE, "none"), Answered("conflict", FALSE, "order")}

Responses == INSTANCE ResponseEvents

\* What the constants' comments say.
ASSUME EdgesAssumption ==
  /\ TTLs \subseteq Nat /\ MaxVersion \in Nat /\ LoadTime \in Nat
  /\ Configs \subseteq [rate : Int, burst : Int] /\ Costs \subseteq Int /\ MaxSecond \in Nat
  /\ AttemptOptions \subseteq Nat
ASSUME EventsAssumption ==
  /\ Message \subseteq Nat /\ IsFiniteSet(Message) /\ MaxFaults \in Nat /\ IgnoreUnmatchedTopics \in BOOLEAN
ASSUME IssuesAssumption ==
  /\ IsFiniteSet(Pair) /\ MaxExemplars \in Nat /\ MaxIssueErrors \in Nat /\ MaxOccurrences \in Nat
ASSUME FleetAssumption ==
  /\ None \notin Service /\ Capacity \in Nat \ {0} /\ MaxFleetTraces \in Nat
  /\ \A event \in Event :
       event.service \in Service \union {None} /\ event.topic \in Topic /\ event.status \in Status /\ event.startedAt \in Nat
ASSUME ResponsesAssumption ==
  Chain \subseteq Seq(Responses!Mapping) /\ Source \subseteq Responses!SourceTopic /\ Response \subseteq Responses!Result

limitVars == <<config, bucket, verdict, granted>>
issueVars == <<failures, overlap, hand, pending, loop, wire, merged, seen, early, delivered>>
fleetVars == <<services, topics, ring, cursor, messages>>
callVars == <<options, phase, context, attempt, result, tried, applied, lost, late>>
responseVars == <<mode, publisher, chain, handled, step, response, outcome, position, published, told, deliveries>>
eventVars == <<transport, delivery, held, env, faults>>
all == <<setup, vars, limitVars, issueVars, fleetVars, callVars, eventVars, responseVars>>

MCInit ==
  /\ setup \in {"cache", "limiter", "issues", "fleet", "call", "events", "responses", "cases"}
  /\ Init /\ Limit!Init /\ Issues!Init /\ Fleet!Init /\ Call!Init /\ Events!Init /\ Responses!Init
  /\ setup # "cache" => ttl = 0 /\ ~entry.present
  /\ setup # "limiter" => config = [rate |-> 0, burst |-> 0]
  /\ setup # "call" => options = [max |-> 0, retryable |-> Call!DefaultRetryable]
  /\ setup # "events" => transport = Events!SQS /\ delivery = "BindingDefault"
  /\ setup # "responses" => mode = "FailMessage" /\ publisher = "sender" /\ chain = (CHOOSE c \in Chain : TRUE) /\ handled = (CHOOSE t \in Source : TRUE)

MCNext ==
  /\ UNCHANGED setup
  /\ \/ setup = "cache" /\ Next /\ UNCHANGED <<limitVars, issueVars, fleetVars, callVars, eventVars, responseVars>>
     \/ setup = "limiter" /\ Limit!Next /\ UNCHANGED <<vars, issueVars, fleetVars, callVars, eventVars, responseVars>>
     \/ setup = "issues" /\ Issues!Next /\ UNCHANGED <<vars, limitVars, fleetVars, callVars, eventVars, responseVars>>
     \/ setup = "fleet" /\ Fleet!Next /\ UNCHANGED <<vars, limitVars, issueVars, callVars, eventVars, responseVars>>
     \/ setup = "call" /\ Call!Next /\ UNCHANGED <<vars, limitVars, issueVars, fleetVars, eventVars, responseVars>>
     \/ setup = "events" /\ Events!Next /\ UNCHANGED <<vars, limitVars, issueVars, fleetVars, callVars, responseVars>>
     \/ setup = "responses" /\ Responses!Next /\ UNCHANGED <<vars, limitVars, issueVars, fleetVars, callVars, eventVars>>

\* The platform's and the handlers' fairness, of OneShot.
MCFairness ==
  /\ WF_all(setup = "events" /\ (\E e \in Env : Events!Deliver(e)) /\ UNCHANGED <<setup, vars, limitVars, issueVars, fleetVars, callVars, responseVars>>)
  /\ \A e \in Env :
       WF_all(setup = "events" /\ Events!Work(e) /\ UNCHANGED <<setup, vars, limitVars, issueVars, fleetVars, callVars, responseVars>>)

MCSpec == MCInit /\ [][MCNext]_all /\ MCFairness

-----------------------------------------------------------------------------
Auth == INSTANCE TokenValidator

JWK(kty, kid, use, ok, name) == [kty |-> kty, kid |-> kid, use |-> use, wellFormed |-> ok, name |-> name]
RSAKey == JWK("RSA", "k1", "sig", TRUE, "r1")
ECKey == JWK("EC", "", "sig", TRUE, "e1")
JWKSets == {<<RSAKey>>, <<ECKey>>, <<RSAKey, ECKey>>, <<RSAKey, JWK("oct", "k1", "sig", FALSE, "o1")>>,
            <<JWK("RSA", "k1", "enc", FALSE, "r2"), RSAKey>>, <<RSAKey, JWK("EC", "k1", "sig", FALSE, "e2")>>}

Policies == {[algs |-> a, issuers |-> {<<"us">>}, audiences |-> {<<"api">>}, skew |-> s, requireExp |-> r] :
               a \in {{"RS256"}, {"RS256", "ES256"}}, s \in {0, 1}, r \in BOOLEAN}
GoodClaims == [exp |-> Auth!Number(4), nbf |-> Auth!Missing, iat |-> Auth!Number(2), iss |-> Auth!Text(<<"us">>),
               aud |-> Auth!Text(<<"api">>), scope |-> Auth!Text(<<"read", "write">>), scp |-> Auth!Missing]
GoodToken == [wellFormed |-> TRUE, crit |-> FALSE, alg |-> "RS256", kid |-> "k1",
              signature |-> [key |-> "r1", alg |-> "RS256"], claims |-> GoodClaims]
Dates == {Auth!Missing, Auth!Text(<<"4">>), Auth!Number(2), Auth!Number(3)}
Names(ok) == {Auth!Missing, Auth!Text(<<ok>>), Auth!Text(<<"other">>), Auth!Array(<<Auth!Text(<<"other">>), Auth!Number(1), Auth!Text(<<ok>>)>>)}
Tokens ==
  [wellFormed : BOOLEAN, crit : BOOLEAN, alg : {"RS256", "RS384", "ES256", "none"}, kid : {"", "k1", "k2"},
   signature : [key : {"r1", "e1", "r2"}, alg : {"RS256", "RS384", "ES256"}], claims : {GoodClaims}]
  \union {[GoodToken EXCEPT !.claims = [exp |-> e, nbf |-> n, iat |-> i, iss |-> Auth!Text(<<"us">>),
             aud |-> Auth!Text(<<"api">>), scope |-> Auth!Text(<<"read">>), scp |-> Auth!Missing]] :
           e \in Dates, n \in Dates, i \in Dates}
  \union {[GoodToken EXCEPT !.claims.iss = i, !.claims.aud = a, !.claims.scope = s, !.claims.scp = p] :
           i \in Names("us"), a \in Names("api"), s \in Names("write"), p \in Names("write")}

Front == INSTANCE HTTPFront

Route(method, path, topic, version) == [method |-> method, path |-> path, topic |-> topic, version |-> version]
OrdersPath == <<<<>>, <<"orders">>>>
OrderPath == <<<<>>, <<"orders">>, <<"{", "ID", "}">>>>
VersionedPath == <<<<>>, <<"v", "{", "version", "}">>, <<"{", "id", "}">>>>
Routes ==
  {<<Route("get", OrdersPath, "list", <<>>), Route("GET", OrderPath, "get", <<>>), Route("GET", <<<<>>, <<"orders">>, <<"new">>>>, "draft", <<"2">>)>>,
   <<Route("GET", VersionedPath, "get", <<>>), Route("POST", VersionedPath, "put", <<"2">>), Route("GET", OrderPath, "late", <<>>)>>,
   <<Route("GET", <<<<>>, <<"{", "}">>>>, "literal", <<>>), Route("GET", <<<<>>, <<"{", "id">>>>, "open", <<>>),
     Route("GET", <<<<>>, <<"{", "id", "}", ".", "{", "x", "}">>>>, "two", <<>>), Route("GET", OrdersPath, Front!SpecTopic, <<>>),
     Route("post", OrdersPath, "first", <<>>), Route("POST", OrdersPath, "second", <<>>)>>}
Segments == {<<>>, <<"orders">>, <<"new">>, <<"v">>, <<"v", "1">>, <<"{", "}">>, <<"{", "id">>}
Paths == {<<<<>>, s>> : s \in Segments} \union {<<<<>>, s, t>> : s, t \in Segments}
Requests ==
  [method : {"GET", "get", "POST", "HEAD"}, path : Paths, query : {<<>>, [type |-> "openapi", page |-> "2"]},
   headers : {<<>>, ("Route-id" :> <<<<"mine">>>> @@ "Benzene-Version" :> <<<<"7">>, <<"8">>>> @@ "x-none" :> <<>>)},
   body : {"", "blank", "order", "unreadable"}]

Shop == Front!Full("https", "shop", 443)
Origins == {Front!NoOrigin, Shop, Front!Full("http", "shop", 443), Front!Full("https", "shop", 8443), Front!Bare("shop"), Front!Bare("null")}
Settings ==
  [origins : {{Shop}, {Front!Bare("shop")}, {Front!Anywhere}, {Front!Bare("other"), Shop}}, headers : {{"x-a"}, {"*"}, {}},
   exposed : {{}, {"etag"}}, maxAge : {0, 10}, credentials : BOOLEAN]
CorsRoutes == {[method |-> "GET", path |-> "/orders"], [method |-> "POST", path |-> "/orders"], [method |-> "DELETE", path |-> "/order"]}
CorsRequests == [origin : Origins, method : {"GET", "OPTIONS"}, path : {"/orders", "/order", "/other"}, asked : {{}, {"x-a"}, {"x-a", "x-b"}}]

Mail == INSTANCE MessageHop

Bodies == {Mail!Body(kind) : kind \in {"object", "array", "string", "null", "text", "none"}} \union
          {Mail!Envelope(<<"bills">>, ("trace" :> <<"inner">>), Mail!Body("object"))}
MessageHeaders == {<<>>, ("trace" :> <<"t1">> @@ "note" :> <<>>), ("trace" :> <<"t1">> @@ "topic" :> <<"bills">>),
                   ("Topic" :> <<"bills">>), ("eventbridge-source" :> <<"mine">>), ("topic" :> <<>> @@ "trace" :> <<"t1">>)}
Mails == [topic : {[id |-> "orders", version |-> ""], [id |-> "orders", version |-> "2"]}, headers : MessageHeaders, body : Bodies]
Batches == {<<>>, <<Mail!Body("object")>>, <<Mail!Body("text"), Mail!Body("object")>>}
BatchProperties == {<<>>, <<("topic" :> <<"orders">>)>>, <<("trace" :> <<"t1">>), ("topic" :> <<"bills">> @@ "trace" :> <<"t2">>)>>}

CloudTexts == {Mail!NoText, Mail!Document, Mail!Number("42"), Mail!Word("hi"), Mail!Quote(Mail!Word("hi")), Mail!Quote(Mail!Quote(Mail!Word("hi")))}
CloudEvent ==
  [specversion : {Mail!Word("1.0"), Mail!Word("0.3")}, id : {Mail!Word("e1"), Mail!NoText}, source : {Mail!Word("shop")},
   type : {Mail!Word("orders")}, datacontenttype : {Mail!NoText, Mail!JSONType, Mail!TextType}, subject : {Mail!NoText, Mail!Word("s")},
   data : CloudTexts, extensions : {<<>>, ("traceid" :> Mail!Word("t1")), ("traceid" :> Mail!NoText), ("topic" :> Mail!Word("bills") @@ "trace-id" :> Mail!Word("t1"))}]
CloudAttributes(type) == ("specversion" :> Mail!Word("1.0") @@ "id" :> Mail!Word("e1") @@ "source" :> Mail!Word("shop") @@ "type" :> type)
CloudMembers ==
  {[n \in DOMAIN CloudAttributes(type) |-> Mail!Quote(CloudAttributes(type)[n])] @@ more :
     type \in {Mail!Word("orders"), Mail!NoText},
     more \in {<<>>, ("traceid" :> Mail!Quote(Mail!NoText)), ("data" :> Mail!Document @@ "traceid" :> Mail!Number("7")), ("traceid" :> Mail!Document @@ "trace-id" :> Mail!Quote(Mail!Word("t1"))),
               ("data_base64" :> Mail!Quote(Mail!Base64(Mail!Word("hi")))), ("data_base64" :> Mail!Number("42"))}}
CloudRequests ==
  [contentType : {Mail!Word("batch"), Mail!Word("structured"), Mail!JSONType, Mail!NoText},
   members : {<<>>} \union CloudMembers, headers : {<<>>, CloudAttributes(Mail!NoText), CloudAttributes(Mail!Word("orders")) @@ ("traceid" :> Mail!Word("t1"))},
   body : CloudTexts]

Hop == INSTANCE ResultHop

Pointer == <<"/", "items", "/", "0", "/", "sku">>
Errors == {<<>>, <<Hop!FromMessage(<<"a">>)>>, <<Hop!FromMessage(<<>>), Hop!FromMessage(<<"a">>)>>,
           <<[message |-> <<"a">>, field |-> Pointer, code |-> "required"],
             [message |-> <<"a", "b">>, field |-> <<"/", "sku">>, code |-> ""], Hop!FromMessage(<<"c">>)>>}
Authored == [type |-> "ours", status |-> 0, detail |-> <<"declined">>, benzeneStatus |-> "out-of-stock",
             errors |-> <<[message |-> <<"none left">>, field |-> Pointer, code |-> "stock"]>>]
Vocabulary == Hop!SuccessStatuses \union Hop!FailureStatuses \union {"out-of-stock"}
Results ==
  {Hop!FailWith(s, e) : s \in Vocabulary, e \in Errors} \union {Hop!ProblemResult(Authored)}
  \union {Hop!Literal(s, p, <<>>) : s \in Vocabulary, p \in {Hop!NoPayload, "order", "unhealthy", "unmarshalable"}}
  \union {Hop!Literal(s, Hop!NoPayload, e) : s \in Hop!FailureStatuses, e \in Errors}

-----------------------------------------------------------------------------
\* (The next three hold in every state: what is asked of states is asked of those that a
\* step ends in, since the first states are those before anything was asked.)

\* GetOrLoad, whose fill may race a write and its invalidation, serves nothing that
\* was out of date for as long as the ttl and a load, and nothing enters the cache
\* but what a call returns as loaded, in particular no failure (cache.go:51-68).
CacheIsHonest == [][StalenessIsBounded']_vars /\ NothingRemembersAFailure

\* A call is attempted as often as it may be and as its results call for, nothing is done
\* twice but what no reply told of, and nothing is begun for a caller that is gone
\* (retry.go:36-76, failure.go:10-41).
CallsAreHonest == [][Call!CallsAreHonest']_callVars /\ Call!NothingAfterTheEnd

\* The platform forgets a message only on the word of the invocation that handled it,
\* an event whose order matters is handled in it, and an answer that arrives frees all it
\* can (sqs.go:79-100, sns.go:77-98, s3.go:117-134, eventhub.go:81-114, runtime.go:77-109);
\* and a message whose response is published as events is acknowledged only when they are
\* out, as its failure mode has it (responseevents.go:115-144).
EventsAreAnswered ==
  /\ [][Responses!EventsFollowTheResponse']_responseVars
  /\ [][Events!EventsAreAnswered']_eventVars /\ [][Events!LetGoOfKnowingly]_eventVars

\* In the end the platform has let go of every message, whose handler may fail, panic, die
\* or have its answer lost now and then (sqs.go:79-100, eventhub.go:81-114, runtime.go:77-109).
EventsAreLetGo == setup = "events" => Events!AllLetGo

\* The token bucket lets through what burst and rate allow over every interval, no more
\* and no less, with a clock that jumps (tokenbucket.go:53-74).
QuotaIsExact == Limit!QuotaHolds /\ Limit!ShedsOnlyTheExcess

\* What the collector shows is what the services sent: each occurrence of a failure is
\* counted once however batches are lost, repeated or overtaken, an issue's span covers
\* it, what a handler threw is one issue, Close sends the tail; and the views count, show as
\* missing and blame what the messages that arrived say, over the last events that did, of
\* whose flows the newest are shown (issues.go:204-421, store.go:111-444, 540-686).
MeshViewsAreTrue ==
  /\ setup = "cases" => \A a, b \in FailureCases : Issues!ThrowsAreOneIssue(a, b)
  /\ Issues!CountsAreDeltas /\ Issues!SpansAreTrue /\ Issues!TailIsSent
  /\ Fleet!ViewsAreTrue

\* A request goes through exactly with a token signed by a key of the set that its
\* header may use, with claims the policy accepts at this time and the scope that the
\* route asks for (jwt.go:218-396, jwtkeys.go:33-211, bearer.go:43-170).
BearersAreExact ==
  /\ \A jwks \in JWKSets : Auth!KeySetIsExact(jwks)
  /\ \A policy \in Policies, jwks \in JWKSets, token \in Tokens, now \in 1..5 :
       Auth!BearerIsExact(policy, jwks, [bearer |-> TRUE, token |-> token], now, "write")

\* A request takes the route that its path and method are of, with the parameters that are
\* in the path; and a browser of another origin is granted what the settings say, on the
\* paths of the routes (httpbinding.go:77-360, cors.go:52-213).
FrontIsExact ==
  /\ \A routes \in Routes, request \in Requests : Front!RouteIsExact(routes, request)
  /\ \A body \in {[kind |-> "unreadable"], [kind |-> "junk"], [kind |-> "envelope", topic |-> "orders"], [kind |-> "envelope", topic |-> "bills"]} :
       Front!EnvelopeIsExact({"orders"}, body)
  /\ \A request \in Requests : Front!HandleSpec(request).kind = "dispatched" <=> request.method \in {"GET", "HEAD"}
  /\ \A settings \in Settings, request \in CorsRequests : Front!CrossOriginIsExact(settings, CorsRoutes, request)

\* What a handler answered is what its caller hears, over an envelope, a Lambda
\* invocation, a native HTTP route, gRPC and in the same process, as far as the transport
\* can say it (dispatch.go:95-204, httpclient.go:69-147, server.go:94-249, inprocess.go:193-224).
ResultsSurvive ==
  /\ Hop!VocabularyIsKept
  /\ \A topic \in {"orders", "benzene:readiness"}, given \in Results : Hop!ResultSurvives(topic, given)

\* A result of an application's own failing status fails at a caller in the same process
\* too (inprocess.go:112-114, result.go:73-76).
FailureStaysFailure ==
  setup = "cases" => \A given \in Results : Hop!IsConsistent(given) => Hop!FailureStaysFailure(given)

\* What a client sends is what a receiver reads from the same transport, and what a host
\* delivers in a batch is what is in it; a CloudEvent survives either content mode and its
\* way out again (metadata.go:102-128, eventhub.go:116-194, cloudevents.go:83-293).
MessagesAreExact ==
  /\ \A way \in Mail!Ways, message \in Mails : Mail!MessageArrives(way, message)
  /\ \A name \in {"topic", "Topic"}, body \in Bodies : Mail!SpellingIsFree(name, <<"orders">>, ("trace" :> <<"t1">>), body)
  /\ \A batch \in Batches, properties \in BatchProperties : Mail!TriggersAreRead(batch, properties)
  /\ \A event \in CloudEvent : Mail!EventSurvives(event)
  /\ \A request \in CloudRequests : Mail!ParsesOnlyEvents(request)

\* What is decided at the edges case by case: about requests, messages and results.
EdgesAreExact == setup = "cases" => BearersAreExact /\ FrontIsExact /\ MessagesAreExact /\ ResultsSurvive
=============================================================================
