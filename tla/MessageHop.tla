----------------------------- MODULE MessageHop -----------------------------
(***************************************************************************)
(* A message from an outbound client to the inbound binding that reads its *)
(* transport: where the topic, the headers and the body travel, and what   *)
(* of them a receiver finds again (the clients' Send, the bindings'        *)
(* resolveRequest, wire/metadata.go).                                      *)
(*                                                                         *)
(* Texts are sequences of words.  A native message has attributes, a       *)
(* routing name of the transport's own and a body; what a receiver makes   *)
(* of it is a set of requests, for where it goes through a Go map.  Then   *)
(* the CloudEvents, whose texts have their own kinds.                      *)
(***************************************************************************)
EXTENDS Naturals, Sequences, SequencesExt, FiniteSets, Functions, TLC

TopicKey == "topic"
Lower(name) == IF name = "Topic" THEN TopicKey ELSE IF name = "Trace" THEN "trace" ELSE name

\* Topic.String: what the clients write is the id with the version in it.
TopicText(topic) == IF topic.version = "" THEN <<topic.id>> ELSE <<topic.id, "@", topic.version>>

Native(attributes, routing, body) == [attributes |-> attributes, routing |-> routing, body |-> body]
Request(topic, headers, body) == [topic |-> topic, headers |-> headers, body |-> body]

\* Bodies: a JSON object, an array, a string of a text, a null, text that is no JSON, none at
\* all, a whole envelope, and a detail with headers in it.
Body(kind) == [kind |-> kind]
Envelope(topic, headers, body) == [kind |-> "envelope", topic |-> topic, headers |-> headers, body |-> body]
Detail(body, headers) == [kind |-> "detail", of |-> body, embedded |-> headers]
IsObject(body) == body.kind \in {"object", "envelope"}
IsJSONBody(body) == body.kind \notin {"text", "none"}

-----------------------------------------------------------------------------
(* Sending *)

\* Wrong variant: the headers are written after it.
TopicUnder(message) == message.headers @@ (TopicKey :> TopicText(message.topic))

\* The topic after the headers, over one of its name.
TopicOver(message) == (TopicKey :> TopicText(message.topic)) @@ message.headers
SendServiceBus(message) == Native(TopicOver(message), <<>>, message.body)
SendEventHub(message) == Native(TopicOver(message), <<>>, message.body)
SendRabbit(message) == Native(TopicOver(message), TopicText(message.topic), message.body)

\* An empty header is no attribute.
SendPubSub(message) ==
  Native((TopicKey :> TopicText(message.topic)) @@ Restrict(message.headers, {n \in DOMAIN message.headers : message.headers[n] # <<>>}),
         <<>>, message.body)

\* The headers after the topic, one of its name over it.
SendSQS(message) == Native(message.headers @@ (TopicKey :> TopicText(message.topic)), <<>>, message.body)
SendSNS(message) == Native(message.headers @@ (TopicKey :> TopicText(message.topic)), <<>>, message.body)

SendKafka(message) == Native(message.headers, TopicText(message.topic), message.body)

\* embedDetailHeaders: into an object; a null has a nil map to write to, and panics.
Embed(body, headers) ==
  IF headers = <<>> THEN {body}
  ELSE IF body.kind = "null" THEN {}
  ELSE {IF IsObject(body) THEN Detail(body, headers) ELSE body}

\* What is sent, if anything is: the service refuses a detail that is no JSON.
SendEventBridge(message) ==
  {Native(<<>>, TopicText(message.topic), detail) : detail \in {d \in Embed(message.body, message.headers) : IsJSONBody(d)}}

CloudExtensions(headers) ==
  [n \in {Lower(h) : h \in DOMAIN headers} |-> headers[CHOOSE h \in DOMAIN headers : Lower(h) = n]]

\* Wrong variant: an empty body is put in the event as it is.
SendEventGridAsIs(message) ==
  {Native(CloudExtensions(message.headers), TopicText(message.topic), data) : data \in {d \in {message.body} : IsJSONBody(d)}}

\* Extensions are in lower case, an empty body is null; data that is no JSON fails to
\* serialize, and the call is a failure.
SendEventGrid(message) ==
  LET normalized == IF message.body.kind = "none" THEN Body("null") ELSE message.body
  IN {Native(CloudExtensions(message.headers), TopicText(message.topic), data) : data \in {d \in {normalized} : IsJSONBody(d)}}

SendQueueStorage(message) == Native(<<>>, <<>>, Envelope(TopicText(message.topic), message.headers, message.body))
StartExecution(message) == Native(<<>>, <<>>, Envelope(TopicText(message.topic), message.headers, message.body))

-----------------------------------------------------------------------------
(* Receiving *)

\* Wrong variant: names are compared as they are written.
ResolveMetadataTopicExactly(metadata) ==
  IF TopicKey \in DOMAIN metadata
  THEN {[topic |-> metadata[TopicKey], headers |-> Restrict(metadata, DOMAIN metadata \ {TopicKey})]}
  ELSE {[topic |-> <<>>, headers |-> metadata]}

\* The first entry met that is spelled like the key and not empty is the topic; what is met
\* after it is a header, whatever its name.
ResolveMetadataTopic(metadata) ==
  LET spelled == {n \in DOMAIN metadata : Lower(n) = TopicKey}
      candidates == {n \in spelled : metadata[n] # <<>>}
  IN IF candidates = {} THEN {[topic |-> <<>>, headers |-> Restrict(metadata, DOMAIN metadata \ spelled)]}
     ELSE {[topic |-> metadata[n], headers |-> Restrict(metadata, DOMAIN metadata \ (met \union {n}))] :
             n \in candidates, met \in SUBSET (spelled \ candidates)}

\* Wrong variant: a body that is an envelope is opened, topic or no topic.
OrEnvelopeAlways(resolved, body) ==
  IF body.kind = "envelope" /\ body.topic # <<>> THEN Request(body.topic, body.headers @@ resolved.headers, body.body)
  ELSE Request(resolved.topic, resolved.headers, body)

\* Without a topic in the attributes the body may be an envelope; its headers are over theirs.
OrEnvelope(resolved, body) ==
  IF resolved.topic = <<>> /\ body.kind = "envelope" /\ body.topic # <<>>
  THEN Request(body.topic, body.headers @@ resolved.headers, body.body)
  ELSE Request(resolved.topic, resolved.headers, body)

ReceiveSQS(native) == {OrEnvelope(r, native.body) : r \in ResolveMetadataTopic(native.attributes)}
PollSQS(native) == {OrEnvelope(r, native.body) : r \in ResolveMetadataTopic(native.attributes)}
ReceiveSNS(native) == {OrEnvelope(r, native.body) : r \in ResolveMetadataTopic(native.attributes)}
ReceivePubSub(native) == {OrEnvelope(r, native.body) : r \in ResolveMetadataTopic(native.attributes)}
ReceiveServiceBus(native) == {OrEnvelope(r, native.body) : r \in ResolveMetadataTopic(native.attributes)}
ReceiveEventHub(native) == {OrEnvelope(r, native.body) : r \in ResolveMetadataTopic(native.attributes)}

\* The Functions host quotes a body or hands JSON as it is; then a string loses its quotes
\* and a null reads as no text.
TriggerText(body) ==
  {body} \union {text \in {Body("text")} : body.kind = "string"} \union {text \in {Body("none")} : body.kind = "null"}
ReceiveTrigger(native) ==
  {OrEnvelope(r, text) : r \in ResolveMetadataTopic(native.attributes), text \in TriggerText(native.body)}

\* The routing name, where the attributes have no topic; for AMQP the envelope after it.
Routed(resolved, native) == IF resolved.topic # <<>> THEN resolved ELSE [resolved EXCEPT !.topic = native.routing]
ReceiveKafka(native) ==
  {Request(Routed(r, native).topic, r.headers, native.body) : r \in ResolveMetadataTopic(native.attributes)}
ReceiveKafkaLambda(native) ==
  {Request(Routed(r, native).topic, r.headers, native.body) : r \in ResolveMetadataTopic(native.attributes)}
ReceiveRabbit(native) == {OrEnvelope(Routed(r, native), native.body) : r \in ResolveMetadataTopic(native.attributes)}

\* Wrong variant: the rule's own metadata over what was embedded.
LiftUnder(rule, body) == IF body.kind = "detail" THEN rule @@ body.embedded ELSE rule

\* embeddedHeaders, over the metadata of the rule.
Lift(rule, body) == IF body.kind = "detail" THEN body.embedded @@ rule ELSE rule
ReceiveEventBridge(native) ==
  {Request(native.routing, Lift(("eventbridge-source" :> <<"shop">>), native.body), native.body)}

\* Of the event's attributes only id, subject and source, which no extension is.
ReceiveEventGrid(native) ==
  {Request(native.routing, ("source" :> <<"shop">>), IF native.body.kind \in {"null", "none"} THEN Body("object") ELSE native.body)}

\* The whole input is an envelope, for the envelope handlers and the state machine's task.
ReceiveEnvelope(native) == {Request(native.body.topic, native.body.headers, native.body.body)}

-----------------------------------------------------------------------------
(* What the Functions host makes of a trigger's input *)

Absent == [shape |-> "absent"]
Null == [shape |-> "null"]
Items(s) == [shape |-> "array", of |-> s]
Quoted(input) == [shape |-> "string", text |-> input]
Single(item) == [shape |-> "object", of |-> item]

\* Wrong variant: a quoted input is not looked into.
UnwrapNever(input) == input

\* The input may be JSON or a JSON string of it.
Unwrap(input) == IF input.shape = "string" THEN input.text ELSE input

\* resolveEventHubBatch: what is no array is no event.
EventHubBatch(input) == IF Unwrap(input).shape = "array" THEN Unwrap(input).of ELSE <<>>

\* resolveEventHubProperties: those of an event that has none are empty.
PropertiesAt(properties, i) == IF i <= Len(properties) THEN properties[i] ELSE <<>>
EventHubRequests(input, properties) ==
  [i \in DOMAIN EventHubBatch(input) |-> ReceiveTrigger(Native(PropertiesAt(properties, i), <<>>, EventHubBatch(input)[i]))]

\* resolveCosmosBatch and resolveTimerBody: none is an empty one.
CosmosBatch(input) == IF Unwrap(input).shape \in {"absent", "null"} THEN Items(<<>>) ELSE Unwrap(input)
TimerBody(input) == IF Unwrap(input).shape \in {"absent", "null"} THEN Single(Body("object")) ELSE Unwrap(input)

-----------------------------------------------------------------------------
Ways == {"sqs", "sqs poll", "sns", "pubsub", "servicebus", "servicebus trigger", "eventhub", "eventhub trigger",
         "kafka", "kafka lambda", "rabbitmq", "eventbridge", "eventgrid", "queue storage", "execution"}

Arrivals(way, message) ==
  CASE way = "sqs" -> ReceiveSQS(SendSQS(message))
    [] way = "sqs poll" -> PollSQS(SendSQS(message))
    [] way = "sns" -> ReceiveSNS(SendSNS(message))
    [] way = "pubsub" -> ReceivePubSub(SendPubSub(message))
    [] way = "servicebus" -> ReceiveServiceBus(SendServiceBus(message))
    [] way = "servicebus trigger" -> ReceiveTrigger(SendServiceBus(message))
    [] way = "eventhub" -> ReceiveEventHub(SendEventHub(message))
    [] way = "eventhub trigger" -> LET sent == SendEventHub(message) IN EventHubRequests(Items(<<sent.body>>), <<sent.attributes>>)[1]
    [] way = "kafka" -> ReceiveKafka(SendKafka(message))
    [] way = "kafka lambda" -> ReceiveKafkaLambda(SendKafka(message))
    [] way = "rabbitmq" -> ReceiveRabbit(SendRabbit(message))
    [] way = "eventbridge" -> UNION {ReceiveEventBridge(native) : native \in SendEventBridge(message)}
    [] way = "eventgrid" -> UNION {ReceiveEventGrid(native) : native \in SendEventGrid(message)}
    [] way = "queue storage" -> ReceiveTrigger(SendQueueStorage(message))
    [] way = "execution" -> ReceiveEnvelope(StartExecution(message))

Stray(message) == {n \in DOMAIN message.headers : Lower(n) = TopicKey}
CarriesHeaders(way, message) == way # "eventgrid" /\ (way = "eventbridge" => IsObject(message.body))
CarriesEmpty(way) == way # "pubsub"

\* Where only JSON can be sent; Event Grid makes it of an empty body, and EventBridge has no
\* way for headers with a null.
Sendable(way, message) ==
  CASE way = "eventbridge" -> IsJSONBody(message.body) /\ (message.body.kind = "null" => message.headers = <<>>)
    [] way = "eventgrid" -> message.body.kind # "text"
    [] OTHER -> TRUE

\* What a receiver may read for the body: Event Grid has {} for nothing, a trigger may lose
\* the quotes of a string and a null.
Readings(way, message) ==
  CASE way = "eventgrid" -> IF message.body.kind \in {"null", "none"} THEN {Body("object")} ELSE {message.body}
    [] way = "eventbridge" -> {message.body, Detail(message.body, message.headers)}
    [] way \in {"servicebus trigger", "eventhub trigger"} -> TriggerText(message.body)
    [] OTHER -> {message.body}

\* Over every transport a message that can be sent there reaches the topic it is sent to, with
\* the body and the headers it was sent with, as far as the transport has a place for them, an
\* envelope in the body left alone; no header of its own sends it elsewhere where the topic is
\* written last or apart; and what cannot be sent arrives nowhere (metadata.go:102-128, and
\* the clients' Send).
MessageArrives(way, message) ==
  LET spread == DOMAIN message.headers \ Stray(message)
      apart == {"eventbridge", "eventgrid", "queue storage", "execution"}
      last == {"pubsub", "servicebus", "servicebus trigger", "eventhub", "eventhub trigger", "rabbitmq"}
  IN /\ Arrivals(way, message) # {} <=> Sendable(way, message)
     /\ Stray(message) = {} \/ way \in apart \/ (way \in last /\ Stray(message) = {TopicKey}) =>
          \A r \in Arrivals(way, message) :
            /\ r.topic = TopicText(message.topic)
            /\ r.body \in Readings(way, message)
            /\ CarriesHeaders(way, message) =>
                 \A n \in spread : CarriesEmpty(way) \/ message.headers[n] # <<>> =>
                   n \in DOMAIN r.headers /\ r.headers[n] = message.headers[n]
            /\ way \notin apart => DOMAIN r.headers \subseteq spread

\* The spelling of the key in the metadata of another's message is of no account, and a
\* message without a topic there goes where its envelope says.
SpellingIsFree(name, topic, headers, body) ==
  /\ \A r \in ReceiveSQS(Native((name :> topic) @@ headers, <<>>, body)) : r = Request(topic, headers, body)
  /\ \A r \in ReceiveSQS(Native(headers, <<>>, Envelope(topic, headers, body))) : r = Request(topic, headers, body)

\* However the host writes a batch down, each event of it is read, in its order and with its
\* own properties, and none where there is no batch; a timer's own input is read whichever way
\* it is written (eventhub.go:116-164, cosmos.go:87-104, timer.go:68-87).
TriggersAreRead(batch, properties) ==
  /\ \A input \in {Items(batch), Quoted(Items(batch))} :
       /\ Len(EventHubRequests(input, properties)) = Len(batch)
       /\ \A i \in DOMAIN batch : \A r \in EventHubRequests(input, properties)[i] :
            /\ r.body = batch[i]
            /\ i <= Len(properties) /\ TopicKey \in DOMAIN properties[i] => r.topic = properties[i][TopicKey]
            /\ i > Len(properties) => r.topic = <<>>
       /\ CosmosBatch(input) = Items(batch)
  /\ \A input \in {Absent, Null, Quoted(Null)} :
       CosmosBatch(input) = Items(<<>>) /\ EventHubBatch(input) = <<>> /\ TimerBody(input) = Single(Body("object"))
  /\ \A i \in DOMAIN batch : TimerBody(Quoted(Single(batch[i]))) = Single(batch[i])

-----------------------------------------------------------------------------
(* CloudEvents in and out (cloudevents/cloudevents.go, cloudevents/http.go and the Cloud   *)
(* Function of gcpfunctions/gcpfunctions.go): an event in either content mode, the request *)
(* it becomes, and the event a request becomes.                                            *)

\* A text is empty, a word that is no JSON, a JSON document or number, a JSON string of a
\* text, or the base64 of one.  dataschema and time go the way of subject, which stands for them.
NoText == [kind |-> "none"]
Document == [kind |-> "document"]
Word(w) == [kind |-> "word", word |-> w]
Number(n) == [kind |-> "number", word |-> n]
Quote(t) == [kind |-> "string", of |-> t]
Base64(t) == [kind |-> "base64", of |-> t]
IsJSON(text) == text.kind \in {"document", "number", "string"}

JSONType == Word("application/json")
TextType == Word("text/plain")
IsJSONType(contentType) == contentType = JSONType

Attributes == {"specversion", "id", "source", "type", "datacontenttype", "subject"}
Specified == Attributes \union {"data", "data_base64"}
LegalNames == {"traceid", "topic"}
LegalExtensionName(name) == name \in LegalNames \ Specified

Invalid == [type |-> NoText]
Valid(event) ==
  event.specversion = Word("1.0") /\ \A a \in {"type", "id", "source"} : event[a] # NoText

-----------------------------------------------------------------------------
(* In *)

Member(members, name) == IF name \in DOMAIN members THEN members[name] ELSE NoText

\* stringMember: what is no string is as good as absent.
StringMember(members, name) == IF Member(members, name).kind = "string" THEN Member(members, name).of ELSE NoText

\* Wrong variant: of the scalars only a text is one.
IsScalarText(value) == value.kind = "string"

\* scalarString: its ok, and what it writes; an empty string is one too.
IsScalar(value) == value.kind \in {"string", "number"}
ScalarString(value) == IF value.kind = "string" THEN value.of ELSE Word(value.word)

\* Either data as it stands, or a JSON string of what data_base64 decodes to.
DataMember(members) ==
  IF "data_base64" \notin DOMAIN members THEN [ok |-> TRUE, data |-> Member(members, "data")]
  ELSE IF StringMember(members, "data_base64").kind = "base64"
       THEN [ok |-> TRUE, data |-> Quote(StringMember(members, "data_base64").of)]
       ELSE [ok |-> FALSE, data |-> NoText]

Extensions(members) ==
  LET names == {n \in DOMAIN members \ Specified : IsScalar(members[n])}
  IN [n \in names |-> ScalarString(members[n])]

\* ParseStructured, of the members of a JSON object. An event carries one kind of data.
ParseStructured(members) ==
  LET event == [a \in Attributes |-> StringMember(members, a)]
                 @@ ("data" :> DataMember(members).data) @@ ("extensions" :> Extensions(members))
  IN IF DataMember(members).ok /\ Valid(event) THEN event ELSE Invalid

\* ParseBinary, of the ce- headers without their prefix.
ParseBinary(headers, contentType, body) ==
  LET event == [a \in Attributes |-> IF a = "datacontenttype" THEN contentType ELSE Member(headers, a)]
                 @@ ("data" :> body) @@ ("extensions" :> Restrict(headers, {n \in DOMAIN headers : LegalExtensionName(n)}))
  IN IF Valid(event) THEN event ELSE Invalid

\* parseHTTP and the refusals of Handler.
ParseHTTP(request) ==
  CASE request.contentType = Word("batch") -> [code |-> 415, event |-> Invalid]
    [] request.contentType = Word("structured") /\ request.members # <<>> /\ ParseStructured(request.members) # Invalid ->
         [code |-> 0, event |-> ParseStructured(request.members)]
    [] request.contentType \notin {Word("batch"), Word("structured")} /\ "specversion" \in DOMAIN request.headers
       /\ ParseBinary(request.headers, request.contentType, request.body) # Invalid ->
         [code |-> 0, event |-> ParseBinary(request.headers, request.contentType, request.body)]
    [] OTHER -> [code |-> 400, event |-> Invalid]

-----------------------------------------------------------------------------
(* As a request and back *)

\* The headers of an event, without their ce- prefix; none is empty but an extension.
Headers(event) ==
  Restrict(event, {a \in Attributes \ {"type"} : event[a] # NoText}) @@ event.extensions

\* Wrong variant: a text stays the JSON string it came as.
PayloadVerbatim(event) == event.data

\* A text by its content type loses the quotes of its JSON string.
Payload(event) ==
  IF event.datacontenttype # NoText /\ ~IsJSONType(event.datacontenttype) /\ event.data.kind = "string"
  THEN event.data.of ELSE event.data

ToRequest(event) == [topic |-> event.type, headers |-> Headers(event), body |-> Payload(event)]

\* The function's topic falls back to the extension named like the topic key.
FunctionRequest(event) ==
  LET request == ToRequest(event)
  IN IF request.topic = NoText /\ "topic" \in DOMAIN event.extensions
     THEN [request EXCEPT !.topic = event.extensions["topic"]] ELSE request

\* Wrong variant: the identity of the event that came in goes out again.
IdentityOf(headers, name, given) == IF name \in DOMAIN headers THEN headers[name] ELSE given

\* An event's identity is its sender's.
Identity(headers, name, given) == given

\* FromRequest: what is no JSON is quoted, as a text unless the headers say what it is.
FromRequest(request, id, source) ==
  LET said == Member(request.headers, "datacontenttype")
      quoted == ~IsJSON(request.body) /\ request.body # NoText
  IN [specversion |-> Word("1.0"), type |-> request.topic,
      id |-> Identity(request.headers, "id", id), source |-> Identity(request.headers, "source", source),
      datacontenttype |-> IF "datacontenttype" \in DOMAIN request.headers THEN said ELSE IF quoted THEN TextType ELSE JSONType,
      subject |-> Member(request.headers, "subject"),
      data |-> IF quoted THEN Quote(request.body) ELSE request.body,
      extensions |-> Restrict(request.headers, {n \in DOMAIN request.headers : LegalExtensionName(n)})]

\* MarshalJSON: what is no JSON is quoted, of an extension's name only a legal one written.
Marshal(event) ==
  LET written == {a \in Attributes : event[a] # NoText \/ a \in {"specversion", "id", "source", "type"}}
      data == IF IsJSON(event.data) THEN event.data ELSE Quote(event.data)
      extensions == Restrict(event.extensions, {n \in DOMAIN event.extensions : LegalExtensionName(n)})
  IN [a \in written |-> Quote(event[a])]
     @@ (IF event.data = NoText THEN <<>> ELSE ("data" :> data))
     @@ [n \in DOMAIN extensions |-> Quote(extensions[n])]

-----------------------------------------------------------------------------
\* The event's data is what its content type says: JSON, unless that is another. A text is
\* not a JSON string itself: it loses its quotes at every hop.
IsHonest(event) ==
  event.data = NoText \/
  (IF event.datacontenttype = NoText \/ IsJSONType(event.datacontenttype) THEN IsJSON(event.data)
   ELSE event.data.kind \in {"word", "string"} /\ Payload(event).kind # "string")

Portable(event) == Restrict(event.extensions, {n \in DOMAIN event.extensions : LegalExtensionName(n)})

\* An event that goes out again as it came in is the same request to its next receiver, under
\* an identity of its new sender's, whether it was a JSON document or a text; it parses back
\* from its JSON; and a text reaches its handler as it is in either content mode
\* (cloudevents.go:83-293, http.go:83-128).
EventSurvives(event) ==
  Valid(event) /\ IsHonest(event) =>
    LET request == ToRequest(event)
        again == FromRequest(request, Word("new"), Word("us"))
        parsed == ParseStructured(Marshal(again))
        binary == ParseBinary(Restrict(event, Attributes) @@ Portable(event), event.datacontenttype, Payload(event))
    IN /\ Valid(again) /\ again.id = Word("new") /\ again.source = Word("us")
       /\ ToRequest(again).body = request.body /\ again.type = event.type /\ again.subject = event.subject
       /\ again.extensions = Portable(event)
       /\ parsed = again
       /\ binary # Invalid /\ ToRequest(binary).topic = request.topic
       /\ ToRequest(binary).body = request.body

\* A scalar of any JSON type is an attribute, and what is not an event is refused: no
\* batch, nothing without what it has to have, no data that cannot be read.
ParsesOnlyEvents(request) ==
  LET got == ParseHTTP(request)
  IN /\ got.code = 0 => Valid(got.event)
     /\ got.code = 0 /\ request.contentType = Word("structured") =>
          /\ \A n \in DOMAIN request.members \ Specified :
               request.members[n].kind \in {"string", "number"} => n \in DOMAIN got.event.extensions
          /\ "data_base64" \in DOMAIN request.members => got.event.data = Quote(request.members["data_base64"].of.of)
     /\ got.code = 0 => FunctionRequest(got.event) = ToRequest(got.event)
=============================================================================
