--------------------------- MODULE ResponseEvents ---------------------------
(***************************************************************************)
(* A handler's response published as events (responseevents/): the         *)
(* middleware resolves and publishes its mappings one after the other,     *)
(* through a client.Sender whose reply may be lost or through the          *)
(* in-process fan-out (inprocess/inprocess.go), which never refuses.  The  *)
(* message comes from a transport that delivers it again when it failed or *)
(* when the process died.                                                  *)
(*                                                                         *)
(* published is every event of the present delivery, each by the position  *)
(* of its mapping and with how its publisher answered; told is what        *)
(* OnPublishError heard.                                                   *)
(***************************************************************************)
EXTENDS Naturals, Sequences, FiniteSets

CONSTANTS
  Chain,          \* sequences of mappings
  Source,         \* topics, <<entity, verb>>
  Response,       \* what the handler may answer
  MaxDeliveries   \* a bound on the deliveries of the message

VARIABLES mode, publisher, chain, handled, step, response, outcome, position, published, told, deliveries

vars == <<mode, publisher, chain, handled, step, response, outcome, position, published, told, deliveries>>

NoPayload == "none"
NoEvent == <<>>
\* Verbs as they may be written, folded; the past tense only adds a letter.
Folded == [create |-> "create", Create |-> "create", update |-> "update", show |-> "show"]
Past == [create |-> "created", Create |-> "Created", update |-> "updated"]
SourceTopic == STRING \X DOMAIN Folded
Mapping ==
  [kind : {"crud"}] \union
  [kind : {"map"}, from : SourceTopic, event : STRING \X STRING, when : {"success", "failures"}, project : {"all", "nothing"}]
Result == [status : STRING, successful : BOOLEAN, payload : STRING]
SameTopic(a, b) == a[1] = b[1] /\ Folded[a[2]] = Folded[b[2]]

\* crudVerbToStatus
VerbStatus == [create |-> "created", update |-> "updated"]

\* Wrong variant: the convention asks for success, not for the verb's status.
CrudFiresOnSuccess(topic, result) == Folded[topic[2]] \in DOMAIN VerbStatus /\ result.successful

CrudFires(topic, result) ==
  Folded[topic[2]] \in DOMAIN VerbStatus /\ result.status = VerbStatus[Folded[topic[2]]]

\* Wrong variant: a predicate is asked besides the result's success.
MapFiresAlsoOnSuccess(mapping, result) == result.successful /\ (mapping.when = "failures" => ~result.successful)

\* When replaces the success of the result as the condition.
MapFires(mapping, result) == IF mapping.when = "failures" THEN ~result.successful ELSE result.successful

Fires(mapping, topic, result) ==
  IF mapping.kind = "crud" THEN CrudFires(topic, result)
  ELSE SameTopic(topic, mapping.from) /\ MapFires(mapping, result) /\ mapping.project # "nothing"

\* Mapping.Resolve: the event's topic, or NoEvent; there is none without a payload.
Resolve(mapping, topic, result) ==
  IF result.payload = NoPayload \/ ~Fires(mapping, topic, result) THEN NoEvent
  ELSE IF mapping.kind = "crud" THEN <<topic[1], Past[topic[2]]>> ELSE mapping.event

\* What Publish of a sender and of the fan-out may come to: the event is out and accepted,
\* is out with its reply lost, is refused; or is accepted and fails at its only target.
Replies == [sender |-> {"sent", "unanswered", "refused"}, fanout |-> {"sent", "lost"}]
Accepts(reply) == reply \in {"sent", "lost"}

UnexpectedError == [status |-> "unexpected-error", successful |-> FALSE, payload |-> NoPayload]
NoResult == [status |-> "missing", successful |-> FALSE, payload |-> NoPayload]
Error == [status |-> "error", successful |-> FALSE, payload |-> NoPayload]

Init ==
  /\ mode \in {"FailMessage", "LogAndContinue"} /\ publisher \in DOMAIN Replies
  /\ chain \in Chain /\ handled \in Source
  /\ step = "delivered" /\ response = NoResult /\ outcome = NoResult /\ position = 1
  /\ published = <<>> /\ told = 0 /\ deliveries = 1

\* next returns: an error and a missing result leave the middleware at once.
Handle(result) ==
  /\ step = "delivered"
  /\ response' = result /\ outcome' = result /\ position' = 1 /\ told' = 0
  /\ step' = IF result \in {Error, NoResult} THEN "answered" ELSE "publishing"
  /\ UNCHANGED <<mode, publisher, chain, handled, published, deliveries>>

\* The mapping at hand does not apply.
Skip ==
  /\ step = "publishing" /\ position <= Len(chain)
  /\ Resolve(chain[position], handled, outcome) = NoEvent
  /\ position' = position + 1
  /\ UNCHANGED <<mode, publisher, chain, handled, step, response, outcome, published, told, deliveries>>

\* Wrong variant: the failed event is logged and the message acknowledged.
OnFailureKeeps == UNCHANGED <<outcome, step>> /\ position' = position + 1

\* A publication that failed, by the failure mode.
OnFailure ==
  IF mode = "FailMessage"
  THEN outcome' = UnexpectedError /\ step' = "answered" /\ UNCHANGED position
  ELSE UNCHANGED <<outcome, step>> /\ position' = position + 1

\* The mapping at hand applies.
Publish(reply) ==
  /\ step = "publishing" /\ position <= Len(chain)
  /\ Resolve(chain[position], handled, outcome) # NoEvent
  /\ published' = Append(published, [position |-> position, reply |-> reply])
  /\ \/ Accepts(reply) /\ position' = position + 1 /\ UNCHANGED <<outcome, step, told>>
     \/ ~Accepts(reply) /\ told' = told + 1 /\ OnFailure
  /\ UNCHANGED <<mode, publisher, chain, handled, response, deliveries>>

Return ==
  /\ step = "publishing" /\ position > Len(chain)
  /\ step' = "answered"
  /\ UNCHANGED <<mode, publisher, chain, handled, response, outcome, position, published, told, deliveries>>

\* The transport, at least once.
Acknowledge ==
  /\ step = "answered" /\ outcome.successful
  /\ step' = "acknowledged"
  /\ UNCHANGED <<mode, publisher, chain, handled, response, outcome, position, published, told, deliveries>>

Redeliver ==
  /\ deliveries < MaxDeliveries
  /\ \/ step = "answered" /\ ~outcome.successful
     \/ step \in {"delivered", "publishing"}   \* the process died
  /\ step' = "delivered" /\ deliveries' = deliveries + 1 /\ published' = <<>>
  /\ UNCHANGED <<mode, publisher, chain, handled, response, outcome, position, told>>

Next ==
  \/ \E result \in Response \union {Error, NoResult} : Handle(result)
  \/ Skip \/ \E reply \in Replies[publisher] : Publish(reply)
  \/ Return \/ Acknowledge \/ Redeliver

-----------------------------------------------------------------------------
\* Reference: the positions of the mappings that the repository's own words say apply.
Applies(mapping, result) ==
  /\ result.payload # NoPayload
  /\ \/ mapping.kind = "crud" /\ <<Folded[handled[2]], result.status>> \in {<<"create", "created">>, <<"update", "updated">>}
     \/ /\ mapping.kind = "map" /\ mapping.from[1] = handled[1] /\ Folded[mapping.from[2]] = Folded[handled[2]]
        /\ mapping.project # "nothing" /\ (mapping.when = "failures") = ~result.successful
Due == {i \in 1..Len(chain) : Applies(chain[i], response)}
Tried == {published[i].position : i \in DOMAIN published}
Failures == {i \in DOMAIN published : ~Accepts(published[i].reply)}
Ended == step \in {"answered", "acknowledged"}

\* A message is acknowledged only when every event its response calls for was taken by the
\* publisher, or, where failures are only logged, was tried and its failure told; nothing is
\* tried that the response does not call for, nor twice or out of order in one delivery; and
\* an event that failed is told of and, where it fails the message, the last one tried
\* (responseevents.go:115-144, mapping.go:88-112, 141-154).
EventsFollowTheResponse ==
  step # "delivered" =>
    /\ Tried \subseteq Due
    /\ \A i, j \in DOMAIN published : i < j => published[i].position < published[j].position
    /\ step = "acknowledged" => Tried = Due /\ (mode = "FailMessage" => Failures = {})
    /\ Ended /\ mode = "LogAndContinue" => outcome = response /\ Tried = Due
    /\ Ended /\ mode = "FailMessage" /\ Failures # {} => outcome = UnexpectedError /\ Failures = {Len(published)}
    /\ told = Cardinality(Failures)
=============================================================================
