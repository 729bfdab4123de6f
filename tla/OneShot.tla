------------------------------- MODULE OneShot -------------------------------
(***************************************************************************)
(* The handlers a platform pushes events to: a Lambda invocation           *)
(* (awslambda/runtime.go with awssqs, awssns, awss3, awseventbridge and    *)
(* the asynchronous envelope), an Azure Functions trigger, a Pub/Sub push, *)
(* a CloudEvent over HTTP and a Cloud Function.  They keep nothing: the    *)
(* platform delivers again what their answer does not let go of, to        *)
(* whatever environment it likes, and more than once when it likes.        *)
(*                                                                         *)
(* A transport is how its handler goes through an event and answers:       *)
(*   many    the event holds several messages,                             *)
(*   stops   the first one not acknowledged ends it,                       *)
(*   lists   the answer names the messages to deliver again,               *)
(*   done, failed   the answer to an event, without and with such a one.   *)
(* A panic of a middleware leaves net/http or the runtime loop without an  *)
(* answer of the handler's, which is "error" to the platform.              *)
(***************************************************************************)
EXTENDS Settlement, Sequences, Functions, FiniteSets

CONSTANTS
  Env,        \* the environments the platform runs the handler in
  Message,    \* naturals, in the order of the platform's
  Unmatched,  \* those among them of a topic nobody serves
  MaxFaults   \* a bound on the handlers that fail, the panics and what gets lost

SQS == [name |-> "sqs", many |-> TRUE, stops |-> FALSE, lists |-> TRUE, done |-> "json", failed |-> "json"]
SNS == [name |-> "sns", many |-> TRUE, stops |-> FALSE, lists |-> FALSE, done |-> "json", failed |-> "error"]
S3 == [name |-> "s3", many |-> TRUE, stops |-> TRUE, lists |-> FALSE, done |-> "nothing", failed |-> "error"]
EventBridge == [name |-> "eventbridge", many |-> FALSE, stops |-> TRUE, lists |-> FALSE, done |-> "json", failed |-> "error"]
AsyncEnvelope == [name |-> "envelope", many |-> FALSE, stops |-> TRUE, lists |-> FALSE, done |-> "json", failed |-> "error"]
EventHub == [name |-> "eventhub", many |-> TRUE, stops |-> TRUE, lists |-> FALSE, done |-> "200", failed |-> "500"]
Queue == [name |-> "queue", many |-> FALSE, stops |-> TRUE, lists |-> FALSE, done |-> "200", failed |-> "500"]
EventGrid == [name |-> "eventgrid", many |-> FALSE, stops |-> TRUE, lists |-> FALSE, done |-> "200", failed |-> "500"]
CosmosFeed == [name |-> "cosmos", many |-> FALSE, stops |-> TRUE, lists |-> FALSE, done |-> "200", failed |-> "500"]
PubSub == [name |-> "pubsub", many |-> FALSE, stops |-> TRUE, lists |-> FALSE, done |-> "204", failed |-> "500"]
CloudEvent == [name |-> "cloudevent", many |-> FALSE, stops |-> TRUE, lists |-> FALSE, done |-> "204", failed |-> "500"]
CloudFunction == [name |-> "function", many |-> FALSE, stops |-> TRUE, lists |-> FALSE, done |-> "nothing", failed |-> "error"]

Transports == {SQS, SNS, S3, EventBridge, AsyncEnvelope, EventHub, Queue, EventGrid, CosmosFeed,
               PubSub, CloudEvent, CloudFunction}

VARIABLES
  transport, delivery,  \* what is deployed, and its Settlement.Delivery
  held,    \* the messages the platform has not let go of
  env,     \* what each environment is at
  faults

vars == <<transport, delivery, held, env, faults>>

\* "handling" the message at, then "answered"; answer and relisted are what is to be posted.
Resting == [phase |-> "idle", event |-> <<>>, at |-> 1, refused |-> {}, accepted |-> {}, answer |-> "none"]

Init ==
  /\ transport \in Transports /\ delivery \in Deliveries
  /\ held = Message /\ env = [e \in Env |-> Resting] /\ faults = 0

TypeOK ==
  /\ transport \in Transports /\ delivery \in Deliveries /\ held \subseteq Message /\ faults \in 0..MaxFaults
  /\ \A e \in Env :
       /\ env[e].phase \in {"idle", "handling", "answered"} /\ Range(env[e].event) \subseteq Message
       /\ env[e].refused \subseteq Message /\ env[e].accepted \subseteq Message
       /\ env[e].answer \in {"none", "json", "nothing", "error", "200", "204", "500"}

-----------------------------------------------------------------------------
(* The platform *)

\* The event that holds these messages.
InOrder(messages) ==
  {event \in [1..Cardinality(messages) -> messages] : \A i, j \in DOMAIN event : i < j => event[i] < event[j]}

\* An SQS batch is any of the messages of the queue; another event is what it is, every time.
Events ==
  CASE transport.lists -> UNION {InOrder(batch) : batch \in (SUBSET held) \ {{}}}
    [] transport.many /\ ~transport.lists -> IF held = {} THEN {} ELSE InOrder(Message)
    [] OTHER -> {<<m>> : m \in held}

\* The next invocation of an environment, or the delivery a request carries, another's too
\* if that takes long.
Deliver(e) ==
  /\ env[e].phase = "idle"
  /\ \E event \in Events : env' = [env EXCEPT ![e] = [Resting EXCEPT !.phase = "handling", !.event = event]]
  /\ UNCHANGED <<transport, delivery, held, faults>>

\* What the platform reads as done with: no error of an invocation, a 2xx status.
Taken(answer) == answer \in {"json", "nothing", "200", "204"}
Released(e) == IF Taken(env[e].answer) THEN Range(env[e].event) \ env[e].refused ELSE {}

-----------------------------------------------------------------------------
(* The handler *)

\* Wrong variant: the batch response is written anew for each message that fails.
RefusedLastOnly(refused, m) == {m}

\* The batch item failures, or the failures an error is made of.
Refused(refused, m) == refused \union {m}

\* Wrong variant: an event ends as its last message did.
AnswerOfLast(t, event, refused) == IF event[Len(event)] \in refused THEN t.failed ELSE t.done

Answer(t, event, refused) == IF refused # {} THEN t.failed ELSE t.done

\* Wrong variant: an event without per-message answers is gone through to its end.
EndsAtNever(t, event, at, acknowledged) == at = Len(event)

\* The handler's loop ends after the last message, or at the first not acknowledged.
EndsAt(t, event, at, acknowledged) == at = Len(event) \/ (t.stops /\ ~acknowledged)

\* What becomes of a run whose next message is acknowledged or is not.
Handled(run, acknowledged) ==
  LET m == run.event[run.at]
      refused == IF acknowledged THEN run.refused ELSE Refused(run.refused, m)
      ends == EndsAt(transport, run.event, run.at, acknowledged)
  IN [run EXCEPT
        !.at = @ + 1, !.refused = refused,
        !.accepted = IF acknowledged THEN @ \union {m} ELSE @,
        !.phase = IF ends THEN "answered" ELSE @,
        !.answer = IF ends THEN Answer(transport, run.event, refused) ELSE @]

\* Settlement.Dispatch of the next message, and the end of the loop.
Handle(e) ==
  /\ env[e].phase = "handling"
  /\ \E ending \in EndingsOf(env[e].event[env[e].at] \in Unmatched) :
       /\ ending = "failure" => faults < MaxFaults
       /\ faults' = IF ending = "failure" THEN faults + 1 ELSE faults
       /\ env' = [env EXCEPT ![e] = Handled(@, Acknowledge(delivery, ending))]
  /\ UNCHANGED <<transport, delivery, held>>

\* Wrong variant: what was recovered from leaves invoke its zero results.
RecoveredSilently == "nothing"

\* invoke, and the server's recovery under an http.Handler.
Recovered == "error"

Panic(e) ==
  /\ env[e].phase = "handling" /\ faults < MaxFaults
  /\ faults' = faults + 1
  /\ env' = [env EXCEPT ![e].phase = "answered", ![e].answer = Recovered]
  /\ UNCHANGED <<transport, delivery, held>>

\* postResponse, postError or the response of the request.
Post(e) ==
  /\ env[e].phase = "answered"
  /\ held' = held \ Released(e) /\ env' = [env EXCEPT ![e] = Resting]
  /\ UNCHANGED <<transport, delivery, faults>>

\* The answer does not arrive, or does and the environment does not learn it: the loop of
\* a Lambda ends the process, and the platform starts another.
PostFails(e) ==
  /\ env[e].phase = "answered" /\ faults < MaxFaults
  /\ faults' = faults + 1 /\ env' = [env EXCEPT ![e] = Resting]
  /\ held' \in {held, held \ Released(e)}
  /\ UNCHANGED <<transport, delivery>>

\* The platform's time limit, or the end of the environment.
Kill(e) ==
  /\ env[e].phase # "idle" /\ faults < MaxFaults
  /\ faults' = faults + 1 /\ env' = [env EXCEPT ![e] = Resting]
  /\ UNCHANGED <<transport, delivery, held>>

Work(e) == Handle(e) \/ Post(e)
Next == \E e \in Env : Deliver(e) \/ Work(e) \/ Panic(e) \/ PostFails(e) \/ Kill(e)

\* The platform keeps delivering, and a handler goes on unless it is killed.
Fairness == WF_vars(\E e \in Env : Deliver(e)) /\ \A e \in Env : WF_vars(Work(e))

Spec == Init /\ [][Next]_vars /\ Fairness

-----------------------------------------------------------------------------
\* What the platform lets go of, this very invocation acknowledged.
LetGoOfKnowingly ==
  \A m \in held : m \notin held' => \E e \in Env : env[e].phase = "answered" /\ m \in env[e].accepted

\* An event's order is kept where later messages depend on earlier ones: none is handled
\* in an invocation behind one that was not acknowledged in it.
NothingOvertakes ==
  transport.stops => \A e \in Env : \A i \in 1..env[e].at - 2 : env[e].event[i] \in env[e].accepted

\* An answer that arrives frees what it can free: a message listed apart as soon as it is
\* acknowledged, and an event once all of it is.
NothingNeedless ==
  \A e \in Env : env[e].phase = "answered" /\ env[e].answer # "error" =>
    /\ transport.lists => env[e].accepted \subseteq Released(e)
    /\ Range(env[e].event) = env[e].accepted => Released(e) = env[e].accepted

EventsAreAnswered == TypeOK /\ NothingOvertakes /\ NothingNeedless
AllLetGo == <>[](held = {})
=============================================================================
