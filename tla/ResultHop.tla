------------------------------ MODULE ResultHop ------------------------------
(***************************************************************************)
(* What becomes of a handler's Result on its way to a caller in another    *)
(* process, or in the same one: Result (result.go), the envelope's two     *)
(* halves (envelope/dispatch.go, wire/envelope.go), the HTTP binding's     *)
(* rendering and httpclient's reading of it, the gRPC interceptor and      *)
(* client, a Lambda invocation, and the in-process sender.                 *)
(*                                                                         *)
(* Text is a sequence of words, so that a detail, the messages joined, is  *)
(* told apart from the messages; a document or a payload is what its JSON  *)
(* says.                                                                   *)
(***************************************************************************)
EXTENDS Naturals, Sequences, SequencesExt, FiniteSets

SuccessStatuses == {"ok", "created", "accepted", "updated", "deleted", "ignored"}
FailureStatuses ==
  {"bad-request", "validation-error", "unauthorized", "forbidden", "not-found", "conflict",
   "too-many-requests", "timeout", "not-implemented", "service-unavailable", "unexpected-error"}
IsSuccess(status) == status \in SuccessStatuses
IsFailure(status) == status \in FailureStatuses

NoText == <<>>
FromMessage(text) == [message |-> text, field |-> NoText, code |-> ""]
NoProblem == [benzeneStatus |-> ""]
NoPayload == "absent"

-----------------------------------------------------------------------------
(* Result *)

\* FailWith: the flag is set, whatever the status.
FailWith(status, errors) ==
  [status |-> status, payload |-> NoPayload, errors |-> errors, flag |-> "unsuccessful", problem |-> NoProblem]
Fail(status, text) == FailWith(status, <<FromMessage(text)>>)

\* ProblemResult
ProblemResult(problem) ==
  [FailWith(problem.benzeneStatus, problem.errors) EXCEPT !.problem = problem]

\* A struct literal, and the success constructors: nothing says how it went but the status.
Literal(status, payload, errors) ==
  [status |-> status, payload |-> payload, errors |-> errors, flag |-> "derived", problem |-> NoProblem]

IsSuccessful(result) == IF result.flag = "derived" THEN ~IsFailure(result.status) ELSE FALSE

-----------------------------------------------------------------------------
(* The envelope *)

ProblemType(status) == IF IsFailure(status) THEN status ELSE ""

Joined(errors) == FlattenSeq([i \in DOMAIN errors |-> errors[i].message])

NewProblem(status, errors) ==
  [type |-> ProblemType(status), status |-> 0, detail |-> Joined(errors), benzeneStatus |-> status, errors |-> errors]

\* Wrong variant: only the messages are carried.
ProblemsFlattened(problem) == [i \in DOMAIN problem.errors |-> FromMessage(problem.errors[i].message)]

\* ErrorPayload.Problems: the errors that have a message, and the detail, as one, where
\* there are none.
Problems(problem) ==
  IF problem.errors # <<>> THEN SelectSeq(problem.errors, LAMBDA e : e.message # NoText)
  ELSE IF problem.detail # NoText THEN <<FromMessage(problem.detail)>> ELSE <<>>

NoBody == [kind |-> "none"]
PayloadBody(payload) == [kind |-> "payload", payload |-> payload]
ProblemBody(problem) == [kind |-> "problem", problem |-> problem]

\* problemDocument: an authored document as it is.
ProblemDocument(result) ==
  IF result.problem # NoProblem THEN result.problem ELSE NewProblem(result.status, result.errors)

ErrorResponse(result) ==
  [statusCode |-> result.status, isSuccessful |-> "no", body |-> ProblemBody(ProblemDocument(result))]

\* Wrong variant: the status decides what the body is.
ToResponseByStatus(result) ==
  IF IsFailure(result.status) THEN ErrorResponse(result)
  ELSE [statusCode |-> result.status, isSuccessful |-> "yes",
        body |-> IF result.payload = NoPayload THEN NoBody ELSE PayloadBody(result.payload)]

\* toResponse
ToResponse(result) ==
  IF ~IsSuccessful(result) THEN ErrorResponse(result)
  ELSE IF result.payload = "unmarshalable" THEN ErrorResponse(Fail("unexpected-error", <<"failed to serialize">>))
  ELSE [statusCode |-> result.status, isSuccessful |-> "yes",
        body |-> IF result.payload = NoPayload THEN NoBody ELSE PayloadBody(result.payload)]

\* DispatchResult, for how the pipeline ended.
Dispatch(ending) ==
  IF ending.kind = "error" THEN ErrorResponse(Fail("service-unavailable", <<"pipeline error">>))
  ELSE IF ending.kind = "no result" THEN ErrorResponse(Fail("unexpected-error", <<"no result">>))
  ELSE ToResponse(ending.result)

\* The document in a body, and none where the body is not one: any JSON object is read as
\* a document with what members of it fit.
DocumentOf(body) == IF body.kind = "problem" THEN body.problem
                    ELSE [type |-> "", status |-> 0, detail |-> NoText, benzeneStatus |-> "", errors |-> <<>>]

\* Wrong variant: the status is classified anew on arrival.
ToResultReclassified(response) ==
  IF IsFailure(response.statusCode) THEN FailWith(response.statusCode, Problems(DocumentOf(response.body)))
  ELSE Literal(response.statusCode, IF response.body.kind = "payload" THEN response.body.payload ELSE NoPayload, <<>>)

\* ToResult: isSuccessful decides; an envelope that contradicts itself is neither.
ToResult(response) ==
  LET status == response.statusCode
      successful == response.isSuccessful = "yes"
  IN IF (successful /\ IsFailure(status)) \/ (~successful /\ IsSuccess(status))
       THEN Fail("unexpected-error", <<"malformed envelope">>)
     ELSE IF ~successful THEN FailWith(status, Problems(DocumentOf(response.body)))
     ELSE Literal(status, IF response.body.kind = "none" THEN NoPayload ELSE response.body.payload, <<>>)

-----------------------------------------------------------------------------
(* HTTP *)

HTTPCode ==
  [s \in SuccessStatuses \union FailureStatuses |->
     CASE s \in {"ok", "ignored"} -> 200 [] s = "created" -> 201 [] s = "accepted" -> 202
       [] s \in {"updated", "deleted"} -> 204 [] s = "bad-request" -> 400 [] s = "unauthorized" -> 401
       [] s = "forbidden" -> 403 [] s = "not-found" -> 404 [] s = "conflict" -> 409
       [] s = "validation-error" -> 422 [] s = "too-many-requests" -> 429 [] s = "unexpected-error" -> 500
       [] s = "not-implemented" -> 501 [] s = "service-unavailable" -> 503 [] s = "timeout" -> 504]

\* ToHTTP: the flag counts for a status outside the vocabulary only.
ToHTTP(status, successful) ==
  IF status \in DOMAIN HTTPCode THEN HTTPCode[status] ELSE IF successful THEN 200 ELSE 500

\* FromHTTP
StatusOfCode ==
  [c \in {200, 201, 202, 204, 400, 401, 403, 404, 408, 409, 422, 429, 501, 502, 503, 504} |->
     CASE c = 200 -> "ok" [] c = 201 -> "created" [] c = 202 -> "accepted" [] c = 204 -> "deleted"
       [] c = 400 -> "bad-request" [] c = 401 -> "unauthorized" [] c = 403 -> "forbidden"
       [] c = 404 -> "not-found" [] c \in {408, 504} -> "timeout" [] c = 409 -> "conflict"
       [] c = 422 -> "validation-error" [] c = 429 -> "too-many-requests" [] c = 501 -> "not-implemented"
       [] c \in {502, 503} -> "service-unavailable"]
FromHTTP(code) == IF code \in DOMAIN StatusOfCode THEN StatusOfCode[code] ELSE "unexpected-error"

HealthTopics == {"benzene:healthcheck", "benzene:liveness", "benzene:readiness"}

\* Wrong variant: an unhealthy report is a 200 like any other.
HTTPResponseByStatus(topic, response) ==
  LET successful == response.isSuccessful = "yes"
      code == ToHTTP(response.statusCode, successful)
  IN [code |-> code,
      body |-> IF ~successful /\ response.body.kind = "problem"
               THEN ProblemBody([response.body.problem EXCEPT !.status = code]) ELSE response.body]

\* httpstatus.Response: a health topic's code is its report's; a document says the code
\* that is sent.
HTTPResponse(topic, response) ==
  LET successful == response.isSuccessful = "yes"
      unhealthy == successful /\ topic \in HealthTopics /\ response.body = PayloadBody("unhealthy")
      code == IF unhealthy THEN 503 ELSE ToHTTP(response.statusCode, successful)
  IN [code |-> code,
      body |-> IF ~successful /\ response.body.kind = "problem"
               THEN ProblemBody([response.body.problem EXCEPT !.status = code]) ELSE response.body]

\* Wrong variant: the code alone decides the status.
FromHTTPStatusByCode(code, body) ==
  LET problem == DocumentOf(body)
      status == FromHTTP(code)
  IN IF IsFailure(status)
     THEN IF Problems(problem) # <<>> THEN FailWith(status, Problems(problem)) ELSE Fail(status, <<"HTTP">>)
     ELSE Literal(status, IF body.kind = "payload" THEN body.payload ELSE NoPayload, <<>>)

\* fromHTTPStatus: what a response that is no envelope says. A failure's document names the
\* status, unless it names a success.
FromHTTPStatus(code, body) ==
  LET problem == DocumentOf(body)
      carried == problem.benzeneStatus
      status == IF carried # "" /\ ~IsSuccess(carried) THEN carried ELSE FromHTTP(code)
  IN IF IsFailure(FromHTTP(code))
     THEN IF Problems(problem) # <<>> THEN FailWith(status, Problems(problem))
          ELSE Fail(status, <<"HTTP">>)
     ELSE Literal(FromHTTP(code), IF body.kind = "payload" THEN body.payload ELSE NoPayload, <<>>)

\* net/http writes no body with a 204.
Sent(reply) == IF reply.code = 204 THEN [reply EXCEPT !.body = NoBody] ELSE reply

\* Client.Send of httpclient, of a reply: an envelope is the outcome whatever the code.
HTTPReceive(reply) ==
  IF reply.body.kind = "envelope" THEN ToResult(reply.body.envelope) ELSE FromHTTPStatus(reply.code, reply.body)

\* EnvelopeHandler answers 200 with the envelope; a route answers as HTTPResponse says.
EnvelopeReply(response) == [code |-> 200, body |-> [kind |-> "envelope", envelope |-> response]]

-----------------------------------------------------------------------------
(* gRPC *)

GRPCCode ==
  [s \in SuccessStatuses \union FailureStatuses |->
     CASE s \in SuccessStatuses -> "OK" [] s \in {"bad-request", "validation-error"} -> "InvalidArgument"
       [] s = "unauthorized" -> "Unauthenticated" [] s = "forbidden" -> "PermissionDenied"
       [] s = "not-found" -> "NotFound" [] s = "conflict" -> "AlreadyExists"
       [] s = "not-implemented" -> "Unimplemented" [] s = "service-unavailable" -> "Unavailable"
       [] s = "too-many-requests" -> "ResourceExhausted" [] s = "timeout" -> "DeadlineExceeded"
       [] s = "unexpected-error" -> "Internal"]

\* ToGRPC, as the interceptor calls it: without the flag.
ToGRPC(status) == IF status \in DOMAIN GRPCCode THEN GRPCCode[status] ELSE "Internal"

\* FromGRPC
StatusOfGRPC ==
  [OK |-> "ok", InvalidArgument |-> "bad-request", Unauthenticated |-> "unauthorized",
   PermissionDenied |-> "forbidden", NotFound |-> "not-found", AlreadyExists |-> "conflict",
   Unimplemented |-> "not-implemented", Unavailable |-> "service-unavailable",
   ResourceExhausted |-> "too-many-requests", DeadlineExceeded |-> "timeout", Canceled |-> "service-unavailable"]
FromGRPC(code) == IF code \in DOMAIN StatusOfGRPC THEN StatusOfGRPC[code] ELSE "unexpected-error"

Digits == {"0", "1", "2"}
Punctuation == {"/", ".", "[", "]"}

\* dottedPath: a JSON pointer's tokens, indices in brackets; what is no pointer as it is.
DottedPath(field) ==
  IF field = NoText \/ Head(field) # "/" THEN field
  ELSE LET tokens == SelectSeq(field, LAMBDA w : w \notin Punctuation)
           add(path, token) ==
             IF token \in Digits THEN path \o <<"[", token, "]">>
             ELSE IF path = <<>> THEN <<token>> ELSE path \o <<".", token>>
       IN FoldLeft(add, <<>>, tokens)

\* Wrong variant: the indices are taken for names' ends.
PointerPathDropsIndices(dotted) ==
  IF dotted = NoText \/ Head(dotted) = "/" THEN dotted
  ELSE LET names == SelectSeq(dotted, LAMBDA w : w \notin Punctuation \union Digits)
       IN FlattenSeq([i \in DOMAIN names |-> <<"/", names[i]>>])

\* pointerPath, of names without a dot or a bracket in them
PointerPath(dotted) ==
  IF dotted = NoText \/ Head(dotted) = "/" THEN dotted
  ELSE LET tokens == SelectSeq(dotted, LAMBDA w : w \notin Punctuation)
       IN FlattenSeq([i \in DOMAIN tokens |-> <<"/", tokens[i]>>])

\* errorDetail
ErrorDetail(response) ==
  LET detail == DocumentOf(response.body).detail
  IN IF detail # NoText THEN detail ELSE IF response.statusCode # "" THEN <<response.statusCode>> ELSE <<"Error">>

\* fieldViolations
FieldViolations(response) ==
  LET errors == DocumentOf(response.body).errors
  IN [i \in DOMAIN errors |-> [errors[i] EXCEPT !.field = DottedPath(@)]]

Failed(code, trailer, detail, violations) ==
  [code |-> code, trailer |-> trailer, detail |-> detail, violations |-> violations, payload |-> NoPayload]

\* UnaryServerInterceptor of a claimed method: a call that is over says so and nothing
\* else; otherwise the trailer carries the status, whatever becomes of the body.
GRPCReply(response, context) ==
  LET trailer == IF response.statusCode = "" THEN "Unknown" ELSE response.statusCode
      code == ToGRPC(response.statusCode)
  IN IF context # "live" THEN Failed(context, "", <<"the call was cancelled">>, <<>>)
     ELSE IF code # "OK" THEN Failed(code, trailer, ErrorDetail(response), FieldViolations(response))
     ELSE IF response.body.kind # "payload" THEN Failed("Internal", trailer, <<"failed to unmarshal">>, <<>>)
     ELSE [code |-> "OK", trailer |-> trailer, detail |-> NoText, violations |-> <<>>,
           payload |-> response.body.payload]

\* Wrong variant: the trailer is not looked at.
RecoverStatusByCode(reply) == FromGRPC(reply.code)

RecoverStatus(reply) == IF reply.trailer # "" THEN reply.trailer ELSE FromGRPC(reply.code)

\* recoverErrors
RecoverErrors(reply) ==
  IF reply.violations # <<>>
  THEN [i \in DOMAIN reply.violations |-> [reply.violations[i] EXCEPT !.field = PointerPath(@)]]
  ELSE <<FromMessage(IF reply.detail = NoText THEN <<reply.code>> ELSE reply.detail)>>

\* Client.Send of grpcbinding, of a reply
GRPCReceive(reply) ==
  IF reply.code # "OK" THEN Literal(RecoverStatus(reply), NoPayload, RecoverErrors(reply))
  ELSE Literal(RecoverStatus(reply), reply.payload, <<>>)

-----------------------------------------------------------------------------
(* Lambda, and the same process *)

\* Client.Send of awslambdaclient, of an invocation that went through
LambdaReceive(invocation, output) ==
  IF invocation # "RequestResponse" THEN Literal("accepted", NoPayload, <<>>)
  ELSE IF output.kind = "function error" THEN Fail("unexpected-error", <<"function error">>)
  ELSE IF output.kind # "envelope" THEN Fail("service-unavailable", <<"not an envelope">>)
  ELSE ToResult(output.envelope)

\* toRawResult
ToRawResult(result) ==
  IF result.payload = "unmarshalable" THEN Fail("unexpected-error", <<"failed to serialize">>)
  ELSE Literal(result.status, result.payload, result.errors)

\* dispatch of inprocess, for how the pipeline ended
InProcess(ending) ==
  IF ending.kind = "error" THEN Fail("service-unavailable", <<"pipeline error">>)
  ELSE IF ending.kind = "no result" THEN Fail("unexpected-error", <<"no result">>)
  ELSE ToRawResult(ending.result)

\* Unmarshal, of a payload that fits the type
Unmarshal(result) == Literal(result.status, result.payload, result.errors)

-----------------------------------------------------------------------------
(* What a handler answered, as it is heard over each route *)

Answered(result) == Dispatch([kind |-> "result", result |-> result])
OverEnvelope(result) == HTTPReceive(Sent(EnvelopeReply(Answered(result))))
OverLambda(result) == LambdaReceive("RequestResponse", [kind |-> "envelope", envelope |-> Answered(result)])
OverHTTP(topic, result) == HTTPReceive(Sent(HTTPResponse(topic, Answered(result))))
OverGRPC(result) == GRPCReceive(GRPCReply(Answered(result), "live"))
InTheSameProcess(result) == InProcess([kind |-> "result", result |-> result])

\* A Result says two things of itself when its status is a success and its flag is not.
IsConsistent(result) == IsSuccess(result.status) => IsSuccessful(result)
IsDelivered(result) == IsConsistent(result) /\ result.payload # "unmarshalable"

\* A failure arrives over each transport with its status, application-defined ones
\* included, and its errors in order, fields and codes with them; what each transport may
\* drop of them is an error without a message, and what it puts where there are none is
\* its own (dispatch.go:95-204, httpclient.go:114-132, client.go:95-196).
FailuresArrive(topic, result) ==
  ~IsSuccessful(result) /\ IsDelivered(result) =>
    LET said == SelectSeq(result.errors, LAMBDA e : e.message # NoText)
        heard == OverHTTP(topic, result)
        remote == OverGRPC(result)
    IN /\ OverEnvelope(result) = FailWith(result.status, said)
       /\ ~IsSuccessful(heard) /\ heard.status = result.status
       /\ said # <<>> => heard.errors = said
       /\ remote.status = result.status /\ remote.errors # <<>>
       /\ result.errors # <<>> => remote.errors = result.errors
       /\ InTheSameProcess(result).status = result.status
       /\ InTheSameProcess(result).errors = result.errors

\* A success arrives as one, with its payload wherever the transport has room for one: a
\* native HTTP reply names its code's status, carries nothing with 204, and fails for an
\* unhealthy report; a gRPC reply needs a message (mapping.go:19-161, server.go:120-142).
SuccessesArrive(topic, result) ==
  IsSuccessful(result) /\ IsDelivered(result) =>
    LET heard == OverHTTP(topic, result)
        plain == Literal(result.status, result.payload, <<>>)
        unhealthy == topic \in HealthTopics /\ result.payload = "unhealthy"
    IN /\ OverEnvelope(result) = plain
       /\ InTheSameProcess(result) = Literal(result.status, result.payload, result.errors)
       /\ IF unhealthy THEN heard.status = "service-unavailable"
          ELSE IsSuccessful(heard) /\ (result.status \in {"ok", "created", "accepted", "deleted"} => heard.status = result.status)
       /\ ~unhealthy /\ heard.status # "deleted" => heard.payload = result.payload
       /\ result.payload # NoPayload /\ IsSuccess(result.status) => OverGRPC(result) = plain

\* A status of the vocabulary survives its HTTP code and back but for the four that share
\* one, a retryable status stays retryable on every hop, and a pipeline that failed or
\* produced nothing is a failure everywhere (mapping.go:19-96, dispatch.go:55-66).
VocabularyIsKept ==
  /\ \A s \in FailureStatuses : FromHTTP(ToHTTP(s, FALSE)) = s /\ IsFailure(FromGRPC(ToGRPC(s)))
  /\ \A s \in SuccessStatuses : IsSuccess(FromHTTP(ToHTTP(s, TRUE))) /\ FromGRPC(ToGRPC(s)) = "ok"
  /\ \A s \in {"service-unavailable", "too-many-requests", "timeout"} : FromGRPC(ToGRPC(s)) = s
  /\ \A kind \in {"error", "no result"} :
       /\ ~IsSuccessful(ToResult(Dispatch([kind |-> kind]))) /\ ~IsSuccessful(InProcess([kind |-> kind]))
       /\ ToResult(Dispatch([kind |-> kind])).status = InProcess([kind |-> kind]).status
  /\ \A kind \in {"function error", "junk"} : ~IsSuccessful(LambdaReceive("RequestResponse", [kind |-> kind]))
  /\ LET over(context) == GRPCReceive(GRPCReply(Dispatch([kind |-> "error"]), context)).status
     IN over("DeadlineExceeded") = "timeout" /\ over("Canceled") = "service-unavailable"

\* ResultsSurvive, of one result on a route for topic.
ResultSurvives(topic, result) ==
  /\ FailuresArrive(topic, result) /\ SuccessesArrive(topic, result)
  /\ OverLambda(result) = OverEnvelope(result)
  /\ ~IsConsistent(result) => ~IsSuccessful(OverEnvelope(result))

\* inprocess.go:112-114 says that the in-process sender returns the result "exactly as
\* every other client.Sender does", result.go:73-76 that a caller asks IsSuccessful: a
\* result that failed, heard in the same process and decoded, has failed.
FailureStaysFailure(result) ==
  ~IsSuccessful(result) => ~IsSuccessful(Unmarshal(InTheSameProcess(result)))
=============================================================================
