---------------------------- MODULE OutboundCall ----------------------------
(***************************************************************************)
(* One call made through client.WithRetry (client/retry.go) around a       *)
(* Sender over the network: attempts, the back-off raced by the end of the *)
(* caller's context, and what CallFailure (client/failure.go) makes of a   *)
(* request or of a reply that was lost.  The service applies what reaches  *)
(* it unless it answers that it did not.                                   *)
(*                                                                         *)
(* tried is what each attempt came to, applied how often the service did   *)
(* what was asked of it, and lost how many of those times nobody heard.    *)
(***************************************************************************)
EXTENDS Naturals, Sequences

CONSTANTS
  AttemptOptions,  \* RetryOptions.MaxAttempts, 0 for none
  Retryables       \* what ShouldRetry may be, the default among them

VARIABLES options, phase, context, attempt, result, tried, applied, lost, late

vars == <<options, phase, context, attempt, result, tried, applied, lost, late>>

\* Statuses of a service that did not do what was asked of it.
Refusals == {"not-found", "too-many-requests", "service-unavailable"}

\* defaultShouldRetry
DefaultRetryable == {"service-unavailable", "too-many-requests"}

\* WithRetry
MaxAttempts == IF options.max = 0 THEN 3 ELSE options.max

TypeOK ==
  /\ phase \in {"sending", "sent", "waiting", "returned"} /\ context \in {"live", "deadline", "cancelled"}
  /\ attempt \in 1..MaxAttempts /\ Len(tried) \in {attempt - 1, attempt} /\ lost <= applied /\ late \in BOOLEAN

Init ==
  /\ options \in [max : AttemptOptions, retryable : Retryables]
  /\ phase = "sending" /\ context = "live" /\ attempt = 1 /\ result = "none"
  /\ tried = <<>> /\ applied = 0 /\ lost = 0 /\ late = FALSE

\* Wrong variant: a deadline is one failure to call among others.
CallFailureUnavailable(cause) == "service-unavailable"

\* CallFailure, of an error whose cause may be a deadline of its own
CallFailure(cause) == IF context = "deadline" \/ cause = "timeout" THEN "timeout" ELSE "service-unavailable"

\* Wrong variant: every failure is worth another attempt.
ShouldRetryFailures(status) == status # "ok"

ShouldRetry(status) == status \in options.retryable

\* Wrong variant: the last attempt is waited for, and one more made.
DecideOneMore(status) ==
  /\ result' = status /\ tried' = Append(tried, status)
  /\ phase' = IF ~ShouldRetry(status) \/ attempt > MaxAttempts THEN "returned" ELSE "waiting"

\* What WithRetry does with an attempt's result.
Decide(status) ==
  /\ result' = status /\ tried' = Append(tried, status)
  /\ phase' = IF ~ShouldRetry(status) \/ attempt = MaxAttempts THEN "returned" ELSE "waiting"

\* Send with a context that is over fails before anything leaves.
NotSent ==
  /\ phase = "sending" /\ context # "live"
  /\ Decide(CallFailure("context"))
  /\ UNCHANGED <<options, context, attempt, applied, lost, late>>

Send ==
  /\ phase = "sending" /\ context = "live" /\ phase' = "sent"
  /\ UNCHANGED <<options, context, attempt, result, tried, applied, lost, late>>

\* The reply arrives.
Answer(status) ==
  /\ phase = "sent" /\ Decide(status)
  /\ applied' = IF status = "ok" THEN applied + 1 ELSE applied
  /\ UNCHANGED <<options, context, attempt, lost, late>>

\* No reply does: refused, reset or timed out, or the context ended, before the service
\* did anything or after.
Lose(cause, wasApplied) ==
  /\ phase = "sent" /\ Decide(CallFailure(cause))
  /\ applied' = (IF wasApplied THEN applied + 1 ELSE applied) /\ lost' = (IF wasApplied THEN lost + 1 ELSE lost)
  /\ UNCHANGED <<options, context, attempt, late>>

\* The back-off elapses, at the same moment as the context ends perhaps.
Wake ==
  /\ phase = "waiting" /\ phase' = "sending" /\ attempt' = attempt + 1
  /\ late' = (late \/ context # "live")
  /\ UNCHANGED <<options, context, result, tried, applied, lost>>

\* Wrong variant: a caller that gives up is told so, not what the attempts came to.
GiveUpUnanswered ==
  /\ phase = "waiting" /\ context # "live" /\ phase' = "returned"
  /\ result' = CallFailure("context")
  /\ UNCHANGED <<options, context, attempt, tried, applied, lost, late>>

\* The context ends during the back-off: what the last attempt came to.
GiveUp ==
  /\ phase = "waiting" /\ context # "live" /\ phase' = "returned"
  /\ UNCHANGED <<options, context, attempt, result, tried, applied, lost, late>>

EndContext(how) ==
  /\ phase # "returned" /\ context = "live" /\ context' = how
  /\ UNCHANGED <<options, phase, attempt, result, tried, applied, lost, late>>

Next ==
  \/ NotSent \/ Send \/ Wake \/ GiveUp
  \/ \E status \in Refusals \union {"ok", "timeout"} : Answer(status)
  \/ \E cause \in {"reset", "timeout"}, wasApplied \in BOOLEAN : Lose(cause, wasApplied)
  \/ \E how \in {"deadline", "cancelled"} : EndContext(how)

Spec == Init /\ [][Next]_vars

-----------------------------------------------------------------------------
\* WithRetry makes at most the attempts it may, each after a status that calls for one,
\* and answers what the last one came to, no earlier than it must: at the last attempt, at
\* a status that calls for none, or when the context is over (retry.go:45-66).
AttemptsAreEarned ==
  /\ Len(tried) <= MaxAttempts
  /\ \A i \in 1..Len(tried) - 1 : tried[i] \in options.retryable
  /\ phase = "returned" =>
       /\ result = tried[Len(tried)]
       /\ result \in options.retryable => Len(tried) = MaxAttempts \/ context # "live"

\* With the default predicate a call is applied twice only where the reply to it was lost
\* other than by a deadline, a failure that says nothing was done means that nothing was
\* but by such attempts, and a deadline that passed ends the call at the next attempt
\* (retry.go:21-26, failure.go:10-41).
RetriesAreSafe ==
  options.retryable = DefaultRetryable =>
    /\ applied > 1 => \E i \in 1..Len(tried) - 1 : tried[i] = "service-unavailable"
    /\ applied - lost <= 1
    /\ phase = "returned" /\ result = "ok" => applied - lost = 1
    /\ \A i \in 1..Len(tried) : tried[i] = "timeout" => i = Len(tried)
    /\ late /\ context = "deadline" /\ phase = "returned" => result = "timeout"

\* No attempt that begins after the context is over reaches the service (retry.go:55-66).
NothingAfterTheEnd == [][applied' > applied => ~late]_vars

CallsAreHonest == TypeOK /\ AttemptsAreEarned /\ RetriesAreSafe
=============================================================================
