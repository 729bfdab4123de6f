----------------------------- MODULE Resilience -----------------------------
(***************************************************************************)
(* The onion of middlewares around a handler (middleware.go) built from    *)
(* resilience/timeout.go, resilience/retry.go, resilience/fallback.go and  *)
(* circuitbreaker/circuitbreaker.go, for several callers that share one    *)
(* breaker.  An invocation walks down its chain and up again: pos is the   *)
(* middleware whose code runs next (Len(chain) + 1 is the handler), heading*)
(* says whether that is the code before next() or after it.                *)
(*                                                                         *)
(* An outcome is what the code has: an error returned up the stack and, on *)
(* the invocation, a result which stays there until somebody overwrites it.*)
(* fresh says whether the result was written since the handler was last    *)
(* entered.  gobreaker's own state machine is external.                    *)
(***************************************************************************)
EXTENDS Integers, Sequences, FiniteSets

CONSTANTS
  Caller,     \* goroutines
  Apps,       \* applications to consider: the chain, outermost first, and the
              \* callers that run it, again and again
  Retries,    \* WithRetries
  TripAfter,  \* consecutive failures at which gobreaker's ReadyToTrip holds
  Probes      \* gobreaker's MaxRequests: calls let through half-open

VARIABLES
  app,        \* the application
  pos, heading,
  err,        \* the error on its way up
  result,     \* ic.Result
  parent,     \* Err() of the context the caller passed in
  fired,      \* whether the deadline of the Timeout frame has passed
  attempt,    \* the retry loop's attempt
  counted,    \* whether gobreaker still counts the call (its generation is current)
  breaker,    \* gobreaker's state and counts
  healthy     \* from now on the downstream succeeds and callers are patient

frame == <<pos, heading>>
vars == <<app, pos, heading, err, result, parent, fired, attempt, counted, breaker, healthy>>

-----------------------------------------------------------------------------
Middleware == {"timeout", "retry", "fallback", "breaker"}

chain == app.chain
Handler == Len(chain) + 1

\* The middleware c is in, on its way in that direction.
In(c, middleware, direction) ==
  /\ heading[c] = direction
  /\ pos[c] \in 1..Len(chain)
  /\ chain[pos[c]] = middleware

Down(c) == pos' = [pos EXCEPT ![c] = @ + 1] /\ UNCHANGED heading
Up(c) == pos' = [pos EXCEPT ![c] = @ - 1] /\ UNCHANGED heading
TurnBack(c) == pos' = [pos EXCEPT ![c] = @ - 1] /\ heading' = [heading EXCEPT ![c] = "up"]

\* Err() of the context that the code at position i was given: a deadline that
\* passed first stays the reason, or the caller's own.
CtxErr(c, i) ==
  IF fired[c] /\ \E j \in 1..(i - 1) : chain[j] = "timeout" THEN "deadline" ELSE parent[c]

NoResult == [status |-> "none", fresh |-> FALSE]
Put(c, status) == result' = [result EXCEPT ![c] = [status |-> status, fresh |-> TRUE]]
Raise(c, e) == err' = [err EXCEPT ![c] = e]

\* resultSuccessful
Successful(res) == res.status \in {"ok", "degraded"}

\* Wrong variant: any unsuccessful result trips.
TripUnsuccessful(res) == ~Successful(res)

\* TripOnServerError: what says that the dependency is unwell, a client's mistake not included.
TripOnServerError(res) == res.status \in {"unavailable", "timeout", "shed"}

\* defaultRetryOnError, which Fallback uses too
RetryOnError(e) == e \notin {"none", "canceled", "deadline"}

-----------------------------------------------------------------------------
Init ==
  /\ app \in Apps
  /\ pos = [c \in Caller |-> 0]
  /\ heading = [c \in Caller |-> "idle"]
  /\ err = [c \in Caller |-> "none"]
  /\ result = [c \in Caller |-> NoResult]
  /\ parent = [c \in Caller |-> "none"]
  /\ fired = [c \in Caller |-> FALSE]
  /\ attempt = [c \in Caller |-> 0]
  /\ counted = [c \in Caller |-> FALSE]
  /\ breaker = [state |-> "closed", failures |-> 0, requests |-> 0, successes |-> 0]
  /\ healthy = FALSE

\* App.Run: a new invocation context, the outermost middleware.
Call(c) ==
  /\ heading[c] = "idle" /\ c \in app.callers
  /\ pos' = [pos EXCEPT ![c] = 1]
  /\ heading' = [heading EXCEPT ![c] = "down"]
  /\ UNCHANGED <<app, err, result, parent, fired, attempt, counted, breaker, healthy>>

\* Back at the transport; what the invocation held is gone.
Return(c) ==
  /\ heading[c] = "up" /\ pos[c] = 0
  /\ heading' = [heading EXCEPT ![c] = "idle"]
  /\ err' = [err EXCEPT ![c] = "none"]
  /\ result' = [result EXCEPT ![c] = NoResult]
  /\ parent' = [parent EXCEPT ![c] = "none"]
  /\ fired' = [fired EXCEPT ![c] = FALSE]
  /\ attempt' = [attempt EXCEPT ![c] = 0]
  /\ UNCHANGED <<app, pos, counted, breaker, healthy>>

\* The caller gives up, or its own deadline passes.
GiveUp(c) ==
  /\ heading[c] # "idle" /\ parent[c] = "none" /\ ~healthy
  /\ \E why \in {"canceled", "deadline"} : parent' = [parent EXCEPT ![c] = why]
  /\ UNCHANGED <<app, frame, err, result, fired, attempt, counted, breaker, healthy>>

\* The deadline of the Timeout frame passes; once the parent is over the derived
\* context is over too, for the parent's reason.
Fire(c) ==
  /\ heading[c] # "idle" /\ parent[c] = "none" /\ ~fired[c] /\ ~healthy
  /\ \E i \in 1..Len(chain) :
       /\ chain[i] = "timeout"
       /\ pos[c] > i \/ (pos[c] = i /\ heading[c] = "up")
  /\ fired' = [fired EXCEPT ![c] = TRUE]
  /\ UNCHANGED <<app, frame, err, result, parent, attempt, counted, breaker, healthy>>

\* The downstream recovers for good.
Recover ==
  /\ ~healthy
  /\ healthy' = TRUE
  /\ UNCHANGED <<app, frame, err, result, parent, fired, attempt, counted, breaker>>

-----------------------------------------------------------------------------
\* The handler, everything below the chain included, is entered.
EnterHandler(c) ==
  /\ heading[c] = "down" /\ pos[c] = Handler
  /\ heading' = [heading EXCEPT ![c] = "busy"]
  /\ result' = [result EXCEPT ![c].fresh = FALSE]
  /\ UNCHANGED <<app, pos, err, parent, fired, attempt, counted, breaker, healthy>>

\* It ends: a result and no error (RouterMiddleware), an error without a result, an
\* error of a step around the router after the result was set, or the context's error.
LeaveHandler(c) ==
  /\ heading[c] = "busy"
  /\ TurnBack(c)
  /\ \/ \E status \in {"ok", "rejected", "unavailable"} :
          /\ healthy => status # "unavailable"
          /\ Put(c, status) /\ Raise(c, "none")
     \/ ~healthy /\ Raise(c, "fault") /\ (UNCHANGED result \/ Put(c, "ok"))
     \/ CtxErr(c, pos[c]) # "none" /\ Raise(c, CtxErr(c, pos[c])) /\ UNCHANGED result
  /\ UNCHANGED <<app, parent, fired, attempt, counted, breaker, healthy>>

-----------------------------------------------------------------------------
\* Timeout: context.WithTimeout, then next.
EnterTimeout(c) ==
  /\ In(c, "timeout", "down")
  /\ fired' = [fired EXCEPT ![c] = FALSE]
  /\ Down(c)
  /\ UNCHANGED <<app, err, result, parent, attempt, counted, breaker, healthy>>

\* Wrong variant: a success is kept even if it is an earlier attempt's.
LeaveTimeoutKeepsStale(c) ==
  /\ In(c, "timeout", "up")
  /\ Up(c)
  /\ IF fired[c] /\ parent[c] = "none"
     THEN /\ Raise(c, "none")
          /\ IF Successful(result[c]) THEN UNCHANGED result ELSE Put(c, "timeout")
     ELSE UNCHANGED <<err, result>>
  /\ UNCHANGED <<app, parent, fired, attempt, counted, breaker, healthy>>

\* Wrong variant: only an error is presented as a timeout, and only without a result.
LeaveTimeoutKeepsError(c) ==
  /\ In(c, "timeout", "up")
  /\ Up(c)
  /\ IF fired[c] /\ parent[c] = "none" /\ err[c] = "none" /\ ~Successful(result[c])
     THEN Put(c, "timeout")
     ELSE UNCHANGED result
  /\ UNCHANGED <<app, err, parent, fired, attempt, counted, breaker, healthy>>

\* After next: only the own deadline counts, and a success at the boundary is kept.
LeaveTimeout(c) ==
  /\ In(c, "timeout", "up")
  /\ Up(c)
  /\ IF fired[c] /\ parent[c] = "none"
     THEN /\ Raise(c, "none")
          /\ IF err[c] = "none" /\ Successful(result[c]) THEN UNCHANGED result ELSE Put(c, "timeout")
     ELSE UNCHANGED <<err, result>>
  /\ UNCHANGED <<app, parent, fired, attempt, counted, breaker, healthy>>

-----------------------------------------------------------------------------
\* Retry: attempt 0.
EnterRetry(c) ==
  /\ In(c, "retry", "down")
  /\ attempt' = [attempt EXCEPT ![c] = 0]
  /\ Down(c)
  /\ UNCHANGED <<app, err, result, parent, fired, counted, breaker, healthy>>

\* Retried, with RetryUnsuccessful: an error that is not the context's, or an unsuccessful result.
Retryable(c) ==
  IF err[c] # "none" THEN RetryOnError(err[c]) ELSE ~Successful(result[c])

\* Wrong variant: the bound is forgotten for errors.
AfterAttemptUnbounded(c) ==
  /\ In(c, "retry", "up")
  /\ IF (attempt[c] < Retries \/ err[c] = "fault") /\ Retryable(c)
     THEN /\ attempt' = [attempt EXCEPT ![c] = IF @ < Retries THEN @ + 1 ELSE @]
          /\ heading' = [heading EXCEPT ![c] = "asleep"]
          /\ UNCHANGED pos
     ELSE Up(c) /\ UNCHANGED attempt
  /\ UNCHANGED <<app, err, result, parent, fired, counted, breaker, healthy>>

\* After an attempt: return it, or back off.
AfterAttempt(c) ==
  /\ In(c, "retry", "up")
  /\ IF attempt[c] < Retries /\ Retryable(c)
     THEN /\ attempt' = [attempt EXCEPT ![c] = @ + 1]
          /\ heading' = [heading EXCEPT ![c] = "asleep"]
          /\ UNCHANGED pos
     ELSE Up(c) /\ UNCHANGED attempt
  /\ UNCHANGED <<app, err, result, parent, fired, counted, breaker, healthy>>

\* contextSleep, the timer's case: the next attempt.
Wake(c) ==
  /\ In(c, "retry", "asleep")
  /\ Raise(c, "none")
  /\ pos' = [pos EXCEPT ![c] = @ + 1]
  /\ heading' = [heading EXCEPT ![c] = "down"]
  /\ UNCHANGED <<app, result, parent, fired, attempt, counted, breaker, healthy>>

\* Wrong variant: the wait is given up with what the last attempt left.
InterruptedKeepsOutcome(c) ==
  /\ In(c, "retry", "asleep")
  /\ CtxErr(c, pos[c]) # "none"
  /\ TurnBack(c)
  /\ Raise(c, "none")
  /\ UNCHANGED <<app, result, parent, fired, attempt, counted, breaker, healthy>>

\* contextSleep, the context's case: its error, whatever the last attempt left.
Interrupted(c) ==
  /\ In(c, "retry", "asleep")
  /\ CtxErr(c, pos[c]) # "none"
  /\ TurnBack(c)
  /\ Raise(c, CtxErr(c, pos[c]))
  /\ UNCHANGED <<app, result, parent, fired, attempt, counted, breaker, healthy>>

-----------------------------------------------------------------------------
EnterFallback(c) ==
  /\ In(c, "fallback", "down")
  /\ Down(c)
  /\ UNCHANGED <<app, err, result, parent, fired, attempt, counted, breaker, healthy>>

\* Wrong variant: an unsuccessful result does not trigger the fallback.
FallsBackOnError(c) == RetryOnError(err[c])

\* The two triggers, as defaulted: not a context's error, any unsuccessful result.
FallsBack(c) == IF err[c] # "none" THEN RetryOnError(err[c]) ELSE ~Successful(result[c])

\* The fallback function provides a substitute, or fails itself.
LeaveFallback(c) ==
  /\ In(c, "fallback", "up")
  /\ Up(c)
  /\ IF FallsBack(c)
     THEN \/ Put(c, "degraded") /\ Raise(c, "none")
          \/ Raise(c, "fallback failed") /\ UNCHANGED result
     ELSE UNCHANGED <<err, result>>
  /\ UNCHANGED <<app, parent, fired, attempt, counted, breaker, healthy>>

-----------------------------------------------------------------------------
Fresh(state) == [state |-> state, failures |-> 0, requests |-> 0, successes |-> 0]
NobodyCounted == [x \in Caller |-> FALSE]

\* gobreaker: the open state's timeout has passed; a new generation begins.
HalfOpen ==
  /\ breaker.state = "open"
  /\ breaker' = Fresh("half-open")
  /\ counted' = NobodyCounted
  /\ UNCHANGED <<app, frame, err, result, parent, fired, attempt, healthy>>

\* gobreaker's beforeRequest.
Rejects == breaker.state = "open" \/ (breaker.state = "half-open" /\ breaker.requests >= Probes)

\* cb.Execute refused: the fail-fast result, downstream not called.
Shed(c) ==
  /\ In(c, "breaker", "down")
  /\ Rejects
  /\ Put(c, "shed")
  /\ TurnBack(c)
  /\ Raise(c, "none")
  /\ UNCHANGED <<app, parent, fired, attempt, counted, breaker, healthy>>

\* cb.Execute lets the call in (requests matter only half-open).
EnterBreaker(c) ==
  /\ In(c, "breaker", "down")
  /\ ~Rejects
  /\ counted' = [counted EXCEPT ![c] = TRUE]
  /\ breaker' = [breaker EXCEPT !.requests = IF breaker.state = "half-open" THEN @ + 1 ELSE @]
  /\ Down(c)
  /\ UNCHANGED <<app, err, result, parent, fired, attempt, healthy>>

\* Wrong variant: only an error is a failure to the breaker.
FailedOnError(c) == err[c] # "none"

\* A failure to the breaker: an error, or a result that trips (errUnsuccessfulResult).
Failed(c) == err[c] # "none" \/ TripOnServerError(result[c])

\* Wrong variant: a call of an earlier generation counts.
AfterRequestAnyGeneration(c) == TRUE

\* gobreaker's afterRequest counts calls of the current generation only.
AfterRequest(c) == counted[c]

\* After Execute: the failure or success counts, the sentinel is stripped, the
\* error or the result goes up as it is.
LeaveBreaker(c) ==
  /\ In(c, "breaker", "up")
  /\ Up(c)
  /\ IF ~AfterRequest(c) THEN UNCHANGED <<breaker, counted>>
     ELSE IF Failed(c)
     THEN IF breaker.state = "half-open" \/ breaker.failures + 1 >= TripAfter
          THEN breaker' = Fresh("open") /\ counted' = NobodyCounted
          ELSE /\ breaker' = [breaker EXCEPT !.failures = @ + 1]
               /\ counted' = [counted EXCEPT ![c] = FALSE]
     ELSE IF breaker.state = "half-open" /\ breaker.successes + 1 >= Probes
          THEN breaker' = Fresh("closed") /\ counted' = NobodyCounted
          ELSE /\ breaker' = [breaker EXCEPT !.failures = 0,
                    !.successes = IF breaker.state = "half-open" THEN @ + 1 ELSE @]
               /\ counted' = [counted EXCEPT ![c] = FALSE]
  /\ UNCHANGED <<app, err, result, parent, fired, attempt, healthy>>

-----------------------------------------------------------------------------
\* What the goroutine of c does next on its own.
Step(c) ==
  \/ Return(c) \/ EnterHandler(c) \/ LeaveHandler(c)
  \/ EnterTimeout(c) \/ LeaveTimeout(c)
  \/ EnterRetry(c) \/ AfterAttempt(c) \/ Wake(c) \/ Interrupted(c)
  \/ EnterFallback(c) \/ LeaveFallback(c)
  \/ Shed(c) \/ EnterBreaker(c) \/ LeaveBreaker(c)

Next ==
  \/ \E c \in Caller : Call(c) \/ Step(c) \/ GiveUp(c) \/ Fire(c)
  \/ Recover \/ HalfOpen

Spec == Init /\ [][Next]_vars

\* Goroutines run, messages keep coming, and an open breaker's timeout passes.
Fairness ==
  /\ \A c \in Caller : WF_vars(Step(c)) /\ WF_vars(Call(c))
  /\ WF_vars(HalfOpen)

FairSpec == Spec /\ Fairness

-----------------------------------------------------------------------------
Has(middleware) == \E i \in 1..Len(chain) : chain[i] = middleware
Answered(c) == heading[c] = "up" /\ pos[c] = 0

\* An invocation that ends without an error carries a result, and it is the last
\* attempt's or a middleware's verdict on the last attempt: never one that an
\* earlier attempt, whose error was retried, left on the invocation.
AnswerIsTheLastAttempts ==
  \A c \in Caller : Answered(c) /\ err[c] = "none" => result[c].fresh

\* Below a Timeout the deadline surfaces as a result: a context's error reaches
\* the transport only when the caller itself gave up, and a cancellation only
\* when that is how it gave up.
ContextErrorsAreTheCallers ==
  \A c \in Caller : Answered(c) =>
    /\ err[c] \in {"canceled", "deadline"} => parent[c] # "none"
    /\ err[c] = "canceled" => parent[c] = "canceled"

\* With a fallback outermost a patient caller gets a success, a substitute, or the
\* fallback's own error, an open breaker and an elapsed deadline included.
DegradesGracefully ==
  \A c \in Caller : Answered(c) /\ chain # <<>> /\ Head(chain) = "fallback" /\ parent[c] = "none" =>
    IF err[c] = "none" THEN Successful(result[c]) ELSE err[c] = "fallback failed"

\* The breaker opens on a sign that the dependency is unwell and on nothing else,
\* and only calls that it let in after it half-opened decide how that ends.
OnEvidence ==
  breaker'.state # breaker.state /\ breaker.state # "open" =>
    \E c \in Caller :
      /\ In(c, "breaker", "up") /\ counted[c]
      /\ breaker'.state = "open" <=>
           (err[c] # "none" \/ result[c].status \in {"unavailable", "timeout", "shed"})

BreakerActsOnEvidence == [][OnEvidence]_vars

\* Half-open, no more calls than Probes are under way downstream on the breaker's account.
ProbesAreBounded ==
  breaker.state = "half-open" => Cardinality({c \in Caller : counted[c]}) <= Probes

\* Once the downstream is well the breaker closes and stays closed.
BreakerRecovers == Has("breaker") => (healthy ~> [](breaker.state = "closed"))
=============================================================================
