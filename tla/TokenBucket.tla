---------------------------- MODULE TokenBucket ----------------------------
(***************************************************************************)
(* ratelimiting/ratelimiting.go and ratelimiting/tokenbucket.go: the rate- *)
(* limiting middleware over a token bucket.  Allow runs under the bucket's *)
(* mutex, so concurrent messages are a sequence of calls.  The clock is the*)
(* wall clock: it advances, stands still or goes back between two calls.   *)
(* Tokens and seconds are whole numbers here.                              *)
(***************************************************************************)
EXTENDS Integers

CONSTANTS
  Configs,   \* the [rate |-> _, burst |-> _] that NewTokenBucket is called with
  Costs,     \* what CostFunc returns
  MaxClock,  \* bound: the clock
  MaxGrants  \* bound: tokens handed out

VARIABLES
  config, bucket,  \* the bucket's rate, burst, tokens and last
  verdict,         \* the last message's cost and whether it went on to the handler
  granted          \* history: tokens handed out since last was a value

vars == <<config, bucket, verdict, granted>>

AtLeast(n, x) == IF x < n THEN n ELSE x
AtMost(n, x) == IF x > n THEN n ELSE x

\* Wrong variant: a negative rate is taken as it is.
NewTokenBucketUnclamped(c, now) ==
  [rate |-> c.rate, burst |-> AtLeast(1, c.burst), tokens |-> AtLeast(1, c.burst), last |-> now]

NewTokenBucket(c, now) ==
  [rate |-> AtLeast(0, c.rate), burst |-> AtLeast(1, c.burst),
   tokens |-> AtLeast(1, c.burst), last |-> now]

Init ==
  /\ config \in Configs
  /\ bucket = NewTokenBucket(config, 0)
  /\ verdict = [cost |-> 0, allowed |-> TRUE]
  /\ granted = [t \in 0..MaxClock |-> 0]

\* Wrong variant: last follows the clock back.
RefillFollowsClock(b, now) ==
  [b EXCEPT !.tokens = AtMost(b.burst, @ + AtLeast(0, now - b.last) * b.rate), !.last = now]

\* The refill half of Allow: capped at burst, and a clock that went back is no refill.
Refill(b, now) ==
  IF now > b.last
  THEN [b EXCEPT !.tokens = AtMost(b.burst, @ + (now - b.last) * b.rate), !.last = now]
  ELSE b

\* Wrong variant: a negative cost gives tokens back.
PermitCostUnclamped(cost) == cost

\* Middleware: a negative cost is free.
PermitCost(cost) == AtLeast(0, cost)

\* A message: it takes its tokens and runs, or is answered too-many-requests.
Request(cost, now) ==
  LET b == Refill(bucket, now)
      c == PermitCost(cost)
      ok == c <= b.tokens
  IN /\ granted[0] + c <= MaxGrants
     /\ bucket' = IF ok THEN [b EXCEPT !.tokens = @ - c] ELSE b
     /\ verdict' = [cost |-> cost, allowed |-> ok]
     /\ granted' = [since \in 0..MaxClock |-> granted[since] + IF ok /\ since <= b.last THEN AtLeast(0, c) ELSE 0]
     /\ UNCHANGED config

Next == \E cost \in Costs, now \in 0..MaxClock : Request(cost, now)

Spec == Init /\ [][Next]_vars

-----------------------------------------------------------------------------
\* Over any interval up to the present, and so over any other before it, no more goes
\* through, however the clock jumps in it, than a full bucket and what the rate refills in
\* that interval; and what costs nothing, a negative cost included, goes through whatever
\* the bucket was configured with.
QuotaHolds ==
  /\ \A since \in 0..bucket.last :
       granted[since] <= bucket.burst + (bucket.last - since) * AtLeast(0, config.rate)
  /\ verdict.cost <= 0 => verdict.allowed

\* A message is turned away only if the bucket was emptied by others since it was last
\* full: what was handed out, and what it asks for, exceed the refill.
ShedsOnlyTheExcess ==
  ~verdict.allowed =>
    \E since \in 0..bucket.last :
      granted[since] + verdict.cost > bucket.burst + (bucket.last - since) * bucket.rate
=============================================================================
