---------------------------- MODULE EdgesProofs ----------------------------
(***************************************************************************)
(* Proofs about what MCEdges hosts: the token bucket for any rate, burst,  *)
(* cost and clock, an outbound call for any number of attempts and any     *)
(* predicate, the cache for any number of callers, any ttl and any time    *)
(* that a load may take, the push handlers for any messages, environments  *)
(* and faults, response events for any mappings and results, the issue     *)
(* feed for any callers, failures and bounds, and the collector's views    *)
(* for any services, topics, events and size of its window.                *)
(*                                                                         *)
(* Token bucket: the tokens left and those handed out since any instant    *)
(* are no more than a full bucket and its refill since then, and since     *)
(* some instant, the last at which it was full, no less.                   *)
(*                                                                         *)
(* Outbound call: what is tried so far calls for what is done next.        *)
(*                                                                         *)
(* Cache: an entry ends no later than a ttl and a load after its version   *)
(* was superseded, and no load outlives LoadTime.                          *)
(*                                                                         *)
(* Push handlers: what an invocation went through of its event is either   *)
(* accepted or refused, and its answer says whether anything was refused.  *)
(*                                                                         *)
(* Response events: what was tried is what is due of the mappings so far,  *)
(* or ends at the first that failed the message.                           *)
(*                                                                         *)
(* Issue feed: every window counts occurrences of its own, each once; the  *)
(* collector counts each as often as it was delivered.                     *)
(*                                                                         *)
(* Views: what is kept of a service or a topic, known or not, is what the  *)
(* messages in the log say of it; and the slots of the window, in their    *)
(* turns from the one that is overwritten next, hold the last events.      *)
(*                                                                         *)
(* HTTP front: a search yields the first or the last place that fits, and  *)
(* what a browser is granted is one of three answers.                      *)
(*                                                                         *)
(* Results: each hop is a function of what the one before it let out, and  *)
(* the codes of a success never meet those of a failure.                   *)
(***************************************************************************)
EXTENDS MCEdges, FiniteSetTheorems, WellFoundedInduction, TLAPS

-----------------------------------------------------------------------------
(* The token bucket. *)

BucketTypes ==
  /\ config \in Configs /\ granted \in [0..MaxSecond -> Int]
  /\ bucket \in [rate : Nat, burst : Nat, tokens : Nat, last : 0..MaxSecond]
  /\ bucket.rate = Limit!AtLeast(0, config.rate) /\ bucket.tokens <= bucket.burst
  /\ \A start \in 0..MaxSecond : start > bucket.last => granted[start] = 0

\* What b's tokens and those granted since an instant may be together by b.last.
Allowance(b, start) == b.burst + (b.last - start) * b.rate

WithinAllowance(b) == \A start \in 0..b.last : b.tokens + granted[start] <= Allowance(b, start)
AllowanceIsSpent(b) == \E start \in 0..b.last : b.tokens + granted[start] >= Allowance(b, start)

LimitInv ==
  /\ BucketTypes /\ WithinAllowance(bucket) /\ AllowanceIsSpent(bucket)
  /\ verdict \in [cost : Int, allowed : BOOLEAN] /\ (verdict.cost <= 0 => verdict.allowed)
  /\ Limit!ShedsOnlyTheExcess

LEMMA Products ==
  /\ \A a, b, c, r \in Int : (a - b) * r + (b - c) * r = (a - c) * r
  /\ \A a, r \in Nat : a * r \in Nat
  /\ \A a, r \in Int : a * r \in Int /\ (a - a) * r = 0
OBVIOUS

LEMMA LimitStarts == Limit!Init => LimitInv
<1> SUFFICES ASSUME Limit!Init PROVE LimitInv
  OBVIOUS
<1> USE EdgesAssumption DEF Limit!Init, Limit!NewTokenBucket, Limit!AtLeast
<1>1. /\ config \in [rate : Int, burst : Int] /\ bucket.last = 0 /\ bucket.tokens = bucket.burst
      /\ bucket = [rate |-> bucket.rate, burst |-> bucket.burst, tokens |-> bucket.tokens, last |-> bucket.last]
      /\ bucket.rate \in Nat /\ bucket.burst \in Nat /\ granted = [t \in 0..MaxSecond |-> 0]
      /\ bucket.rate = Limit!AtLeast(0, config.rate)
  OBVIOUS
<1>2. BucketTypes
  BY <1>1 DEF BucketTypes
<1>3. Allowance(bucket, 0) = bucket.burst
  BY <1>1, Products DEF Allowance
<1>4. WithinAllowance(bucket) /\ AllowanceIsSpent(bucket)
  BY <1>1, <1>3 DEF WithinAllowance, AllowanceIsSpent
<1> QED
  BY <1>2, <1>4 DEF LimitInv, Limit!ShedsOnlyTheExcess

\* A refill keeps the balance: it stops at a full bucket, and then nothing was handed out since.
LEMMA RefillKept ==
  ASSUME BucketTypes, WithinAllowance(bucket), AllowanceIsSpent(bucket), NEW now \in 0..MaxSecond,
         NEW b, b = Limit!Refill(bucket, now)
  PROVE  /\ b \in [rate : Nat, burst : Nat, tokens : Nat, last : 0..MaxSecond]
         /\ b.rate = bucket.rate /\ b.burst = bucket.burst /\ b.last >= bucket.last /\ b.tokens <= b.burst
         /\ WithinAllowance(b) /\ AllowanceIsSpent(b)
<1>1. CASE ~(now > bucket.last)
  BY <1>1 DEF Limit!Refill, BucketTypes
<1>2. CASE now > bucket.last
  <2>1. /\ bucket.rate \in Nat /\ bucket.burst \in Nat /\ bucket.tokens \in Nat /\ bucket.last \in Nat
        /\ bucket.last \in 0..MaxSecond /\ bucket.tokens <= bucket.burst /\ MaxSecond \in Nat /\ now \in Nat
        /\ now - bucket.last \in Nat
    BY <1>2, EdgesAssumption DEF BucketTypes
  <2> DEFINE refill == (now - bucket.last) * bucket.rate
  <2>2. refill \in Nat
    BY <2>1, Products
  <2>3. b = [bucket EXCEPT !.tokens = IF bucket.tokens + refill > bucket.burst THEN bucket.burst ELSE bucket.tokens + refill,
                           !.last = now]
    BY <1>2 DEF Limit!Refill, Limit!AtMost
  <2>4. \A start \in 0..bucket.last : refill + (bucket.last - start) * bucket.rate = (now - start) * bucket.rate
    BY <2>1, Products
  <2> HIDE DEF refill
  <2>5. /\ b.rate = bucket.rate /\ b.burst = bucket.burst /\ b.last = now
        /\ b.tokens = IF bucket.tokens + refill > bucket.burst THEN bucket.burst ELSE bucket.tokens + refill
        /\ b = [rate |-> b.rate, burst |-> b.burst, tokens |-> b.tokens, last |-> b.last]
    BY <2>3, Zenon DEF BucketTypes
  <2>6. b.tokens \in Nat /\ b.tokens <= b.burst
    BY <2>1, <2>2, <2>5
  <2>7. b \in [rate : Nat, burst : Nat, tokens : Nat, last : 0..MaxSecond]
    BY <2>1, <2>5, <2>6
  <2>8. ASSUME NEW start \in 0..bucket.last
        PROVE  /\ Allowance(b, start) = Allowance(bucket, start) + refill
               /\ Allowance(bucket, start) \in Int /\ granted[start] \in Int
    <3> DEFINE before == (bucket.last - start) * bucket.rate
    <3>1. before \in Int /\ refill + before = (now - start) * bucket.rate /\ start \in 0..MaxSecond
      BY <2>1, <2>4, Products
    <3>2. Allowance(b, start) = bucket.burst + (now - start) * bucket.rate /\ Allowance(bucket, start) = bucket.burst + before
      BY <2>5 DEF Allowance
    <3>3. granted[start] \in Int
      BY <3>1, Zenon DEF BucketTypes
    <3> HIDE DEF before
    <3> QED
      BY <2>1, <2>2, <3>1, <3>2, <3>3
  <2>9. ASSUME NEW start \in (bucket.last + 1)..now
        PROVE  Allowance(b, start) >= b.burst /\ Allowance(b, start) \in Int /\ granted[start] = 0
    <3>1. start \in 0..MaxSecond /\ start > bucket.last /\ now - start \in Nat
      BY <2>1
    <3>2. (now - start) * bucket.rate \in Nat
      BY <2>1, <3>1, Products
    <3>3. granted[start] = 0
      BY <3>1 DEF BucketTypes
    <3>4. Allowance(b, start) = bucket.burst + (now - start) * bucket.rate
      BY <2>5 DEF Allowance
    <3> QED
      BY <2>1, <2>5, <3>2, <3>3, <3>4
  <2>10. WithinAllowance(b)
    <3> SUFFICES ASSUME NEW start \in 0..now PROVE b.tokens + granted[start] <= Allowance(b, start)
      BY <2>5 DEF WithinAllowance
    <3>1. CASE start <= bucket.last
      <4>1. b.tokens <= bucket.tokens + refill
        BY <2>1, <2>2, <2>5
      <4>2. bucket.tokens + granted[start] <= Allowance(bucket, start) /\ start \in 0..bucket.last
        BY <2>1, <3>1 DEF WithinAllowance
      <4> QED
        BY <2>1, <2>2, <2>6, <2>8, <4>1, <4>2
    <3>2. CASE start > bucket.last
      BY <2>1, <2>6, <2>9, <2>5, <3>2
    <3> QED
      BY <2>1, <3>1, <3>2
  <2>11. AllowanceIsSpent(b)
    <3>1. CASE bucket.tokens + refill > bucket.burst
      <4>1. now \in (bucket.last + 1)..now /\ (now - now) * bucket.rate = 0
        BY <1>2, <2>1, Products
      <4>2. granted[now] = 0 /\ Allowance(b, now) = b.burst + (now - now) * bucket.rate
        BY <2>5, <2>9, <4>1 DEF Allowance
      <4>3. b.tokens + granted[now] >= Allowance(b, now)
        BY <2>1, <2>5, <3>1, <4>1, <4>2
      <4> QED
        BY <2>1, <2>5, <4>3 DEF AllowanceIsSpent
    <3>2. CASE ~(bucket.tokens + refill > bucket.burst)
      <4>1. PICK start \in 0..bucket.last : bucket.tokens + granted[start] >= Allowance(bucket, start)
        BY DEF AllowanceIsSpent
      <4>2. b.tokens + granted[start] >= Allowance(b, start) /\ start \in 0..b.last
        BY <1>2, <2>1, <2>2, <2>5, <2>8, <3>2, <4>1
      <4> QED
        BY <4>2 DEF AllowanceIsSpent
    <3> QED
      BY <3>1, <3>2
  <2> QED
    BY <1>2, <2>1, <2>5, <2>6, <2>7, <2>10, <2>11
<1> QED
  BY <1>1, <1>2

LEMMA LimitInductive == LimitInv /\ [Limit!Next]_limitVars => LimitInv'
<1> SUFFICES ASSUME LimitInv, [Limit!Next]_limitVars PROVE LimitInv'
  OBVIOUS
<1>1. CASE UNCHANGED limitVars
  BY <1>1 DEF limitVars, LimitInv, BucketTypes, WithinAllowance, AllowanceIsSpent, Allowance, Limit!ShedsOnlyTheExcess
<1>2. ASSUME NEW cost \in Costs, NEW now \in 0..MaxSecond, Limit!Request(cost, now) PROVE LimitInv'
  <2> DEFINE b == Limit!Refill(bucket, now)
             c == Limit!PermitCost(cost)
             ok == c <= b.tokens
  <2>1. /\ BucketTypes /\ WithinAllowance(bucket) /\ AllowanceIsSpent(bucket)
        /\ cost \in Int /\ c \in Nat /\ (cost > 0 => c = cost) /\ (cost <= 0 => c = 0)
    BY EdgesAssumption DEF LimitInv, Limit!PermitCost, Limit!AtLeast
  <2>2. /\ bucket' = IF ok THEN [b EXCEPT !.tokens = @ - c] ELSE b
        /\ verdict' = [cost |-> cost, allowed |-> ok] /\ config' = config
        /\ granted' = [start \in 0..MaxSecond |-> granted[start] + IF ok /\ start <= b.last THEN c ELSE 0]
    BY <1>2, <2>1 DEF Limit!Request, Limit!AtLeast
  <2>3. /\ b \in [rate : Nat, burst : Nat, tokens : Nat, last : 0..MaxSecond]
        /\ b.rate = bucket.rate /\ b.burst = bucket.burst /\ b.last >= bucket.last /\ b.tokens <= b.burst
        /\ WithinAllowance(b) /\ AllowanceIsSpent(b)
    BY <2>1, RefillKept
  <2> HIDE DEF b, c
  <2>4. /\ bucket'.rate = b.rate /\ bucket'.burst = b.burst /\ bucket'.last = b.last
        /\ bucket'.tokens = IF ok THEN b.tokens - c ELSE b.tokens
        /\ bucket' \in [rate : Nat, burst : Nat, tokens : Nat, last : 0..MaxSecond]
        /\ bucket'.tokens <= bucket'.burst
    BY <2>1, <2>2, <2>3
  <2>5. ASSUME NEW start \in 0..b.last
        PROVE  /\ Allowance(bucket', start) = Allowance(b, start) /\ Allowance(b, start) \in Int
               /\ bucket'.tokens + granted'[start] = b.tokens + granted[start]
               /\ granted[start] \in Int /\ granted'[start] \in Int
    <3>1. start \in 0..MaxSecond /\ (b.last - start) * b.rate \in Int
      BY <2>3, Products, EdgesAssumption
    <3>2. granted[start] \in Int /\ granted'[start] = granted[start] + IF ok THEN c ELSE 0
      BY <2>1, <2>2, <2>3, <3>1 DEF BucketTypes
    <3>3. Allowance(bucket', start) = Allowance(b, start) /\ Allowance(b, start) \in Int
      BY <2>3, <2>4, <3>1 DEF Allowance
    <3> QED
      BY <2>1, <2>3, <2>4, <3>2, <3>3
  <2>6. BucketTypes'
    <3>1. granted' \in [0..MaxSecond -> Int]
      BY <2>1, <2>2 DEF BucketTypes
    <3>2. ASSUME NEW start \in 0..MaxSecond, start > b.last PROVE granted'[start] = 0
      <4>1. b.last \in 0..MaxSecond /\ bucket.last \in 0..MaxSecond /\ b.last >= bucket.last
        BY <2>1, <2>3 DEF BucketTypes
      <4>2. start > bucket.last /\ ~(start <= b.last)
        BY <3>2, <4>1, EdgesAssumption
      <4>3. granted[start] = 0
        BY <2>1, <4>2 DEF BucketTypes
      <4>4. granted'[start] = granted[start] + 0
        BY <2>2, <4>2
      <4> QED
        BY <4>3, <4>4
    <3> QED
      BY <2>1, <2>2, <2>3, <2>4, <3>1, <3>2 DEF BucketTypes, Limit!AtLeast
  <2>7. WithinAllowance(bucket)' /\ AllowanceIsSpent(bucket)'
    BY <2>3, <2>4, <2>5 DEF WithinAllowance, AllowanceIsSpent, Allowance
  <2>8. verdict' \in [cost : Int, allowed : BOOLEAN] /\ (verdict'.cost <= 0 => verdict'.allowed)
    <3>1. ok \in BOOLEAN /\ (cost <= 0 => ok)
      BY <2>1, <2>3
    <3> HIDE DEF ok
    <3>2. verdict'.cost = cost /\ verdict'.allowed = ok
      BY <2>2
    <3> QED
      BY <2>1, <2>2, <3>1, <3>2
  <2>9. Limit!ShedsOnlyTheExcess'
    <3> SUFFICES ASSUME ~ok
                 PROVE  \E start \in 0..b.last : granted'[start] + cost > Allowance(b, start)
      BY <2>2, <2>3, <2>4, Zenon DEF Limit!ShedsOnlyTheExcess, Allowance
    <3>1. PICK start \in 0..b.last : b.tokens + granted[start] >= Allowance(b, start)
      BY <2>3 DEF AllowanceIsSpent
    <3>2. c > b.tokens /\ c = cost /\ bucket'.tokens = b.tokens
      BY <2>1, <2>3, <2>4
    <3> QED
      BY <2>1, <2>3, <2>5, <3>1, <3>2
  <2> QED
    BY <2>6, <2>7, <2>8, <2>9 DEF LimitInv
<1> QED
  BY <1>1, <1>2 DEF Limit!Next

\* Whatever the bucket was configured with and however its clock jumps, what goes through
\* in any interval is within the burst and the interval's refill, what costs nothing goes
\* through, and no message is shed that the quota has room for (tokenbucket.go:53-74).
THEOREM QuotaIsKept == Limit!Spec \/ MCSpec => []QuotaIsExact
<1>1. LimitInv => QuotaIsExact
  <2> SUFFICES ASSUME LimitInv PROVE Limit!QuotaHolds
    BY DEF QuotaIsExact, LimitInv
  <2> SUFFICES ASSUME NEW start \in 0..bucket.last
               PROVE  granted[start] <= bucket.burst + (bucket.last - start) * bucket.rate
    BY DEF Limit!QuotaHolds, LimitInv, BucketTypes
  <2>1. bucket.tokens + granted[start] <= Allowance(bucket, start)
    BY DEF LimitInv, WithinAllowance
  <2>2. /\ bucket.tokens \in Nat /\ bucket.burst \in Nat /\ granted[start] \in Int
        /\ (bucket.last - start) * bucket.rate \in Int
    BY Products, EdgesAssumption DEF LimitInv, BucketTypes
  <2> QED
    BY <2>1, <2>2 DEF Allowance
<1>2. MCInit => Limit!Init
  BY DEF MCInit
<1>3. [MCNext]_all => [Limit!Next]_limitVars
  BY DEF MCNext, all, limitVars
<1>4. [Limit!Next]_Limit!vars => [Limit!Next]_limitVars
  BY DEF Limit!vars, limitVars
<1> QED
  BY <1>1, <1>2, <1>3, <1>4, LimitStarts, LimitInductive, PTL DEF Limit!Spec, MCSpec

-----------------------------------------------------------------------------
(* One outbound call. *)

Statuses == Call!Refusals \union {"ok", "timeout"}
LastTried == tried[Len(tried)]

CallTypes ==
  /\ options \in [max : AttemptOptions, retryable : Retryables]
  /\ phase \in {"sending", "sent", "waiting", "returned"} /\ context \in {"live", "deadline", "cancelled"}
  /\ tried \in Seq(Statuses) /\ applied \in Nat /\ lost \in Nat /\ lost <= applied /\ late \in BOOLEAN
  /\ attempt \in 1..Call!MaxAttempts /\ Len(tried) = IF phase \in {"sending", "sent"} THEN attempt - 1 ELSE attempt

\* What was tried so far called for what is done next.
EarnedSoFar ==
  /\ \A i \in 1..Len(tried) : i < Len(tried) \/ phase # "returned" => tried[i] \in options.retryable
  /\ phase = "waiting" => attempt < Call!MaxAttempts
  /\ phase \in {"waiting", "returned"} => result = LastTried
  /\ phase = "returned" /\ result \in options.retryable => attempt = Call!MaxAttempts \/ context # "live"

\* With the default predicate: the service did the work in attempts whose reply was lost, each
\* of them followed by another unless it was the last, or in the one that was answered.
SafeSoFar ==
  /\ late => context # "live" /\ phase # "sent"
  /\ options.retryable = Call!DefaultRetryable =>
       /\ applied = lost + IF phase = "returned" /\ result = "ok" THEN 1 ELSE 0
       /\ applied > 0 /\ phase # "returned" => \E i \in 1..Len(tried) : tried[i] = "service-unavailable"
       /\ applied > 1 => \E i \in 1..Len(tried) - 1 : tried[i] = "service-unavailable"
       /\ late /\ context = "deadline" => phase = "sending" \/ (phase = "returned" /\ result = "timeout")

CallInv == CallTypes /\ EarnedSoFar /\ SafeSoFar

LEMMA AttemptsAreCounted ==
  ASSUME options \in [max : AttemptOptions, retryable : Retryables]
  PROVE  Call!MaxAttempts \in Nat \ {0}
<1>1. options.max \in Nat
  BY EdgesAssumption, Zenon
<1> QED
  BY <1>1 DEF Call!MaxAttempts

LEMMA CallStarts == Call!Init => CallInv
<1> SUFFICES ASSUME Call!Init PROVE CallInv
  OBVIOUS
<1>1. Call!MaxAttempts \in Nat \ {0}
  BY AttemptsAreCounted DEF Call!Init
<1>2. CallTypes
  <2>1. tried \in Seq(Statuses) /\ Len(tried) = 0
    BY DEF Call!Init
  <2>2. attempt = 1 /\ phase = "sending" /\ context = "live" /\ applied = 0 /\ lost = 0
    BY DEF Call!Init
  <2>3. options \in [max : AttemptOptions, retryable : Retryables]
    BY DEF Call!Init
  <2>4. attempt \in 1..Call!MaxAttempts /\ Len(tried) = IF phase \in {"sending", "sent"} THEN attempt - 1 ELSE attempt
    BY <1>1, <2>1, <2>2
  <2>5. /\ phase \in {"sending", "sent", "waiting", "returned"} /\ context \in {"live", "deadline", "cancelled"}
        /\ applied \in Nat /\ lost \in Nat /\ lost <= applied
    BY <2>2
  <2>6. late \in BOOLEAN
    BY Zenon DEF Call!Init
  <2> QED
    BY <2>1, <2>3, <2>4, <2>5, <2>6 DEF CallTypes
<1> QED
  BY <1>2 DEF Call!Init, CallInv, EarnedSoFar, SafeSoFar

\* The attempt under way came to status, and WithRetry goes on from there.
Tried(status) ==
  /\ tried' \in Seq(Statuses) /\ Len(tried) = attempt - 1 /\ Len(tried') = attempt
  /\ tried'[attempt] = status /\ \A i \in 1..attempt - 1 : tried'[i] = tried[i]
  /\ result' = status /\ phase' \in {"waiting", "returned"}
  /\ phase' = "waiting" => status \in options.retryable /\ attempt # Call!MaxAttempts
  /\ phase' = "returned" => status \notin options.retryable \/ attempt = Call!MaxAttempts
  /\ Call!MaxAttempts' = Call!MaxAttempts /\ Call!MaxAttempts \in Nat /\ attempt \in 1..Call!MaxAttempts

LEMMA AttemptEnds ==
  ASSUME CallTypes, phase \in {"sending", "sent"}, NEW status \in Statuses, Call!Decide(status),
         UNCHANGED <<options, attempt>>
  PROVE  Tried(status)
<1>1. /\ result' = status /\ tried' = Append(tried, status)
      /\ phase' = IF ~(status \in options.retryable) \/ attempt = Call!MaxAttempts THEN "returned" ELSE "waiting"
  BY DEF Call!Decide, Call!ShouldRetry
<1>2. Call!MaxAttempts' = Call!MaxAttempts
  BY DEF Call!MaxAttempts
<1>3. Call!MaxAttempts \in Nat /\ attempt \in 1..Call!MaxAttempts
  BY AttemptsAreCounted DEF CallTypes
<1>4. tried \in Seq(Statuses) /\ Len(tried) = attempt - 1
  BY DEF CallTypes
<1> QED
  BY <1>1, <1>2, <1>3, <1>4 DEF Tried

LEMMA EarnedKept ==
  ASSUME CallTypes, EarnedSoFar, phase \in {"sending", "sent"}, NEW status \in Statuses, Tried(status),
         options' = options, attempt' = attempt, context' = context
  PROVE  EarnedSoFar'
BY DEF EarnedSoFar, Tried, LastTried

LEMMA SafeKept ==
  ASSUME CallInv, phase \in {"sending", "sent"}, NEW status \in Statuses, Tried(status),
         options' = options, attempt' = attempt, context' = context, late' = late,
         /\ late => phase = "sending" /\ (context = "deadline" => status = "timeout") /\ status # "ok"
         /\ \/ UNCHANGED <<applied, lost>> /\ status # "ok"
            \/ applied' = applied + 1 /\ lost' = lost /\ status = "ok"
            \/ applied' = applied + 1 /\ lost' = lost + 1 /\ status \in {"timeout", "service-unavailable"}
  PROVE  SafeSoFar'
<1>1. late' => context' # "live" /\ phase' # "sent"
  BY DEF CallInv, SafeSoFar, Tried
<1> SUFFICES ASSUME options.retryable = Call!DefaultRetryable
             PROVE  /\ applied' = lost' + IF phase' = "returned" /\ result' = "ok" THEN 1 ELSE 0
                    /\ applied' > 0 /\ phase' # "returned" => \E i \in 1..Len(tried') : tried'[i] = "service-unavailable"
                    /\ applied' > 1 => \E i \in 1..Len(tried') - 1 : tried'[i] = "service-unavailable"
                    /\ late' /\ context' = "deadline" => phase' = "sending" \/ (phase' = "returned" /\ result' = "timeout")
  BY <1>1 DEF SafeSoFar
<1> USE DEF Call!DefaultRetryable
<1>2. /\ applied = lost /\ applied \in Nat /\ lost \in Nat
      /\ applied > 0 => \E i \in 1..attempt - 1 : tried'[i] = "service-unavailable"
  BY DEF CallInv, CallTypes, SafeSoFar, Tried
<1>3. /\ phase' = "waiting" => status \in {"service-unavailable", "too-many-requests"}
      /\ status \notin {"service-unavailable", "too-many-requests"} => phase' = "returned"
      /\ result' = status /\ Len(tried') = attempt /\ tried'[attempt] = status /\ attempt \in Nat \ {0}
      /\ phase' \in {"waiting", "returned"}
  BY DEF Tried
<1>4. applied' = lost' + IF phase' = "returned" /\ result' = "ok" THEN 1 ELSE 0
  BY <1>2, <1>3
<1>5. applied' > 1 => \E i \in 1..Len(tried') - 1 : tried'[i] = "service-unavailable"
  BY <1>2, <1>3
<1>6. applied' > 0 /\ phase' # "returned" => \E i \in 1..Len(tried') : tried'[i] = "service-unavailable"
  <2>1. CASE applied > 0
    <3>1. PICK i \in 1..attempt - 1 : tried'[i] = "service-unavailable"
      BY <1>2, <2>1
    <3> QED
      BY <1>3, <3>1
  <2>2. CASE applied = 0
    <3>1. applied' > 0 /\ phase' # "returned" => status = "service-unavailable"
      BY <1>2, <1>3, <2>2
    <3> QED
      BY <1>3, <3>1
  <2> QED
    BY <1>2, <2>1, <2>2
<1>7. late' /\ context' = "deadline" => phase' = "returned" /\ result' = "timeout"
  BY <1>3
<1> QED
  BY <1>4, <1>5, <1>6, <1>7

LEMMA TypesKept ==
  ASSUME CallTypes, phase \in {"sending", "sent"}, NEW status \in Statuses, Tried(status),
         UNCHANGED <<options, context, attempt, late>>, applied' \in Nat, lost' \in Nat, lost' <= applied'
  PROVE  CallTypes'
<1>1. phase' \in {"sending", "sent", "waiting", "returned"} /\ tried' \in Seq(Statuses)
  BY DEF Tried
<1>2. attempt' \in 1..Call!MaxAttempts' /\ Len(tried') = IF phase' \in {"sending", "sent"} THEN attempt' - 1 ELSE attempt'
  BY DEF Tried
<1> QED
  BY <1>1, <1>2 DEF CallTypes

CallStepOK == applied' > applied => ~late

LEMMA CallInductive == CallInv /\ [Call!Next]_callVars => CallInv' /\ [CallStepOK]_callVars
<1> SUFFICES ASSUME CallInv, [Call!Next]_callVars PROVE CallInv' /\ [CallStepOK]_callVars
  OBVIOUS
<1> USE DEF CallStepOK
<1>1. CASE UNCHANGED callVars
  BY <1>1 DEF callVars, CallInv, CallTypes, EarnedSoFar, SafeSoFar, LastTried, Call!MaxAttempts
<1>2. CallTypes /\ EarnedSoFar /\ SafeSoFar
  BY DEF CallInv
<1>3. ASSUME NEW status \in Statuses, phase \in {"sending", "sent"}, Call!Decide(status),
             UNCHANGED <<options, context, attempt, late>>,
             late => phase = "sending" /\ (context = "deadline" => status = "timeout") /\ status # "ok",
             \/ UNCHANGED <<applied, lost>> /\ status # "ok"
             \/ applied' = applied + 1 /\ lost' = lost /\ status = "ok"
             \/ applied' = applied + 1 /\ lost' = lost + 1 /\ status \in {"timeout", "service-unavailable"}
      PROVE  CallInv'
  <2>1. Tried(status)
    BY <1>2, <1>3, AttemptEnds
  <2>2. applied' \in Nat /\ lost' \in Nat /\ lost' <= applied'
    BY <1>2, <1>3 DEF CallTypes
  <2>3. CallTypes'
    BY <1>2, <1>3, <2>1, <2>2, TypesKept
  <2>4. EarnedSoFar'
    BY <1>2, <1>3, <2>1, EarnedKept
  <2>5. SafeSoFar'
    BY <1>3, <2>1, SafeKept
  <2> QED
    BY <2>3, <2>4, <2>5 DEF CallInv
<1>4. late => context # "live" /\ phase # "sent"
  BY <1>2 DEF SafeSoFar
<1>5. CASE Call!NotSent
  <2> DEFINE status == Call!CallFailure("context")
  <2>1. /\ status \in Statuses /\ status \in {"timeout", "service-unavailable"}
        /\ context = "deadline" => status = "timeout"
    BY DEF Call!CallFailure, Statuses, Call!Refusals
  <2>2. /\ phase = "sending" /\ Call!Decide(status)
        /\ UNCHANGED <<options, context, attempt, late, applied, lost>>
    BY <1>5 DEF Call!NotSent
  <2>3. applied' = applied
    BY <2>2
  <2> HIDE DEF status
  <2>4. CallInv'
    BY <1>3, <2>1, <2>2
  <2>5. CallStepOK
    BY <1>2, <2>3 DEF CallTypes
  <2> QED
    BY <2>4, <2>5
<1>6. ASSUME NEW status \in Call!Refusals \union {"ok", "timeout"}, Call!Answer(status) PROVE CallInv' /\ CallStepOK
  <2>1. /\ phase = "sent" /\ Call!Decide(status) /\ applied' = IF status = "ok" THEN applied + 1 ELSE applied
        /\ UNCHANGED <<options, context, attempt, late, lost>>
    BY <1>6 DEF Call!Answer
  <2>2. CallInv'
    BY <1>3, <1>4, <2>1 DEF Statuses
  <2> QED
    BY <1>4, <2>1, <2>2
<1>7. ASSUME NEW cause \in {"reset", "timeout"}, NEW wasApplied \in BOOLEAN, Call!Lose(cause, wasApplied)
      PROVE  CallInv' /\ CallStepOK
  <2> DEFINE status == Call!CallFailure(cause)
  <2>1. status \in Statuses /\ status \in {"timeout", "service-unavailable"}
    BY DEF Call!CallFailure, Statuses, Call!Refusals
  <2>2. /\ phase = "sent" /\ Call!Decide(status) /\ UNCHANGED <<options, context, attempt, late>>
        /\ UNCHANGED <<applied, lost>> \/ (applied' = applied + 1 /\ lost' = lost + 1)
    BY <1>7 DEF Call!Lose
  <2>3. ~late
    BY <1>4, <2>2
  <2> HIDE DEF status
  <2>4. CallInv'
    BY <1>3, <2>1, <2>2, <2>3
  <2> QED
    BY <2>3, <2>4
<1>8. ASSUME Call!Send \/ Call!Wake \/ Call!GiveUp \/ \E how \in {"deadline", "cancelled"} : Call!EndContext(how)
      PROVE  CallInv' /\ CallStepOK
  <2>1. /\ options' = options /\ tried' = tried /\ applied' = applied /\ lost' = lost /\ result' = result
        /\ Call!MaxAttempts' = Call!MaxAttempts /\ Call!MaxAttempts \in Nat
    BY <1>2, <1>8, AttemptsAreCounted DEF CallTypes, Call!MaxAttempts, Call!Send, Call!Wake, Call!GiveUp, Call!EndContext
  <2>2. \/ phase = "sending" /\ context = "live" /\ phase' = "sent" /\ UNCHANGED <<context, attempt, late>>
        \/ phase = "waiting" /\ phase' = "sending" /\ attempt' = attempt + 1 /\ UNCHANGED context
           /\ late' = (late \/ context # "live")
        \/ phase = "waiting" /\ context # "live" /\ phase' = "returned" /\ UNCHANGED <<context, attempt, late>>
        \/ phase # "returned" /\ context = "live" /\ context' \in {"deadline", "cancelled"}
           /\ UNCHANGED <<phase, attempt, late>>
    BY <1>8 DEF Call!Send, Call!Wake, Call!GiveUp, Call!EndContext
  <2>3. late' \in BOOLEAN
    BY <1>2, <2>2, Zenon DEF CallTypes
  <2>4. attempt' \in 1..Call!MaxAttempts' /\ Len(tried') = IF phase' \in {"sending", "sent"} THEN attempt' - 1 ELSE attempt'
    BY <1>2, <2>1, <2>2 DEF CallTypes, EarnedSoFar
  <2>5. phase' \in {"sending", "sent", "waiting", "returned"} /\ context' \in {"live", "deadline", "cancelled"}
    BY <1>2, <2>2 DEF CallTypes
  <2>6. CallTypes'
    BY <1>2, <2>1, <2>3, <2>4, <2>5, Zenon DEF CallTypes
  <2>7. EarnedSoFar'
    BY <1>2, <2>1, <2>2 DEF CallTypes, EarnedSoFar, LastTried
  <2>8. SafeSoFar'
    <3>1. late' => context' # "live" /\ phase' # "sent"
      BY <1>4, <2>2, Zenon
    <3> SUFFICES ASSUME options.retryable = Call!DefaultRetryable
                 PROVE  /\ applied = lost + IF phase' = "returned" /\ result = "ok" THEN 1 ELSE 0
                        /\ applied > 0 /\ phase' # "returned" => \E i \in 1..Len(tried) : tried[i] = "service-unavailable"
                        /\ applied > 1 => \E i \in 1..Len(tried) - 1 : tried[i] = "service-unavailable"
                        /\ late' /\ context' = "deadline" => phase' = "sending" \/ (phase' = "returned" /\ result = "timeout")
      BY <2>1, <3>1 DEF SafeSoFar
    <3>2. phase = "waiting" => result \in {"service-unavailable", "too-many-requests"}
      BY <1>2 DEF CallTypes, EarnedSoFar, LastTried, Call!DefaultRetryable
    <3> QED
      BY <1>2, <2>2, <3>2 DEF SafeSoFar
  <2>9. CallStepOK
    BY <1>2, <2>1 DEF CallTypes
  <2> QED
    BY <2>6, <2>7, <2>8, <2>9 DEF CallInv
<1> QED
  BY <1>1, <1>5, <1>6, <1>7, <1>8 DEF Call!Next

\* However the network and the context behave, a call is attempted as often as it may be and
\* as its results call for, is applied twice only where a reply was lost, and begins nothing
\* for a caller that is gone (retry.go:36-76, failure.go:10-41).
THEOREM CallsStayHonest == Call!Spec \/ MCSpec => CallsAreHonest
<1>1. CallInv => Call!CallsAreHonest
  <2> SUFFICES ASSUME CallTypes, EarnedSoFar, SafeSoFar PROVE Call!CallsAreHonest
    BY DEF CallInv
  <2>1. Call!MaxAttempts \in Nat
    BY AttemptsAreCounted DEF CallTypes
  <2>2. Call!TypeOK
    BY DEF CallTypes, Call!TypeOK
  <2>3. Call!AttemptsAreEarned
    BY <2>1 DEF CallTypes, EarnedSoFar, LastTried, Call!AttemptsAreEarned
  <2>4. Call!RetriesAreSafe
    <3> SUFFICES ASSUME options.retryable = Call!DefaultRetryable
                 PROVE  /\ applied > 1 => \E i \in 1..Len(tried) - 1 : tried[i] = "service-unavailable"
                        /\ applied - lost <= 1
                        /\ phase = "returned" /\ result = "ok" => applied - lost = 1
                        /\ \A i \in 1..Len(tried) : tried[i] = "timeout" => i = Len(tried)
                        /\ late /\ context = "deadline" /\ phase = "returned" => result = "timeout"
      BY DEF Call!RetriesAreSafe
    <3>1. \A i \in 1..Len(tried) : tried[i] = "timeout" => i = Len(tried)
      BY <2>1 DEF CallTypes, EarnedSoFar, Call!DefaultRetryable
    <3> QED
      BY <3>1 DEF CallTypes, SafeSoFar
  <2> QED
    BY <2>2, <2>3, <2>4 DEF Call!CallsAreHonest
<1>2. (MCInit => Call!Init) /\ ([MCNext]_all => [Call!Next]_callVars) /\ ([Call!Next]_Call!vars => [Call!Next]_callVars)
  BY DEF MCInit, MCNext, all, callVars, Call!vars
<1>3. [CallStepOK]_callVars => [applied' > applied => ~late]_Call!vars
  BY DEF CallStepOK, callVars, Call!vars
<1>4. CallInv' => Call!CallsAreHonest'
  BY <1>1, PTL
<1> QED
  BY <1>2, <1>3, <1>4, CallStarts, CallInductive, PTL
     DEF Call!Spec, MCSpec, CallsAreHonest, Call!NothingAfterTheEnd

-----------------------------------------------------------------------------
(* The cache. *)

CacheTypes ==
  /\ ttl \in TTLs /\ clock \in Nat \ {0} /\ source \in 0..MaxVersion
  /\ superseded \in [0..MaxVersion -> Nat]
  /\ \A v \in 0..MaxVersion : superseded[v] <= clock /\ (superseded[v] > 0 => v < source)
  /\ at \in [Caller -> {"get", "load", "done"}] /\ loaded \in [Caller -> 0..MaxVersion] /\ since \in [Caller -> Nat]
  /\ answer \in [Caller -> [kind : {"none", "hit", "loaded", "failed"}, version : 0..MaxVersion]]

\* A load is young, and what it read was current when it read it.
LoadsAreFresh ==
  \A c \in Caller : at[c] = "load" =>
    /\ loaded[c] <= source /\ since[c] <= clock /\ clock <= since[c] + LoadTime
    /\ superseded[loaded[c]] > 0 => since[c] <= superseded[loaded[c]]

\* A value of the store expires, at most a ttl and a load after it was superseded.
EntryExpires ==
  entry.present /\ entry.version # Garbage =>
    /\ entry.version \in 0..MaxVersion /\ entry.version <= source /\ entry.expiresAt \in Nat
    /\ ttl > 0 => entry.expiresAt > 0 /\ entry.expiresAt <= clock + ttl
    /\ ttl > 0 /\ superseded[entry.version] > 0 => entry.expiresAt <= superseded[entry.version] + ttl + LoadTime

\* A hit is looked at while it is given.
HitsAreFresh ==
  \A c \in Caller : answer[c].kind = "hit" =>
    /\ at[c] = "done"
    /\ ttl > 0 /\ superseded[answer[c].version] > 0 => clock < superseded[answer[c].version] + ttl + LoadTime

CacheInv == CacheTypes /\ LoadsAreFresh /\ EntryExpires /\ HitsAreFresh

LEMMA CacheStarts == Init => CacheInv
<1> SUFFICES ASSUME Init PROVE CacheInv
  OBVIOUS
<1> USE EdgesAssumption DEF Init
<1>1. CacheTypes
  BY DEF CacheTypes, Answer
<1>2. LoadsAreFresh /\ HitsAreFresh
  BY DEF LoadsAreFresh, HitsAreFresh, Answer
<1>3. EntryExpires
  BY DEF EntryExpires, Absent, Entry, Garbage, NoExpiry
<1> QED
  BY <1>1, <1>2, <1>3 DEF CacheInv

LEMMA Placed ==
  ASSUME NEW S, NEW f \in [Caller -> S], NEW c \in Caller, NEW v \in S, NEW g, g = [f EXCEPT ![c] = v]
  PROVE  g \in [Caller -> S] /\ g[c] = v /\ \A other \in Caller \ {c} : g[other] = f[other]
OBVIOUS

\* What a call replies, wherever it comes from.
LEMMA Replies ==
  ASSUME CacheTypes, NEW c \in Caller, NEW kind \in {"hit", "loaded", "failed"}, NEW version \in 0..MaxVersion,
         Reply(c, Answer(kind, version))
  PROVE  /\ at' \in [Caller -> {"get", "load", "done"}] /\ at'[c] = "done"
         /\ answer' \in [Caller -> [kind : {"none", "hit", "loaded", "failed"}, version : 0..MaxVersion]]
         /\ answer'[c] = Answer(kind, version) /\ answer'[c].kind = kind /\ answer'[c].version = version
         /\ \A other \in Caller \ {c} : at'[other] = at[other] /\ answer'[other] = answer[other]
BY DEF Reply, Answer, CacheTypes

LEMMA HitKept == ASSUME CacheInv, NEW c \in Caller, Hit(c) PROVE CacheInv' /\ StoredIsReturned
<1> USE DEF CacheInv
<1>1. /\ at[c] = "get" /\ entry.present /\ ~Expired /\ entry.version # Garbage /\ Reply(c, Answer("hit", entry.version))
      /\ UNCHANGED <<ttl, clock, source, superseded, invalid, entry, loaded, since>>
  BY DEF Hit
<1>2. entry.version \in 0..MaxVersion /\ entry.expiresAt \in Nat
  BY <1>1 DEF EntryExpires
<1>3. /\ at' \in [Caller -> {"get", "load", "done"}] /\ at'[c] = "done"
      /\ answer' \in [Caller -> [kind : {"none", "hit", "loaded", "failed"}, version : 0..MaxVersion]]
      /\ answer'[c].kind = "hit" /\ answer'[c].version = entry.version
      /\ \A other \in Caller \ {c} : at'[other] = at[other] /\ answer'[other] = answer[other]
  BY <1>1, <1>2, Replies
<1>4. CacheTypes'
  BY <1>1, <1>3, Zenon DEF CacheTypes
<1>5. LoadsAreFresh'
  BY <1>1, <1>3 DEF LoadsAreFresh
<1>6. EntryExpires'
  BY <1>1 DEF EntryExpires, Garbage
<1>7. ttl > 0 /\ superseded[entry.version] > 0 => clock < superseded[entry.version] + ttl + LoadTime
  <2>1. ttl > 0 => clock < entry.expiresAt
    BY <1>1, <1>2 DEF Expired, NoExpiry, EntryExpires, CacheTypes
  <2>2. superseded[entry.version] \in Nat /\ ttl \in Nat /\ LoadTime \in Nat /\ clock \in Nat
    BY <1>2, EdgesAssumption DEF CacheTypes
  <2> QED
    BY <1>1, <1>2, <2>1, <2>2 DEF EntryExpires
<1>8. HitsAreFresh'
  BY <1>1, <1>3, <1>7 DEF HitsAreFresh
<1> QED
  BY <1>1, <1>4, <1>5, <1>6, <1>8 DEF StoredIsReturned

LEMMA MissKept == ASSUME CacheInv, NEW c \in Caller, Miss(c) PROVE CacheInv' /\ StoredIsReturned
<1> USE DEF CacheInv
<1>1. /\ at[c] = "get" /\ at' = [at EXCEPT ![c] = "load"] /\ loaded' = [loaded EXCEPT ![c] = source]
      /\ since' = [since EXCEPT ![c] = clock]
      /\ entry' = entry \/ entry' = Absent
      /\ UNCHANGED <<ttl, clock, source, superseded, invalid, answer>>
  BY DEF Miss
<1>2. /\ source \in 0..MaxVersion /\ clock \in Nat /\ LoadTime \in Nat /\ MaxVersion \in Nat
      /\ at \in [Caller -> {"get", "load", "done"}] /\ loaded \in [Caller -> 0..MaxVersion] /\ since \in [Caller -> Nat]
  BY EdgesAssumption DEF CacheTypes
<1>3. /\ at' \in [Caller -> {"get", "load", "done"}] /\ at'[c] = "load"
      /\ loaded' \in [Caller -> 0..MaxVersion] /\ loaded'[c] = source
      /\ since' \in [Caller -> Nat] /\ since'[c] = clock
      /\ \A other \in Caller \ {c} : at'[other] = at[other] /\ loaded'[other] = loaded[other] /\ since'[other] = since[other]
  <2>1. "load" \in {"get", "load", "done"}
    OBVIOUS
  <2>2. at' \in [Caller -> {"get", "load", "done"}] /\ at'[c] = "load" /\ \A other \in Caller \ {c} : at'[other] = at[other]
    BY <1>1, <1>2, <2>1, Placed
  <2>3. loaded' \in [Caller -> 0..MaxVersion] /\ loaded'[c] = source /\ \A other \in Caller \ {c} : loaded'[other] = loaded[other]
    BY <1>1, <1>2, Placed
  <2>4. since' \in [Caller -> Nat] /\ since'[c] = clock /\ \A other \in Caller \ {c} : since'[other] = since[other]
    BY <1>1, <1>2, Placed
  <2> QED
    BY <2>2, <2>3, <2>4
<1>4. CacheTypes'
  BY <1>1, <1>3 DEF CacheTypes
<1>5. LoadsAreFresh'
  <2>1. superseded[source] \in Nat /\ ~(superseded[source] > 0 /\ source >= source)
    BY <1>2 DEF CacheTypes
  <2>2. superseded[source] = 0
    BY <1>2, <2>1
  <2> QED
    BY <1>1, <1>2, <1>3, <2>2 DEF LoadsAreFresh
<1>6. EntryExpires'
  BY <1>1 DEF EntryExpires, Garbage, Absent
<1>7. HitsAreFresh'
  BY <1>1, <1>3 DEF HitsAreFresh
<1> QED
  BY <1>1, <1>4, <1>5, <1>6, <1>7 DEF StoredIsReturned, Absent

LEMMA FillKept == ASSUME CacheInv, NEW c \in Caller, Fill(c) \/ LoadFails(c) PROVE CacheInv' /\ StoredIsReturned
<1> USE DEF CacheInv
<1>1. /\ at[c] = "load" /\ UNCHANGED <<ttl, clock, source, superseded, invalid, loaded, since>>
      /\ \/ Set(loaded[c]) /\ Reply(c, Answer("loaded", loaded[c]))
         \/ entry' = entry /\ \E kind \in {"loaded", "failed"}, version \in 0..MaxVersion : Reply(c, Answer(kind, version))
  BY EdgesAssumption DEF Fill, LoadFails, CacheTypes
<1>2. loaded[c] \in 0..MaxVersion
  BY DEF CacheTypes
<1>3. PICK kind \in {"loaded", "failed"}, version \in 0..MaxVersion :
        /\ Reply(c, Answer(kind, version))
        /\ entry' = entry \/ (Set(loaded[c]) /\ kind = "loaded" /\ version = loaded[c])
  BY <1>1, <1>2
<1>4. /\ at' \in [Caller -> {"get", "load", "done"}] /\ at'[c] = "done"
      /\ answer' \in [Caller -> [kind : {"none", "hit", "loaded", "failed"}, version : 0..MaxVersion]]
      /\ answer'[c] = Answer(kind, version) /\ answer'[c].kind = kind
      /\ \A other \in Caller \ {c} : at'[other] = at[other] /\ answer'[other] = answer[other]
  BY <1>3, Replies
<1>5. CacheTypes'
  BY <1>1, <1>4, Zenon DEF CacheTypes
<1>6. LoadsAreFresh'
  BY <1>1, <1>4 DEF LoadsAreFresh
<1>7. HitsAreFresh'
  BY <1>1, <1>3, <1>4 DEF HitsAreFresh
<1>8. CASE entry' = entry
  <2>1. EntryExpires'
    BY <1>1, <1>8 DEF EntryExpires, Garbage
  <2> QED
    BY <1>5, <1>6, <1>7, <1>8, <2>1 DEF StoredIsReturned
<1>9. CASE Set(loaded[c]) /\ kind = "loaded" /\ version = loaded[c]
  <2>1. /\ entry'.version = loaded[c] /\ entry'.present
        /\ entry'.expiresAt = IF ttl > 0 THEN clock + ttl ELSE 0
    BY <1>9 DEF Set, Entry, NoExpiry
  <2>2. /\ loaded[c] <= source /\ clock <= since[c] + LoadTime
        /\ superseded[loaded[c]] > 0 => since[c] <= superseded[loaded[c]]
    BY <1>1 DEF LoadsAreFresh
  <2>3. since[c] \in Nat /\ superseded[loaded[c]] \in Nat /\ ttl \in Nat /\ clock \in Nat \ {0} /\ LoadTime \in Nat
    BY <1>2, EdgesAssumption DEF CacheTypes
  <2>4. EntryExpires'
    BY <1>1, <1>2, <2>1, <2>2, <2>3 DEF EntryExpires
  <2>5. StoredIsReturned
    BY <1>1, <1>4, <1>9, <2>1 DEF StoredIsReturned
  <2> QED
    BY <1>5, <1>6, <1>7, <2>4, <2>5
<1> QED
  BY <1>3, <1>8, <1>9

LEMMA AgainKept == ASSUME CacheInv, NEW c \in Caller, Again(c) PROVE CacheInv' /\ StoredIsReturned
<1> USE DEF CacheInv
<1>1. /\ at' = [at EXCEPT ![c] = "get"] /\ answer' = [answer EXCEPT ![c] = Answer("none", 0)]
      /\ loaded' = [loaded EXCEPT ![c] = 0] /\ since' = [since EXCEPT ![c] = 0]
      /\ UNCHANGED <<ttl, clock, source, superseded, invalid, entry>>
  BY DEF Again
<1>2. /\ at' \in [Caller -> {"get", "load", "done"}] /\ loaded' \in [Caller -> 0..MaxVersion] /\ since' \in [Caller -> Nat]
      /\ at'[c] = "get"
      /\ \A other \in Caller \ {c} : at'[other] = at[other] /\ loaded'[other] = loaded[other] /\ since'[other] = since[other]
  BY <1>1, EdgesAssumption DEF CacheTypes
<1>3. /\ answer' \in [Caller -> [kind : {"none", "hit", "loaded", "failed"}, version : 0..MaxVersion]]
      /\ answer'[c].kind = "none" /\ \A other \in Caller \ {c} : answer'[other] = answer[other]
  <2>1. Answer("none", 0) \in [kind : {"none", "hit", "loaded", "failed"}, version : 0..MaxVersion]
    BY EdgesAssumption DEF Answer
  <2>2. Answer("none", 0).kind = "none"
    BY DEF Answer
  <2> QED
    BY <1>1, <2>1, <2>2 DEF CacheTypes
<1>4. CacheTypes'
  BY <1>1, <1>2, <1>3 DEF CacheTypes
<1>5. LoadsAreFresh' /\ HitsAreFresh'
  BY <1>1, <1>2, <1>3 DEF LoadsAreFresh, HitsAreFresh
<1>6. EntryExpires'
  BY <1>1 DEF EntryExpires, Garbage
<1> QED
  BY <1>1, <1>4, <1>5, <1>6 DEF StoredIsReturned

\* The writer, whose write ends the currency of what is read and stored no sooner than now.
LEMMA WriteKept == CacheInv /\ Write => CacheInv' /\ StoredIsReturned
<1> SUFFICES ASSUME CacheInv, Write PROVE CacheInv' /\ StoredIsReturned
  OBVIOUS
<1> USE DEF CacheInv
<1>1. /\ source < MaxVersion /\ source' = source + 1 /\ superseded' = [superseded EXCEPT ![source] = clock]
      /\ UNCHANGED <<ttl, clock, entry, at, loaded, since, answer>>
  BY DEF Write, call
<1>2. source \in Nat /\ source \in 0..MaxVersion /\ clock \in Nat \ {0} /\ ttl \in Nat /\ LoadTime \in Nat /\ MaxVersion \in Nat
  BY EdgesAssumption DEF CacheTypes
<1>3. /\ superseded' \in [0..MaxVersion -> Nat]
      /\ \A v \in 0..MaxVersion : superseded'[v] = IF v = source THEN clock ELSE superseded[v]
  BY <1>1, <1>2 DEF CacheTypes
<1>4. \A v \in 0..MaxVersion : superseded'[v] <= clock /\ (superseded'[v] > 0 => v < source')
  BY <1>1, <1>2, <1>3 DEF CacheTypes
<1>5. CacheTypes'
  BY <1>1, <1>2, <1>3, <1>4 DEF CacheTypes
<1>6. LoadsAreFresh'
  <2>1. \A c \in Caller : loaded[c] \in 0..MaxVersion /\ since[c] \in Nat
    BY DEF CacheTypes
  <2> QED
    BY <1>1, <1>2, <1>3, <2>1 DEF LoadsAreFresh
<1>7. EntryExpires'
  BY <1>1, <1>2, <1>3 DEF EntryExpires, Garbage
<1>8. HitsAreFresh'
  <2>1. \A c \in Caller : answer[c].version \in 0..MaxVersion
    BY DEF CacheTypes
  <2> QED
    BY <1>1, <1>2, <1>3, <2>1 DEF HitsAreFresh
<1> QED
  BY <1>1, <1>5, <1>6, <1>7, <1>8 DEF StoredIsReturned

LEMMA DeleteKept == CacheInv /\ Delete => CacheInv' /\ StoredIsReturned
<1> SUFFICES ASSUME CacheInv, Delete PROVE CacheInv' /\ StoredIsReturned
  OBVIOUS
<1>1. ~entry'.present /\ UNCHANGED <<ttl, clock, source, superseded, at, loaded, since, answer>>
  BY DEF Delete, call, Absent
<1> QED
  BY <1>1 DEF CacheInv, CacheTypes, LoadsAreFresh, EntryExpires, HitsAreFresh, StoredIsReturned

\* Time goes on only while nobody is told a hit, and no further than the loads may last.
LEMMA ClockKept == CacheInv /\ Tick => CacheInv' /\ StoredIsReturned
<1> SUFFICES ASSUME CacheInv, Tick PROVE CacheInv' /\ StoredIsReturned
  OBVIOUS
<1> USE DEF CacheInv
<1>1. /\ clock' = clock + 1 /\ UNCHANGED <<ttl, source, superseded, entry, at, loaded, since, answer>>
      /\ \A c \in Caller : at[c] = "get" \/ (at[c] = "load" /\ clock < since[c] + LoadTime)
  BY DEF Tick, call
<1>2. clock \in Nat \ {0} /\ ttl \in Nat /\ LoadTime \in Nat /\ \A c \in Caller : since[c] \in Nat
  BY EdgesAssumption DEF CacheTypes
<1>3. CacheTypes'
  <2>1. \A v \in 0..MaxVersion : superseded[v] \in Nat /\ superseded[v] <= clock
    BY Zenon DEF CacheTypes
  <2>2. clock' \in Nat \ {0} /\ \A v \in 0..MaxVersion : superseded[v] <= clock'
    BY <1>1, <1>2, <2>1
  <2> QED
    BY <1>1, <2>2 DEF CacheTypes
<1>4. LoadsAreFresh'
  BY <1>1, <1>2 DEF LoadsAreFresh
<1>5. EntryExpires'
  BY <1>1, <1>2 DEF EntryExpires, Garbage
<1>6. HitsAreFresh'
  BY <1>1 DEF HitsAreFresh
<1> QED
  BY <1>1, <1>3, <1>4, <1>5, <1>6 DEF StoredIsReturned

LEMMA CacheInductive == CacheInv /\ [Next]_vars => CacheInv' /\ [StoredIsReturned]_vars
<1> SUFFICES ASSUME CacheInv, [Next]_vars PROVE CacheInv' /\ [StoredIsReturned]_vars
  OBVIOUS
<1>1. CASE UNCHANGED vars
  BY <1>1 DEF vars, CacheInv, CacheTypes, LoadsAreFresh, EntryExpires, HitsAreFresh, Garbage
<1>2. ASSUME Next PROVE CacheInv' /\ StoredIsReturned
  BY <1>2, HitKept, MissKept, FillKept, AgainKept, WriteKept, DeleteKept, ClockKept DEF Next
<1> QED
  BY <1>1, <1>2

\* However fills race the writer and its invalidations, nothing is served that was out of date
\* for as long as the ttl and a load, and what enters the cache is what a call returned as
\* loaded (cache.go:51-68).
THEOREM CacheStaysHonest == Spec \/ MCSpec => CacheIsHonest
<1>1. CacheInv => StalenessIsBounded
  BY DEF CacheInv, HitsAreFresh, StalenessIsBounded
<1>2. (MCInit => Init) /\ ([MCNext]_all => [Next]_vars)
  BY DEF MCInit, MCNext, all, vars
<1>3. CacheInv' => StalenessIsBounded'
  BY <1>1, PTL
<1> QED
  BY <1>2, <1>3, CacheStarts, CacheInductive, PTL DEF Spec, MCSpec, CacheIsHonest, NothingRemembersAFailure

-----------------------------------------------------------------------------
(* What platforms push: an invocation's account of its event. *)

GoneThrough(run) == {run.event[i] : i \in 1..run.at - 1}

Run ==
  [phase : {"idle", "handling", "answered"}, event : Seq(Message), at : Nat \ {0},
   refused : SUBSET Message, accepted : SUBSET Message, answer : {"none", "json", "nothing", "error", "200", "204", "500"}]

\* What was gone through is either accepted or refused; the answer says whether anything was.
Accounts(t, run) ==
  /\ run \in Run /\ run.at <= Len(run.event) + 1
  /\ \A i, j \in 1..Len(run.event) : i < j => run.event[i] # run.event[j]
  /\ run.accepted \union run.refused = GoneThrough(run) /\ run.accepted \cap run.refused = {}
  /\ run.phase = "handling" => run.at <= Len(run.event) /\ (t.stops => run.refused = {})
  /\ t.stops => \A i \in 1..run.at - 2 : run.event[i] \in run.accepted
  /\ run.phase = "answered" =>
       \/ run.answer = "error"
       \/ /\ run.answer = Events!Answer(t, run.event, run.refused)
          /\ run.at = Len(run.event) + 1 \/ (t.stops /\ run.refused # {})

EventInv ==
  /\ transport \in Events!Transports /\ delivery \in Events!Deliveries /\ held \subseteq Message /\ faults \in 0..MaxFaults
  /\ DOMAIN env = Env /\ \A e \in Env : Accounts(transport, env[e])

\* What a transport answers is read as it is meant, and a failure that is taken names its messages.
AnswersFit(t) ==
  /\ t.stops \in BOOLEAN /\ t.lists \in BOOLEAN /\ t.many \in BOOLEAN
  /\ t.done \in {"json", "nothing", "200", "204"} /\ t.failed \in {"json", "error", "500"}
  /\ t.lists => ~t.stops /\ t.failed = "json"
  /\ t.failed = "json" => ~t.stops

LEMMA TransportsAnswer == \A t \in Events!Transports : AnswersFit(t)
<1>1. /\ AnswersFit(Events!SQS) /\ AnswersFit(Events!SNS) /\ AnswersFit(Events!S3) /\ AnswersFit(Events!EventBridge)
      /\ AnswersFit(Events!AsyncEnvelope) /\ AnswersFit(Events!EventHub) /\ AnswersFit(Events!Queue) /\ AnswersFit(Events!EventGrid)
      /\ AnswersFit(Events!CosmosFeed) /\ AnswersFit(Events!PubSub) /\ AnswersFit(Events!CloudEvent) /\ AnswersFit(Events!CloudFunction)
  BY DEF AnswersFit, Events!SQS, Events!SNS, Events!S3, Events!EventBridge, Events!AsyncEnvelope,
       Events!EventHub, Events!Queue, Events!EventGrid, Events!CosmosFeed, Events!PubSub, Events!CloudEvent, Events!CloudFunction
<1> QED
  BY <1>1 DEF Events!Transports

LEMMA RestingAccounts == (\A t : Accounts(t, Events!Resting)) /\ Events!Resting.phase = "idle"
<1>1. Events!Resting.event \in Seq(Message) /\ Len(Events!Resting.event) = 0
  BY DEF Events!Resting
<1> QED
  BY <1>1 DEF Accounts, GoneThrough, Run, Events!Resting

LEMMA EventsStart == Events!Init => EventInv
BY RestingAccounts, EventsAssumption DEF Events!Init, EventInv

LEMMA EventsCount == \A S : Events!Cardinality(S) = Cardinality(S)
BY DEF Events!Cardinality, Cardinality

\* An event is a sequence of messages, each of them in it once.
LEMMA EventsAreSequences ==
  ASSUME held \subseteq Message, transport \in Events!Transports, NEW event \in Events!Events
  PROVE  /\ event \in Seq(Message) /\ Len(event) > 0
         /\ \A i, j \in 1..Len(event) : i < j => event[i] # event[j]
<1>1. ASSUME NEW batch \in SUBSET Message, batch # {}, NEW given \in Events!InOrder(batch)
      PROVE  /\ given \in Seq(Message) /\ Len(given) > 0
             /\ \A i, j \in 1..Len(given) : i < j => given[i] # given[j]
  <2>1. IsFiniteSet(batch) /\ Cardinality(batch) \in Nat /\ Cardinality(batch) # 0
    BY <1>1, EventsAssumption, FS_Subset, FS_CardinalityType, FS_EmptySet, Zenon
  <2>2. given \in [1..Cardinality(batch) -> batch]
    BY <1>1, EventsCount DEF Events!InOrder
  <2>5. \A i, j \in 1..Cardinality(batch) : i < j => given[i] < given[j]
    BY <1>1, <2>2, EventsCount DEF Events!InOrder
  <2>3. given \in Seq(Message) /\ Len(given) = Cardinality(batch)
    BY <2>1, <2>2
  <2>4. \A i \in 1..Cardinality(batch) : given[i] \in Nat
    BY <2>2, EventsAssumption, Zenon
  <2> QED
    BY <2>1, <2>3, <2>4, <2>5
<1>2. CASE transport.lists
  <2>1. PICK batch \in (SUBSET held) \ {{}} : event \in Events!InOrder(batch)
    BY <1>2 DEF Events!Events
  <2>2. batch \in SUBSET Message /\ batch # {}
    BY <2>1
  <2> QED
    BY <1>1, <2>1, <2>2
<1>3. CASE ~transport.lists /\ transport.many
  <2>1. held # {} /\ Message # {} /\ event \in Events!InOrder(Message)
    BY <1>3 DEF Events!Events
  <2> QED
    BY <1>1, <2>1
<1>4. CASE ~transport.lists /\ ~transport.many
  <2>1. PICK m \in held : event = <<m>>
    BY <1>4 DEF Events!Events
  <2> QED
    BY <2>1
<1> QED
  BY <1>2, <1>3, <1>4

EventStepOK == \A m \in held : m \notin held' => \E e \in Env : env[e].phase = "answered" /\ m \in env[e].accepted

LEMMA DeliverKept == ASSUME EventInv, NEW e \in Env, Events!Deliver(e) PROVE EventInv' /\ EventStepOK
<1>1. PICK event \in Events!Events :
        /\ env' = [env EXCEPT ![e] = [Events!Resting EXCEPT !.phase = "handling", !.event = event]]
        /\ UNCHANGED <<transport, delivery, held, faults>>
  BY Zenon DEF Events!Deliver
<1>2. /\ event \in Seq(Message) /\ Len(event) > 0
      /\ \A i, j \in 1..Len(event) : i < j => event[i] # event[j]
  BY EventsAreSequences DEF EventInv
<1>3. Accounts(transport, env'[e])
  <2> DEFINE run == env'[e]
  <2>1. run = [phase |-> "handling", event |-> event, at |-> 1, refused |-> {}, accepted |-> {}, answer |-> "none"]
    BY <1>1, Zenon DEF EventInv, Events!Resting
  <2> HIDE DEF run
  <2>2. run \in Run /\ GoneThrough(run) = {}
    BY <1>2, <2>1 DEF Run, GoneThrough
  <2>3. /\ run.at = 1 /\ run.event = event /\ run.refused = {} /\ run.accepted = {} /\ run.phase = "handling"
        /\ Len(event) \in Nat
    BY <1>2, <2>1
  <2>4. Accounts(transport, run)
    BY <1>2, <2>2, <2>3 DEF Accounts
  <2> QED
    BY <2>4 DEF run
<1>4. \A other \in Env \ {e} : Accounts(transport, env'[other])
  BY <1>1 DEF EventInv, Accounts, GoneThrough
<1> QED
  BY <1>1, <1>3, <1>4 DEF EventInv, EventStepOK

\* A run whose account is in order, after one more message.
LEMMA HandleKept == ASSUME EventInv, NEW e \in Env, Events!Handle(e) PROVE EventInv' /\ EventStepOK
<1> DEFINE run == env[e]
           m == run.event[run.at]
<1>1. PICK ending \in Events!EndingsOf(m \in Unmatched) :
        /\ ending = "failure" => faults < MaxFaults
        /\ faults' = IF ending = "failure" THEN faults + 1 ELSE faults
        /\ env' = [env EXCEPT ![e] = Events!Handled(run, Events!Acknowledge(delivery, ending))]
  BY Zenon DEF Events!Handle
<1> DEFINE acknowledged == Events!Acknowledge(delivery, ending)
           refused == IF acknowledged THEN run.refused ELSE run.refused \union {m}
           ends == Events!EndsAt(transport, run.event, run.at, acknowledged)
           next == env'[e]
<1>2. /\ run.phase = "handling" /\ UNCHANGED <<transport, delivery, held>>
      /\ Accounts(transport, run) /\ run \in Run /\ run.at \in 1..Len(run.event) /\ m \in Message
  BY DEF Events!Handle, EventInv, Accounts, Run
<1>3. /\ next.event = run.event /\ next.at = run.at + 1 /\ next.refused = refused
      /\ next.accepted = IF acknowledged THEN run.accepted \union {m} ELSE run.accepted
      /\ next.phase = IF ends THEN "answered" ELSE "handling"
      /\ next.answer = IF ends THEN Events!Answer(transport, run.event, refused) ELSE run.answer
      /\ next \in Run
  <2>1. Events!Answer(transport, run.event, refused) \in {"json", "nothing", "error", "200", "204", "500"}
    BY TransportsAnswer DEF Events!Answer, EventInv, AnswersFit
  <2>2. /\ run.at + 1 \in Nat \ {0} /\ refused \in SUBSET Message /\ run.accepted \union {m} \in SUBSET Message
    BY <1>2 DEF Run
  <2>3. next = [run EXCEPT
                !.at = @ + 1, !.refused = refused,
                !.accepted = IF acknowledged THEN @ \union {m} ELSE @,
                !.phase = IF ends THEN "answered" ELSE @,
                !.answer = IF ends THEN Events!Answer(transport, run.event, refused) ELSE @]
    <3>1. next = Events!Handled(run, acknowledged)
      BY <1>1 DEF EventInv
    <3> QED
      BY <3>1 DEF Events!Handled, Events!Refused
  <2> HIDE DEF run, m, refused, acknowledged, ends, next
  <2>4. /\ run = [phase |-> run.phase, event |-> run.event, at |-> run.at, refused |-> run.refused,
                  accepted |-> run.accepted, answer |-> run.answer]
        /\ run.event \in Seq(Message) /\ run.accepted \in SUBSET Message
        /\ run.answer \in {"none", "json", "nothing", "error", "200", "204", "500"}
    BY <1>2 DEF Run
  <2>5. next = [phase |-> IF ends THEN "answered" ELSE "handling", event |-> run.event, at |-> run.at + 1, refused |-> refused,
                accepted |-> IF acknowledged THEN run.accepted \union {m} ELSE run.accepted,
                answer |-> IF ends THEN Events!Answer(transport, run.event, refused) ELSE run.answer]
    BY <1>2, <2>3, <2>4, Zenon
  <2> QED
    BY <2>1, <2>2, <2>4, <2>5 DEF Run
<1>4. GoneThrough(next) = GoneThrough(run) \union {m} /\ m \notin GoneThrough(run)
  <2>1. run.at \in 1..Len(run.event) /\ run.event \in Seq(Message)
    BY <1>2 DEF Run
  <2>2. 1..(run.at + 1) - 1 = (1..run.at - 1) \union {run.at}
    BY <2>1
  <2>3. \A i \in 1..run.at - 1 : run.event[i] # m
    BY <1>2, <2>1 DEF Accounts
  <2> HIDE DEF run, next
  <2> QED
    BY <1>3, <2>2, <2>3 DEF GoneThrough
<1>5. ends <=> (run.at = Len(run.event) \/ (transport.stops /\ ~acknowledged))
  BY DEF Events!EndsAt
<1>6. transport.stops => run.refused = {} /\ \A i \in 1..run.at - 1 : run.event[i] \in run.accepted
  BY <1>2 DEF Accounts, GoneThrough, Run
<1> HIDE DEF run, m, acknowledged, refused, ends, next
<1>7. Accounts(transport, next)
  <2>1. next.accepted \union next.refused = GoneThrough(next) /\ next.accepted \cap next.refused = {}
    BY <1>2, <1>3, <1>4 DEF Accounts, refused
  <2>2. next.at <= Len(next.event) + 1 /\ (next.phase = "handling" => next.at <= Len(next.event))
    BY <1>2, <1>3, <1>5 DEF Run
  <2>3. transport.stops => \A i \in 1..next.at - 2 : next.event[i] \in next.accepted
    BY <1>2, <1>3, <1>6 DEF Run
  <2>4. next.phase = "handling" /\ transport.stops => next.refused = {}
    BY <1>3, <1>5, <1>6 DEF refused
  <2>5. next.phase = "answered" =>
          /\ next.answer = Events!Answer(transport, next.event, next.refused)
          /\ next.at = Len(next.event) + 1 \/ (transport.stops /\ next.refused # {})
    BY <1>3, <1>5, Zenon DEF refused
  <2>6. \A i, j \in 1..Len(next.event) : i < j => next.event[i] # next.event[j]
    BY <1>2, <1>3 DEF Accounts
  <2> QED
    BY <1>3, <2>1, <2>2, <2>3, <2>4, <2>5, <2>6 DEF Accounts
<1>8. Accounts(transport, env'[e])
  BY <1>2, <1>7 DEF Accounts, next
<1>9. \A other \in Env \ {e} : Accounts(transport, env'[other])
  <2>1. \A other \in Env \ {e} : env'[other] = env[other]
    BY <1>1 DEF EventInv
  <2> QED
    BY <2>1 DEF EventInv
<1>10. faults' \in 0..MaxFaults
  BY <1>1, EventsAssumption DEF EventInv
<1>11. DOMAIN env' = Env
  BY <1>1 DEF EventInv
<1> QED
  BY <1>2, <1>8, <1>9, <1>10, <1>11 DEF EventInv, EventStepOK

LEMMA PanicKept == ASSUME EventInv, NEW e \in Env, Events!Panic(e) PROVE EventInv' /\ EventStepOK
<1>1. /\ env[e].phase = "handling" /\ faults' = faults + 1 /\ faults < MaxFaults
      /\ env' = [env EXCEPT ![e] = [@ EXCEPT !.phase = "answered", !.answer = "error"]]
      /\ UNCHANGED <<transport, delivery, held>>
  BY Zenon DEF Events!Panic, Events!Recovered
<1>2. Accounts(transport, env'[e])
  <2> DEFINE run == env[e]
             next == env'[e]
  <2>1. run \in Run /\ Accounts(transport, run) /\ next = [run EXCEPT !.phase = "answered", !.answer = "error"]
    BY <1>1 DEF EventInv, Accounts
  <2> HIDE DEF run, next
  <2>2. /\ next \in Run /\ next.event = run.event /\ next.at = run.at /\ next.refused = run.refused
        /\ next.accepted = run.accepted /\ next.phase = "answered" /\ next.answer = "error"
    BY <2>1, Zenon DEF Run
  <2> QED
    BY <2>1, <2>2 DEF Accounts, GoneThrough, next
<1>3. \A other \in Env \ {e} : Accounts(transport, env'[other])
  BY <1>1 DEF EventInv, Accounts, GoneThrough
<1> QED
  BY <1>1, <1>2, <1>3, EventsAssumption DEF EventInv, EventStepOK

\* What an answer lets go of is what the invocation accepted.
LEMMA ReleasedIsAccepted ==
  ASSUME EventInv, NEW e \in Env, env[e].phase = "answered"
  PROVE  Events!Released(e) \subseteq env[e].accepted
<1> DEFINE run == env[e]
<1> SUFFICES ASSUME NEW m \in Events!Released(e) PROVE m \in run.accepted
  OBVIOUS
<1>1. Events!Taken(run.answer) /\ m \notin run.refused /\ (\E i \in DOMAIN run.event : m = run.event[i])
  BY DEF Events!Released, Events!Range
<1>2. Accounts(transport, run) /\ run.answer = Events!Answer(transport, run.event, run.refused)
  BY <1>1, Zenon DEF EventInv, Accounts, Events!Taken
<1>3. run.at = Len(run.event) + 1
  BY <1>1, <1>2, TransportsAnswer DEF Accounts, Events!Answer, Events!Taken, EventInv, AnswersFit
<1>4. m \in GoneThrough(run)
  BY <1>1, <1>2, <1>3 DEF GoneThrough, Accounts, Run
<1> QED
  BY <1>1, <1>2, <1>4 DEF Accounts

\* The environment is done with its event, whatever becomes of the answer.
LEMMA RestKept ==
  ASSUME EventInv, NEW e \in Env, env' = [env EXCEPT ![e] = Events!Resting], UNCHANGED <<transport, delivery>>,
         faults' \in 0..MaxFaults, held' \subseteq held,
         \A m \in held : m \notin held' => env[e].phase = "answered" /\ m \in Events!Released(e)
  PROVE  EventInv' /\ EventStepOK
<1>1. Accounts(transport, env'[e]) /\ \A other \in Env \ {e} : Accounts(transport, env'[other])
  <2>1. env'[e] = Events!Resting /\ \A other \in Env \ {e} : env'[other] = env[other]
    BY DEF EventInv
  <2> QED
    BY <2>1, RestingAccounts DEF EventInv
<1> QED
  BY <1>1, ReleasedIsAccepted DEF EventInv, EventStepOK

LEMMA EventsInductive == EventInv /\ [Events!Next]_eventVars => EventInv' /\ [EventStepOK]_eventVars
<1> SUFFICES ASSUME EventInv, [Events!Next]_eventVars PROVE EventInv' /\ [EventStepOK]_eventVars
  OBVIOUS
<1>1. CASE UNCHANGED eventVars
  BY <1>1 DEF EventInv, eventVars, Accounts, GoneThrough
<1>2. ASSUME NEW e \in Env, Events!Post(e) \/ Events!PostFails(e) \/ Events!Kill(e) PROVE EventInv' /\ EventStepOK
  BY <1>2, RestKept, EventsAssumption DEF Events!Post, Events!PostFails, Events!Kill, EventInv
<1> QED
  BY <1>1, <1>2, DeliverKept, HandleKept, PanicKept DEF Events!Next, Events!Work

LEMMA AccountsAnswer == EventInv => Events!EventsAreAnswered
<1> SUFFICES ASSUME EventInv PROVE Events!EventsAreAnswered
  OBVIOUS
<1>1. Events!TypeOK
  BY DEF EventInv, Accounts, Run, Events!TypeOK, Events!Range
<1>2. Events!NothingOvertakes
  BY DEF EventInv, Accounts, Events!NothingOvertakes
<1>3. ASSUME NEW e \in Env, env[e].phase = "answered", env[e].answer # "error"
      PROVE  /\ transport.lists => env[e].accepted \subseteq Events!Released(e)
             /\ Events!Range(env[e].event) = env[e].accepted => Events!Released(e) = env[e].accepted
  <2> DEFINE run == env[e]
  <2>1. Accounts(transport, run) /\ run.answer = Events!Answer(transport, run.event, run.refused)
    BY <1>3 DEF EventInv, Accounts
  <2>2. run.accepted \union run.refused \subseteq Events!Range(run.event) /\ run.accepted \cap run.refused = {}
    BY <2>1 DEF Accounts, GoneThrough, Run, Events!Range
  <2>3. transport.lists \/ run.refused = {} => Events!Taken(run.answer)
    BY <2>1, TransportsAnswer DEF EventInv, Events!Answer, Events!Taken, AnswersFit
  <2>4. Events!Range(run.event) = run.accepted => run.refused = {}
    BY <2>2
  <2> QED
    BY <2>2, <2>3, <2>4 DEF Events!Released
<1> QED
  BY <1>1, <1>2, <1>3 DEF Events!EventsAreAnswered, Events!NothingNeedless

-----------------------------------------------------------------------------
(* A response published as events: what was tried is what is due so far. *)

Outcomes == Response \union {Responses!Error, Responses!NoResult, Responses!UnexpectedError}
TriedEvent ==
  [position : Nat \ {0}, reply : {"sent", "unanswered", "refused", "lost"}]

ResponseTypes ==
  /\ mode \in {"FailMessage", "LogAndContinue"} /\ publisher \in {"sender", "fanout"}
  /\ chain \in Seq(Responses!Mapping) /\ handled \in Responses!SourceTopic
  /\ step \in {"delivered", "publishing", "answered", "acknowledged"} /\ position \in Nat \ {0}
  /\ response \in Outcomes /\ outcome \in Outcomes /\ published \in Seq(TriedEvent)

DueUpTo(n) == {i \in Responses!Due : i <= n}

\* While it is publishing, the middleware is past what was due before position.
PublishingSoFar ==
  /\ outcome = response /\ response \notin {Responses!Error, Responses!NoResult}
  /\ position <= Len(chain) + 1 /\ Responses!Tried = DueUpTo(position - 1)
  /\ mode = "FailMessage" => Responses!Failures = {}

\* It ends past all that was due, or at the first that failed.
EndedRightly ==
  \/ /\ outcome = response /\ Responses!Tried = Responses!Due
     /\ mode = "FailMessage" => Responses!Failures = {}
  \/ /\ step = "answered" /\ mode = "FailMessage" /\ outcome = Responses!UnexpectedError
     /\ Responses!Tried \subseteq Responses!Due /\ Responses!Failures = {Len(published)}

ResponseInv ==
  /\ ResponseTypes
  /\ \A i, j \in 1..Len(published) : i < j => published[i].position < published[j].position
  /\ step = "delivered" => published = <<>>
  /\ step # "delivered" => told = Cardinality(Responses!Failures)
  /\ step = "publishing" => PublishingSoFar
  /\ step \in {"answered", "acknowledged"} => EndedRightly

LEMMA ResponsesCount == \A S : Responses!Cardinality(S) = Cardinality(S)
BY DEF Responses!Cardinality, Cardinality

LEMMA OutcomesAreResults ==
  /\ \A given \in Outcomes : given.successful \in BOOLEAN
  /\ ~Responses!UnexpectedError.successful
  /\ \A given \in {Responses!Error, Responses!NoResult} : given.payload = Responses!NoPayload
<1>1. ~Responses!UnexpectedError.successful /\ Responses!UnexpectedError.successful \in BOOLEAN
  BY DEF Responses!UnexpectedError
<1>2. Responses!Error.successful \in BOOLEAN /\ Responses!Error.payload = Responses!NoPayload
  BY DEF Responses!Error
<1>3. Responses!NoResult.successful \in BOOLEAN /\ Responses!NoResult.payload = Responses!NoPayload
  BY DEF Responses!NoResult
<1>4. \A given \in Response : given.successful \in BOOLEAN
  BY ResponsesAssumption DEF Responses!Result
<1> QED
  BY <1>1, <1>2, <1>3, <1>4 DEF Outcomes

LEMMA ResponsesStart == Responses!Init => ResponseInv
<1> SUFFICES ASSUME Responses!Init PROVE ResponseInv
  OBVIOUS
<1>1. chain \in Seq(Responses!Mapping) /\ handled \in Responses!SourceTopic
  BY ResponsesAssumption DEF Responses!Init
<1>2. publisher \in {"sender", "fanout"}
  BY DEF Responses!Init, Responses!Replies
<1> QED
  BY <1>1, <1>2 DEF Responses!Init, ResponseInv, ResponseTypes, Outcomes

\* A mapping resolves to an event exactly where it applies.
LEMMA ResolvesWhatApplies ==
  ASSUME handled \in Responses!SourceTopic, NEW mapping \in Responses!Mapping, NEW given, given.successful \in BOOLEAN
  PROVE  Responses!Resolve(mapping, handled, given) # Responses!NoEvent <=> Responses!Applies(mapping, given)
<1>1. /\ DOMAIN Responses!Folded = {"create", "Create", "update", "show"}
      /\ Responses!Folded["create"] = "create" /\ Responses!Folded["Create"] = "create"
      /\ Responses!Folded["update"] = "update" /\ Responses!Folded["show"] = "show"
      /\ DOMAIN Responses!VerbStatus = {"create", "update"}
      /\ Responses!VerbStatus["create"] = "created" /\ Responses!VerbStatus["update"] = "updated"
  BY DEF Responses!Folded, Responses!VerbStatus
<1>2. handled[2] \in DOMAIN Responses!Folded
  BY DEF Responses!SourceTopic
<1>3. \A a, b : <<a, b>> # Responses!NoEvent
  BY DEF Responses!NoEvent
<1>4. Responses!CrudFires(handled, given) <=>
        <<Responses!Folded[handled[2]], given.status>> \in {<<"create", "created">>, <<"update", "updated">>}
  BY <1>1, <1>2 DEF Responses!CrudFires
<1>5. mapping.kind = "crud" \/ (mapping.kind = "map" /\ \E a, b : mapping.event = <<a, b>>)
  BY DEF Responses!Mapping
<1>6. Responses!MapFires(mapping, given) <=> ((mapping.when = "failures") = ~given.successful)
  BY DEF Responses!MapFires
<1>7. Responses!SameTopic(handled, mapping.from) <=>
        mapping.from[1] = handled[1] /\ Responses!Folded[mapping.from[2]] = Responses!Folded[handled[2]]
  BY DEF Responses!SameTopic
<1>8. Responses!Fires(mapping, handled, given) /\ given.payload # Responses!NoPayload <=> Responses!Applies(mapping, given)
  BY <1>4, <1>5, <1>6, <1>7 DEF Responses!Fires, Responses!Applies
<1>9. Responses!Resolve(mapping, handled, given) # Responses!NoEvent <=>
        Responses!Fires(mapping, handled, given) /\ given.payload # Responses!NoPayload
  <2>1. mapping.kind # "crud" => mapping.event # Responses!NoEvent
    BY <1>3, <1>5
  <2> QED
    BY <1>3, <2>1 DEF Responses!Resolve
<1> QED
  BY <1>8, <1>9

LEMMA FailuresAreCounted ==
  ASSUME published \in Seq(TriedEvent)
  PROVE  Responses!Failures \subseteq 1..Len(published) /\ IsFiniteSet(Responses!Failures)
<1>1. Len(published) \in Nat /\ DOMAIN published = 1..Len(published)
  OBVIOUS
<1>2. Responses!Failures \subseteq 1..Len(published)
  BY <1>1 DEF Responses!Failures
<1>3. IsFiniteSet(1..Len(published))
  BY <1>1, FS_Interval
<1> QED
  BY <1>2, <1>3, FS_Subset, Zenon

LEMMA AnswerKept ==
  ASSUME ResponseInv, NEW given \in Response \union {Responses!Error, Responses!NoResult}, Responses!Handle(given)
  PROVE  ResponseInv'
<1>1. /\ response' = given /\ outcome' = given /\ position' = 1 /\ told' = 0 /\ published = <<>> /\ step = "delivered"
      /\ step' = IF given \in {Responses!Error, Responses!NoResult} THEN "answered" ELSE "publishing"
      /\ UNCHANGED <<mode, publisher, chain, handled, published>>
  BY DEF Responses!Handle, ResponseInv
<1>2. ResponseTypes'
  BY <1>1 DEF ResponseInv, ResponseTypes, Outcomes
<1>3. Responses!Tried' = {} /\ Responses!Failures' = {}
  BY <1>1 DEF Responses!Tried, Responses!Failures
<1>4. told' = Cardinality(Responses!Failures')
  BY <1>1, <1>3, FS_EmptySet
<1>5. step' = "publishing" => PublishingSoFar'
  <2>1. Len(chain) \in Nat /\ DueUpTo(0)' = {}
    BY <1>1 DEF ResponseInv, ResponseTypes, DueUpTo, Responses!Due
  <2> QED
    BY <1>1, <1>3, <2>1 DEF PublishingSoFar
<1>6. step' = "answered" => EndedRightly'
  <2>1. step' = "answered" => Responses!Due' = {}
    BY <1>1, OutcomesAreResults DEF Responses!Due, Responses!Applies
  <2> QED
    BY <1>1, <1>3, <2>1 DEF EndedRightly
<1> QED
  BY <1>1, <1>2, <1>4, <1>5, <1>6 DEF ResponseInv

\* What is due up to the mapping at hand.
LEMMA DueSteps ==
  ASSUME ResponseTypes, PublishingSoFar, position <= Len(chain)
  PROVE  /\ DueUpTo(position) = DueUpTo(position - 1) \union (IF position \in Responses!Due THEN {position} ELSE {})
         /\ position \in Responses!Due <=> Responses!Resolve(chain[position], handled, outcome) # Responses!NoEvent
<1>1. position \in 1..Len(chain) /\ chain[position] \in Responses!Mapping /\ outcome.successful \in BOOLEAN /\ outcome = response
  BY OutcomesAreResults DEF ResponseTypes, PublishingSoFar
<1>2. Responses!Due \subseteq Nat /\ position \in Nat
  BY <1>1 DEF Responses!Due
<1>3. position \in Responses!Due <=> Responses!Applies(chain[position], outcome)
  BY <1>1 DEF Responses!Due
<1>4. position \in Responses!Due <=> Responses!Resolve(chain[position], handled, outcome) # Responses!NoEvent
  BY <1>1, <1>3, ResolvesWhatApplies DEF ResponseTypes
<1>5. \A i \in Nat : i <= position <=> i <= position - 1 \/ i = position
  BY <1>2
<1> QED
  BY <1>2, <1>4, <1>5, Zenon DEF DueUpTo

LEMMA SkipKept == ASSUME ResponseInv, Responses!Skip PROVE ResponseInv'
<1>1. /\ step = "publishing" /\ position <= Len(chain) /\ position' = position + 1
      /\ Responses!Resolve(chain[position], handled, outcome) = Responses!NoEvent
      /\ UNCHANGED <<mode, publisher, chain, handled, step, response, outcome, published, told>>
  BY DEF Responses!Skip
<1>2. ResponseTypes /\ PublishingSoFar
  BY <1>1 DEF ResponseInv
<1>3. DueUpTo(position) = DueUpTo(position - 1)
  BY <1>1, <1>2, DueSteps, Zenon
<1>4. /\ Responses!Tried' = Responses!Tried /\ Responses!Failures' = Responses!Failures /\ Responses!Due' = Responses!Due
      /\ (position + 1) - 1 = position /\ position + 1 <= Len(chain) + 1 /\ position + 1 \in Nat \ {0}
  BY <1>1, <1>2 DEF Responses!Tried, Responses!Failures, Responses!Due, Responses!Applies, ResponseTypes
<1>5. PublishingSoFar'
  BY <1>1, <1>2, <1>3, <1>4 DEF PublishingSoFar, DueUpTo
<1>6. ResponseTypes'
  BY <1>1, <1>2, <1>4 DEF ResponseTypes
<1> QED
  BY <1>1, <1>4, <1>5, <1>6 DEF ResponseInv

LEMMA PublishKept ==
  ASSUME ResponseInv, NEW reply \in Responses!Replies[publisher], Responses!Publish(reply)
  PROVE  ResponseInv'
<1> DEFINE record == [position |-> position, reply |-> reply]
<1>1. /\ step = "publishing" /\ position <= Len(chain)
      /\ Responses!Resolve(chain[position], handled, outcome) # Responses!NoEvent
      /\ published' = Append(published, record)
      /\ UNCHANGED <<mode, publisher, chain, handled, response>>
      /\ \/ Responses!Accepts(reply) /\ position' = position + 1 /\ UNCHANGED <<outcome, step, told>>
         \/ ~Responses!Accepts(reply) /\ told' = told + 1 /\ Responses!OnFailure
  BY DEF Responses!Publish
<1>2. ResponseTypes /\ PublishingSoFar /\ told = Cardinality(Responses!Failures)
  BY <1>1 DEF ResponseInv
<1>3. DueUpTo(position) = DueUpTo(position - 1) \union {position} /\ position \in Responses!Due
  BY <1>1, <1>2, DueSteps
<1>4. record \in TriedEvent
  <2>1. reply \in {"sent", "unanswered", "refused", "lost"}
    BY <1>2 DEF Responses!Replies, ResponseTypes
  <2> QED
    BY <1>2, <2>1 DEF TriedEvent, ResponseTypes
<1> HIDE DEF record
<1> DEFINE n == Len(published)
<1>5. /\ published' \in Seq(TriedEvent) /\ Len(published') = n + 1 /\ n \in Nat
      /\ published'[n + 1] = record /\ \A i \in 1..n : published'[i] = published[i]
  BY <1>1, <1>2, <1>4 DEF ResponseTypes
<1>6. record.position = position /\ record.reply = reply
  BY DEF record
<1> HIDE DEF n
<1>7. Responses!Tried = {published[i].position : i \in 1..n} /\ Responses!Failures = {i \in 1..n : ~Responses!Accepts(published[i].reply)}
  BY <1>2 DEF ResponseTypes, Responses!Tried, Responses!Failures, n
<1>8. /\ Responses!Tried' = {published'[i].position : i \in 1..n + 1}
      /\ Responses!Failures' = {i \in 1..n + 1 : ~Responses!Accepts(published'[i].reply)}
  BY <1>5 DEF Responses!Tried, Responses!Failures, Responses!Accepts
<1>9. 1..n + 1 = (1..n) \union {n + 1} /\ n + 1 \notin 1..n
  BY <1>5
<1>10. Responses!Tried' = DueUpTo(position)
  BY <1>2, <1>3, <1>5, <1>6, <1>7, <1>8, <1>9 DEF PublishingSoFar
<1>11. Responses!Failures' = Responses!Failures \union (IF Responses!Accepts(reply) THEN {} ELSE {n + 1})
  BY <1>5, <1>6, <1>7, <1>8, <1>9
<1>12. told' = Cardinality(Responses!Failures')
  <2>1. IsFiniteSet(Responses!Failures) /\ n + 1 \notin Responses!Failures
    BY <1>2, <1>7, <1>9, FailuresAreCounted DEF ResponseTypes
  <2> QED
    BY <1>1, <1>2, <1>11, <2>1, FS_AddElement, Zenon
<1>13. \A i, j \in 1..Len(published') : i < j => published'[i].position < published'[j].position
  <2>1. \A i \in 1..n : published[i].position < position
    <3>1. \A i \in 1..n : published[i].position \in DueUpTo(position - 1)
      BY <1>2, <1>7 DEF PublishingSoFar
    <3> QED
      BY <1>2, <3>1 DEF DueUpTo, Responses!Due, ResponseTypes
  <2>2. \A i, j \in 1..n : i < j => published[i].position < published[j].position
    BY DEF ResponseInv, n
  <2> QED
    BY <1>5, <1>6, <1>9, <2>1, <2>2
<1>14. Responses!Due' = Responses!Due /\ (position + 1) - 1 = position /\ position + 1 <= Len(chain) + 1 /\ position + 1 \in Nat \ {0}
  BY <1>1, <1>2 DEF Responses!Due, Responses!Applies, ResponseTypes
<1>15. CASE position' = position + 1 /\ UNCHANGED <<outcome, step>> /\ (mode = "FailMessage" => Responses!Accepts(reply))
  <2>1. PublishingSoFar'
    BY <1>1, <1>2, <1>10, <1>11, <1>14, <1>15 DEF PublishingSoFar, DueUpTo
  <2>2. ResponseTypes'
    BY <1>1, <1>2, <1>5, <1>14, <1>15 DEF ResponseTypes
  <2> QED
    BY <1>1, <1>12, <1>13, <1>15, <2>1, <2>2, Zenon DEF ResponseInv
<1>16. CASE /\ ~Responses!Accepts(reply) /\ mode = "FailMessage"
            /\ outcome' = Responses!UnexpectedError /\ step' = "answered" /\ UNCHANGED position
  <2>1. EndedRightly'
    BY <1>1, <1>2, <1>5, <1>10, <1>11, <1>14, <1>16 DEF EndedRightly, PublishingSoFar, DueUpTo
  <2>2. ResponseTypes'
    BY <1>1, <1>2, <1>5, <1>16 DEF ResponseTypes, Outcomes
  <2> QED
    BY <1>12, <1>13, <1>16, <2>1, <2>2 DEF ResponseInv
<1> QED
  BY <1>1, <1>15, <1>16 DEF Responses!OnFailure

LEMMA SettleKept == ASSUME ResponseInv, Responses!Return \/ Responses!Acknowledge \/ Responses!Redeliver PROVE ResponseInv'
<1>1. CASE Responses!Return
  <2>1. /\ step = "publishing" /\ position > Len(chain) /\ step' = "answered"
        /\ UNCHANGED <<mode, publisher, chain, handled, response, outcome, position, published, told>>
    BY <1>1 DEF Responses!Return
  <2>2. /\ Responses!Tried = Responses!Due /\ outcome = response
        /\ mode = "FailMessage" => Responses!Failures = {}
    BY <2>1 DEF ResponseInv, ResponseTypes, PublishingSoFar, DueUpTo, Responses!Due
  <2>3. /\ Responses!Tried' = Responses!Tried /\ Responses!Failures' = Responses!Failures /\ Responses!Due' = Responses!Due
    BY <2>1 DEF Responses!Tried, Responses!Failures, Responses!Due, Responses!Applies
  <2>4. EndedRightly'
    BY <2>1, <2>2, <2>3 DEF EndedRightly
  <2> QED
    BY <2>1, <2>3, <2>4 DEF ResponseInv, ResponseTypes
<1>2. CASE Responses!Acknowledge
  <2>1. /\ step = "answered" /\ outcome.successful /\ step' = "acknowledged"
        /\ UNCHANGED <<mode, publisher, chain, handled, response, outcome, position, published, told>>
    BY <1>2 DEF Responses!Acknowledge
  <2>2. EndedRightly /\ outcome # Responses!UnexpectedError
    BY <2>1, OutcomesAreResults DEF ResponseInv
  <2>3. /\ Responses!Tried' = Responses!Tried /\ Responses!Failures' = Responses!Failures /\ Responses!Due' = Responses!Due
    BY <2>1 DEF Responses!Tried, Responses!Failures, Responses!Due, Responses!Applies
  <2>4. EndedRightly'
    BY <2>1, <2>2, <2>3 DEF EndedRightly
  <2> QED
    BY <2>1, <2>3, <2>4 DEF ResponseInv, ResponseTypes
<1>3. CASE Responses!Redeliver
  BY <1>3 DEF Responses!Redeliver, ResponseInv, ResponseTypes
<1> QED
  BY <1>1, <1>2, <1>3

LEMMA ResponsesInductive == ResponseInv /\ [Responses!Next]_responseVars => ResponseInv'
<1> SUFFICES ASSUME ResponseInv, [Responses!Next]_responseVars PROVE ResponseInv'
  OBVIOUS
<1>1. CASE UNCHANGED responseVars
  <2>1. UNCHANGED <<mode, publisher, chain, handled, step, response, outcome, position, published, told>>
    BY <1>1 DEF responseVars
  <2>2. /\ Responses!Tried' = Responses!Tried /\ Responses!Failures' = Responses!Failures /\ Responses!Due' = Responses!Due
        /\ \A n : DueUpTo(n)' = DueUpTo(n)
    BY <2>1 DEF DueUpTo, Responses!Tried, Responses!Failures, Responses!Due, Responses!Applies
  <2> QED
    BY <2>1, <2>2 DEF ResponseInv, ResponseTypes, PublishingSoFar, EndedRightly
<1> QED
  BY <1>1, AnswerKept, SkipKept, PublishKept, SettleKept DEF Responses!Next

LEMMA ResponsesFollow == ResponseInv => Responses!EventsFollowTheResponse
<1> SUFFICES ASSUME ResponseInv, step # "delivered" PROVE Responses!EventsFollowTheResponse
  BY DEF Responses!EventsFollowTheResponse
<1>1. DOMAIN published = 1..Len(published)
  BY DEF ResponseInv, ResponseTypes
<1>2. Responses!Tried \subseteq Responses!Due
  BY DEF ResponseInv, ResponseTypes, PublishingSoFar, EndedRightly, DueUpTo
<1>3. Responses!Ended <=> step \in {"answered", "acknowledged"}
  BY DEF Responses!Ended
<1> QED
  BY <1>1, <1>2, <1>3, ResponsesCount DEF ResponseInv, ResponseTypes, EndedRightly, Responses!EventsFollowTheResponse

\* For any number of environments and messages, any transport and any settlement: the platform
\* lets go of a message only on the word of an invocation that accepted it, in order where order
\* matters, and of all that an answer can free (sqs.go:79-100, s3.go:117-134, runtime.go:77-109);
\* and for any chain of mappings, any topic and any results, a message is acknowledged only past
\* all the events its response calls for (responseevents.go:115-144).
THEOREM EventsStayAnswered == MCSpec => EventsAreAnswered
<1>1. MCInit => Events!Init /\ Responses!Init
  BY DEF MCInit
<1>2. [MCNext]_all => [Events!Next]_eventVars /\ [Responses!Next]_responseVars
  BY DEF MCNext, all
<1>3. EventStepOK => Events!LetGoOfKnowingly
  BY DEF EventStepOK, Events!LetGoOfKnowingly
<1>4. EventInv' => Events!EventsAreAnswered'
  BY AccountsAnswer, PTL
<1>5. ResponseInv' => Responses!EventsFollowTheResponse'
  BY ResponsesFollow, PTL
<1> QED
  BY <1>1, <1>2, <1>3, <1>4, <1>5, EventsStart, EventsInductive, ResponsesStart, ResponsesInductive, PTL
     DEF MCSpec, EventsAreAnswered

-----------------------------------------------------------------------------
(* Numbers and finite sets: induction, as statements about sets. *)

LEMMA LeastNumber ==
  ASSUME NEW T \in SUBSET Nat, T # {}
  PROVE  \E x \in T : \A y \in T : x <= y
<1>1. IsWellFoundedOn(OpToRel(<, Nat), Nat)
  BY NatLessThanWellFounded, Zenon
<1>2. PICK x \in T : \A y \in T : ~(<<y, x>> \in OpToRel(<, Nat))
  BY <1>1, WFMin, Zenon
<1>3. \A y \in T : ~(y < x)
  BY <1>2, Zenon DEF OpToRel
<1> QED
  BY <1>3

LEMMA NumberInduction ==
  ASSUME NEW T \in SUBSET Nat, 0 \in T, \A n \in T : n + 1 \in T
  PROVE  T = Nat
<1> SUFFICES ASSUME Nat \ T # {} PROVE FALSE
  BY Zenon
<1>1. PICK x \in Nat \ T : \A y \in Nat \ T : x <= y
  BY LeastNumber, Zenon
<1>2. x # 0 /\ x - 1 \in Nat /\ x - 1 \notin Nat \ T
  BY <1>1
<1> QED
  BY <1>2

LEMMA FiniteSetInduction ==
  ASSUME NEW S, NEW T \in SUBSET (SUBSET S), IsFiniteSet(S), {} \in T,
         \A s \in T, x \in S : s \union {x} \in T
  PROVE  S \in T
<1> SUFFICES ASSUME S \notin T PROVE FALSE
  OBVIOUS
<1> DEFINE Bad == {s \in SUBSET S : s \notin T}
           Sizes == {Cardinality(s) : s \in Bad}
<1>1. \A s \in SUBSET S : IsFiniteSet(s) /\ Cardinality(s) \in Nat
  BY FS_Subset, FS_CardinalityType
<1>2. Sizes \in SUBSET Nat /\ Sizes # {}
  BY <1>1
<1> HIDE DEF Sizes
<1>3. PICK c \in Sizes : \A d \in Sizes : c <= d
  BY <1>2, LeastNumber
<1>4. PICK s \in Bad : c = Cardinality(s)
  BY <1>3 DEF Sizes
<1>5. PICK x \in s : TRUE
  BY <1>4
<1>6. Cardinality(s \ {x}) = Cardinality(s) - 1 /\ IsFiniteSet(s)
  BY <1>1, <1>4, <1>5, FS_RemoveElement
<1>7. s \ {x} \in T
  <2> SUFFICES ASSUME s \ {x} \in Bad PROVE FALSE
    BY <1>4
  <2>1. Cardinality(s \ {x}) \in Sizes
    BY DEF Sizes
  <2>2. c <= Cardinality(s) - 1 /\ c \in Nat
    BY <1>2, <1>3, <1>6, <2>1, Zenon
  <2> QED
    BY <1>4, <2>2
<1>8. (s \ {x}) \union {x} = s
  BY <1>5
<1> QED
  BY <1>4, <1>5, <1>7, <1>8

\* Of finitely many one has the highest value.
LEMMA HighestExists ==
  ASSUME NEW S, IsFiniteSet(S), S # {}, NEW v, \A s \in S : v[s] \in Nat
  PROVE  \E q \in S : \A r \in S : v[q] >= v[r]
<1> DEFINE T == {s \in SUBSET S : s # {} => \E q \in s : \A r \in s : v[q] >= v[r]}
<1>1. ASSUME NEW s \in T, NEW x \in S PROVE s \union {x} \in T
  <2>1. CASE s = {}
    BY <2>1
  <2>2. CASE s # {}
    <3>1. PICK q \in s : \A r \in s : v[q] >= v[r]
      BY <2>2
    <3>2. v[x] \in Nat /\ v[q] \in Nat /\ \A r \in s : v[r] \in Nat
      OBVIOUS
    <3>3. CASE v[x] >= v[q]
      <4>1. \A r \in s \union {x} : v[x] >= v[r]
        BY <3>1, <3>2, <3>3
      <4> QED
        BY <4>1
    <3>4. CASE ~(v[x] >= v[q])
      <4>1. \A r \in s \union {x} : v[q] >= v[r]
        BY <3>1, <3>2, <3>4
      <4> QED
        BY <4>1
    <3> QED
      BY <3>3, <3>4
  <2> QED
    BY <2>1, <2>2
<1>2. S \in T
  <2>1. T \in SUBSET (SUBSET S) /\ {} \in T
    OBVIOUS
  <2> HIDE DEF T
  <2> QED
    BY <1>1, <2>1, FiniteSetInduction, Zenon
<1> QED
  BY <1>2

\* And so have any number of them, over the others.
LEMMA HighestSeveral ==
  ASSUME NEW S, IsFiniteSet(S), NEW v, \A s \in S : v[s] \in Nat, NEW m \in Nat, m <= Cardinality(S)
  PROVE  \E k \in SUBSET S : Cardinality(k) = m /\ \A p \in k, q \in S \ k : v[p] >= v[q]
<1> DEFINE Tops(n) == {k \in SUBSET S : Cardinality(k) = n /\ \A p \in k, q \in S \ k : v[p] >= v[q]}
           T == {n \in Nat : n <= Cardinality(S) => Tops(n) # {}}
<1>1. 0 \in T
  <2>1. {} \in Tops(0)
    BY FS_EmptySet
  <2> QED
    BY <2>1
<1>2. ASSUME NEW n \in T, n + 1 <= Cardinality(S) PROVE Tops(n + 1) # {}
  <2>1. Cardinality(S) \in Nat /\ n \in Nat
    BY FS_CardinalityType
  <2>2. PICK k \in SUBSET S : Cardinality(k) = n /\ \A p \in k, q \in S \ k : v[p] >= v[q]
    BY <1>2, <2>1
  <2>3. IsFiniteSet(k) /\ IsFiniteSet(S \ k) /\ S \ k # {}
    BY <1>2, <2>1, <2>2, FS_Subset, FS_Difference
  <2>4. PICK q \in S \ k : \A r \in S \ k : v[q] >= v[r]
    BY <2>3, HighestExists
  <2>5. Cardinality(k \union {q}) = n + 1
    BY <2>2, <2>3, <2>4, FS_AddElement, Zenon
  <2>6. \A p \in k \union {q}, r \in S \ (k \union {q}) : v[p] >= v[r]
    BY <2>2, <2>4
  <2> QED
    BY <2>2, <2>4, <2>5, <2>6
<1>3. T = Nat
  <2>1. \A n \in T : n + 1 \in T
    BY <1>2
  <2> HIDE DEF T
  <2>2. T \in SUBSET Nat
    BY DEF T
  <2> QED
    BY <1>1, <2>1, <2>2, NumberInduction
<1>4. m \in T
  BY <1>3
<1> QED
  BY <1>4

\* One to one on S, f's values are as many as the members of S.
LEMMA OneToOne ==
  ASSUME NEW S, NEW T, IsFiniteSet(S), NEW f \in [S -> T], \A x, y \in S : f[x] = f[y] => x = y,
         \A t \in T : \E x \in S : f[x] = t
  PROVE  IsFiniteSet(T) /\ Cardinality(T) = Cardinality(S)
<1>1. f \in Bijection(S, T)
  BY DEF Bijection, Injection, Surjection, IsInjective
<1> QED
  BY <1>1, FS_Bijection DEF ExistsBijection

-----------------------------------------------------------------------------
(* The issue feed: a window counts its occurrences, an issue what has arrived. *)

Observation == [failure : Failure, pair : Pair]
Held == {Issues!Idle} \union [number : Nat \ {0}, failure : Failure, pair : Pair]
Merged ==
  [classification : {Issues!ClassifyIssue(failure) : failure \in Failure}, failure : Failure, count : Nat,
   firstSeen : Nat, lastSeen : Nat, exemplars : Seq(Nat), errors : [Pair -> Nat]]
Windowed ==
  [classification : {Issues!ClassifyIssue(failure) : failure \in Failure}, failure : Failure, count : Nat,
   firstSeen : Nat, lastSeen : Nat, exemplars : Seq(Nat), errors : [Pair -> Nat], numbers : SUBSET Nat]

IssueTypes ==
  /\ failures \in Seq(Observation) /\ hand \in [Caller -> Held]
  /\ delivered \in [1..MaxOccurrences -> Nat] /\ Len(failures) <= MaxOccurrences

\* What a caller has in hand is its own; whatever was observed since overlaps with it.
HandsHold ==
  \A c \in Caller : hand[c] # Issues!Idle =>
    LET n == hand[c].number IN
    /\ n \in 1..Len(failures) /\ failures[n] = [failure |-> hand[c].failure, pair |-> hand[c].pair]
    /\ n \notin early /\ n \notin Issues!NumbersOf(pending)
    /\ \A m \in 1..Len(failures) : m > n => {m, n} \in overlap
    /\ \A d \in Caller \ {c} : hand[d].number # n

\* The span of an issue leaves only those out that raced another to the lock.
Spans(i, numbers) ==
  /\ {i.firstSeen, i.lastSeen} \union Issues!Range(i.exemplars) \subseteq numbers
  /\ \A n \in numbers : n < i.firstSeen \/ n > i.lastSeen => n \in UNION overlap
  /\ Len(i.exemplars) <= MaxExemplars

OfPair(numbers, p) == {n \in numbers : failures[n].pair = p}

\* An issue of a window counts its occurrences, each once.
Accumulated(f, i) ==
  /\ i \in Windowed /\ i.numbers \subseteq Issues!Occurrences(f) /\ Spans(i, i.numbers)
  /\ i.count = Cardinality(i.numbers)
  /\ \A p \in Pair : i.errors[p] <= Cardinality(OfPair(i.numbers, p))

Window(w) == \A f \in DOMAIN w : Accumulated(f, w[f])

\* An issue of the collector counts what has arrived.
MergedHolds ==
  /\ \A f \in DOMAIN merged :
       /\ merged[f] \in Merged /\ Spans(merged[f], Issues!Arrived(f))
       /\ merged[f].count = Cardinality(Issues!Arrivals(Issues!Occurrences(f)))
       /\ \A p \in Pair : merged[f].errors[p] <= Cardinality(Issues!Arrivals(OfPair(Issues!Occurrences(f), p)))
       /\ Cardinality(Issues!Known(merged[f].errors)) <= MaxIssueErrors
  /\ \A n \in DOMAIN delivered : delivered[n] > 0 =>
       n <= Len(failures) /\ Issues!IssueFingerprint(failures[n].failure) \in DOMAIN merged

IssueInv ==
  /\ IssueTypes /\ HandsHold /\ Window(pending) /\ (\A w \in wire : Window(w)) /\ MergedHolds
  /\ early \subseteq 1..Len(failures) /\ Issues!TailIsSent

LEMMA IssuesCount == \A S : Issues!Cardinality(S) = Cardinality(S)
BY DEF Issues!Cardinality, Cardinality

\* Merged error detail is within the bound and claims no more than was there.
LEMMA ErrorsMerge ==
  ASSUME NEW existing \in [Pair -> Nat], NEW delta \in [Pair -> Nat], NEW e, e = Issues!MergeIssueErrors(existing, delta)
  PROVE  /\ e \in [Pair -> Nat] /\ \A p \in Pair : e[p] <= existing[p] + delta[p]
         /\ Cardinality(Issues!Known(e)) <= MaxIssueErrors
<1> DEFINE total == [p \in Pair |-> existing[p] + delta[p]]
           known == Issues!Known(total)
           size == IF Cardinality(known) > MaxIssueErrors THEN MaxIssueErrors ELSE Cardinality(known)
           Fits(k) == Cardinality(k) = size /\ \A p \in k, q \in known \ k : total[p] >= total[q]
           kept == CHOOSE k \in SUBSET known : Fits(k)
<1>1. e = [p \in Pair |-> IF p \in kept THEN total[p] ELSE 0]
  BY IssuesCount, Zenon DEF Issues!MergeIssueErrors
<1>2. total \in [Pair -> Nat] /\ known \subseteq Pair
  BY DEF Issues!Known
<1>3. IsFiniteSet(known) /\ Cardinality(known) \in Nat
  BY <1>2, IssuesAssumption, FS_Subset, FS_CardinalityType
<1>4. size \in Nat /\ size <= Cardinality(known) /\ size <= MaxIssueErrors
  BY <1>3, IssuesAssumption
<1>5. \A p \in known : total[p] \in Nat
  BY <1>2
<1> HIDE DEF total, known, size
<1>6. \E k \in SUBSET known : Fits(k)
  BY <1>3, <1>4, <1>5, HighestSeveral
<1>7. kept \in SUBSET known /\ Fits(kept)
  BY <1>6, Zenon
<1> HIDE DEF kept
<1>8. e \in [Pair -> Nat] /\ \A p \in Pair : e[p] <= total[p]
  BY <1>1, <1>2
<1>9. Issues!Known(e) \subseteq kept
  BY <1>1 DEF Issues!Known
<1>10. Cardinality(Issues!Known(e)) <= MaxIssueErrors
  <2>1. IsFiniteSet(kept) /\ Cardinality(kept) = size
    BY <1>3, <1>7, FS_Subset
  <2>2. Cardinality(Issues!Known(e)) <= Cardinality(kept) /\ Cardinality(Issues!Known(e)) \in Nat
    BY <1>9, <2>1, FS_Subset, FS_CardinalityType
  <2> QED
    BY <1>4, <2>1, <2>2, IssuesAssumption
<1> QED
  BY <1>8, <1>10 DEF total

\* Exemplars are some of those there were.
LEMMA ExemplarsAreOfThese ==
  ASSUME NEW existing \in Seq(Nat), NEW incoming \in Seq(Nat), NEW e, e = Issues!NewestExemplars(existing, incoming)
  PROVE  /\ e \in Seq(Nat) /\ Len(e) <= MaxExemplars
         /\ Issues!Range(e) \subseteq Issues!Range(existing) \union Issues!Range(incoming)
<1> DEFINE combined == existing \o incoming
           excess == IF Len(combined) > MaxExemplars THEN Len(combined) - MaxExemplars ELSE 0
<1>1. /\ combined \in Seq(Nat) /\ Len(combined) = Len(existing) + Len(incoming)
      /\ \A j \in 1..Len(combined) : combined[j] = IF j <= Len(existing) THEN existing[j] ELSE incoming[j - Len(existing)]
  OBVIOUS
<1>2. e = SubSeq(combined, excess + 1, Len(combined))
  BY DEF Issues!NewestExemplars
<1>3. Len(existing) \in Nat /\ Len(incoming) \in Nat /\ MaxExemplars \in Nat
  BY IssuesAssumption
<1>4. Len(combined) \in Nat /\ excess \in Nat /\ excess <= Len(combined) /\ Len(combined) - excess <= MaxExemplars
  BY <1>1, <1>3
<1> HIDE DEF combined, excess
<1>5. /\ e \in Seq(Nat) /\ Len(e) = Len(combined) - excess
      /\ \A j \in 1..Len(e) : e[j] = combined[excess + j]
  <2>1. combined \in Seq(Nat) /\ excess + 1 \in Nat \ {0} /\ excess + 1 <= Len(combined) + 1
    BY <1>1, <1>4
  <2>2. Len(combined) - (excess + 1) + 1 = Len(combined) - excess /\ \A j \in Nat : (excess + 1) + j - 1 = excess + j
    BY <1>4
  <2>3. \A j \in 1..Len(combined) : combined[j] \in Nat
    BY <2>1
  <2>4. e = [j \in 1..(Len(combined) - excess) |-> combined[excess + j]]
    BY <1>2, <1>4, <2>1, SMTT(20)
  <2> QED
    BY <1>4, <2>3, <2>4, SMTT(20)
<1>6. ASSUME NEW j \in 1..Len(e) PROVE e[j] \in Issues!Range(existing) \union Issues!Range(incoming)
  <2>1. PICK k \in 1..Len(combined) : e[j] = combined[k]
    <3>1. excess + j \in 1..Len(combined) /\ e[j] = combined[excess + j]
      BY <1>4, <1>5
    <3> QED
      BY <3>1
  <2>2. k \in Nat \ {0} /\ k <= Len(existing) + Len(incoming) /\ combined[k] = IF k <= Len(existing) THEN existing[k] ELSE incoming[k - Len(existing)]
    BY <1>1, <1>3
  <2>3. CASE k <= Len(existing)
    <3>1. k \in 1..Len(existing) /\ e[j] = existing[k]
      BY <1>3, <2>1, <2>2, <2>3
    <3> QED
      BY <3>1 DEF Issues!Range
  <2>4. CASE ~(k <= Len(existing))
    <3>1. k - Len(existing) \in 1..Len(incoming)
      BY <1>3, <2>2, <2>4
    <3>2. e[j] = incoming[k - Len(existing)]
      BY <2>1, <2>2, <2>4
    <3> QED
      BY <3>1, <3>2 DEF Issues!Range
  <2> QED
    BY <2>3, <2>4
<1>7. Len(e) <= MaxExemplars /\ DOMAIN e = 1..Len(e)
  BY <1>4, <1>5
<1>8. Issues!Range(e) \subseteq Issues!Range(existing) \union Issues!Range(incoming)
  BY <1>6, <1>7, Zenon DEF Issues!Range
<1> QED
  BY <1>5, <1>7, <1>8

\* Each of these numbers as often as d says.
Often(d, numbers) == UNION {{n} \X (1..d[n]) : n \in numbers}

LEMMA OftenGrows ==
  ASSUME NEW d \in [1..MaxOccurrences -> Nat], NEW N, NEW S \in SUBSET (1..MaxOccurrences),
         NEW later, later = [n \in 1..MaxOccurrences |-> IF n \in N THEN d[n] + 1 ELSE d[n]]
  PROVE  /\ IsFiniteSet(Often(d, S)) /\ IsFiniteSet(S \intersect N)
         /\ Cardinality(Often(later, S)) = Cardinality(Often(d, S)) + Cardinality(S \intersect N)
<1>1. IsFiniteSet(S) /\ IsFiniteSet(S \intersect N)
  <2>1. IsFiniteSet(1..MaxOccurrences)
    BY IssuesAssumption, FS_Interval
  <2>2. IsFiniteSet(S)
    BY <2>1, FS_Subset, Zenon
  <2> QED
    BY <2>2, FS_Subset
<1>2. \A n \in S : d[n] \in Nat /\ later[n] = IF n \in N THEN d[n] + 1 ELSE d[n]
  OBVIOUS
<1>3. IsFiniteSet(Often(d, S))
  <2> DEFINE f == [n \in S |-> {n} \X (1..d[n])]
             T == {{n} \X (1..d[n]) : n \in S}
  <2>1. IsFiniteSet(T)
    <3>1. f \in Surjection(S, T)
      BY Zenon DEF Surjection
    <3> QED
      BY <1>1, <3>1, FS_Surjection
  <2>2. ASSUME NEW n \in S PROVE IsFiniteSet({n} \X (1..d[n]))
    <3>1. 1 \in Int /\ d[n] \in Int
      BY <1>2
    <3>2. IsFiniteSet({n}) /\ IsFiniteSet(1..d[n])
      BY <3>1, FS_Singleton, FS_Interval, Zenon
    <3> QED
      BY <3>2, FS_Product
  <2> QED
    BY <2>1, <2>2, FS_UNION, Zenon DEF Often
<1> DEFINE New == {<<n, d[n] + 1>> : n \in S \intersect N}
<1>4. Cardinality(New) = Cardinality(S \intersect N) /\ IsFiniteSet(New)
  <2> DEFINE D == S \intersect N
             f == [n \in D |-> <<n, d[n] + 1>>]
  <2>1. f \in [D -> New] /\ IsFiniteSet(D)
    BY <1>1, Zenon
  <2>2. \A x, y \in D : f[x] = f[y] => x = y
    OBVIOUS
  <2>3. \A t \in New : \E x \in D : f[x] = t
    OBVIOUS
  <2> HIDE DEF f, D, New
  <2>4. Cardinality(New) = Cardinality(D) /\ IsFiniteSet(New)
    BY <2>1, <2>2, <2>3, OneToOne, Zenon
  <2> QED
    BY <2>4 DEF D
<1>5. Often(later, S) = Often(d, S) \union New
  <2>1. \A n \in S : \A k : k \in 1..later[n] <=> k \in 1..d[n] \/ (n \in N /\ k = d[n] + 1)
    BY <1>2
  <2>2. ASSUME NEW q \in Often(later, S) PROVE q \in Often(d, S) \union New
    <3>1. PICK n \in S : \E k \in 1..later[n] : q = <<n, k>>
      BY <2>2 DEF Often
    <3>2. PICK k \in 1..later[n] : q = <<n, k>>
      BY <3>1
    <3> QED
      BY <2>1, <3>2 DEF Often
  <2>3. ASSUME NEW q \in Often(d, S) PROVE q \in Often(later, S)
    <3>1. PICK n \in S : \E k \in 1..d[n] : q = <<n, k>>
      BY <2>3 DEF Often
    <3>2. PICK k \in 1..d[n] : q = <<n, k>>
      BY <3>1
    <3>3. k \in 1..later[n]
      BY <2>1
    <3> QED
      BY <3>2, <3>3 DEF Often
  <2>4. ASSUME NEW q \in New PROVE q \in Often(later, S)
    <3>1. PICK n \in S \intersect N : q = <<n, d[n] + 1>>
      BY <2>4
    <3>2. d[n] + 1 \in 1..later[n]
      BY <2>1
    <3> QED
      BY <3>1, <3>2 DEF Often
  <2> QED
    BY <2>2, <2>3, <2>4
<1>6. Often(d, S) \intersect New = {}
  <2> SUFFICES ASSUME NEW q \in Often(d, S), q \in New PROVE FALSE
    OBVIOUS
  <2>1. PICK n \in S : \E k \in 1..d[n] : q = <<n, k>>
    BY DEF Often
  <2>2. PICK m \in S \intersect N : q = <<m, d[m] + 1>>
    OBVIOUS
  <2> QED
    BY <1>2, <2>1, <2>2
<1> HIDE DEF New
<1>7. Cardinality(Often(d, S)) \in Nat /\ Cardinality(New) \in Nat
  BY <1>3, <1>4, FS_CardinalityType
<1>8. Cardinality(Often(later, S)) = Cardinality(Often(d, S)) + Cardinality(New) - Cardinality({})
  BY <1>3, <1>4, <1>5, <1>6, FS_Union
<1> QED
  BY <1>1, <1>3, <1>4, <1>7, <1>8, FS_EmptySet

LEMMA IdleHasNoNumber == Issues!Idle.number = 0
BY DEF Issues!Idle

LEMMA IssuesStart == Issues!Init => IssueInv
<1> SUFFICES ASSUME Issues!Init PROVE IssueInv
  OBVIOUS
<1>1. /\ failures = <<>> /\ overlap = {} /\ hand = [c \in Caller |-> Issues!Idle] /\ pending = <<>> /\ loop = "running"
      /\ wire = {} /\ merged = <<>> /\ early = {} /\ delivered = [n \in 1..MaxOccurrences |-> 0]
  BY DEF Issues!Init
<1>2. DOMAIN pending = {} /\ DOMAIN merged = {}
  BY <1>1
<1>3. IssueTypes
  <2>1. failures \in Seq(Observation) /\ Len(failures) = 0
    BY <1>1
  <2>2. hand \in [Caller -> Held]
    BY <1>1 DEF Held
  <2>3. delivered \in [1..MaxOccurrences -> Nat]
    BY <1>1
  <2> QED
    BY <2>1, <2>2, <2>3, IssuesAssumption DEF IssueTypes
<1>4. HandsHold
  BY <1>1 DEF HandsHold
<1>5. MergedHolds
  BY <1>1, <1>2 DEF MergedHolds
<1> QED
  BY <1>1, <1>2, <1>3, <1>4, <1>5 DEF IssueInv, Window, Issues!TailIsSent

\* What was accumulated stays so while more is observed.
Observed ==
  /\ \A n \in 1..Len(failures) : n \in 1..Len(failures') /\ failures'[n] = failures[n]
  /\ overlap \subseteq overlap'

LEMMA AccumulatedStays ==
  ASSUME Observed, NEW f, NEW i, Accumulated(f, i)
  PROVE  Accumulated(f, i)'
<1>1. i.numbers \subseteq Issues!Occurrences(f)'
  BY DEF Observed, Accumulated, Issues!Occurrences
<1>2. \A p : OfPair(i.numbers, p)' = OfPair(i.numbers, p)
  BY DEF Observed, Accumulated, OfPair, Issues!Occurrences
<1>3. Spans(i, i.numbers)'
  <2>1. UNION overlap \subseteq UNION (overlap')
    BY DEF Observed
  <2> QED
    BY <2>1 DEF Accumulated, Spans, Issues!Range
<1> QED
  BY <1>1, <1>2, <1>3 DEF Accumulated, Windowed

LEMMA WindowStays == ASSUME Observed, NEW w, Window(w) PROVE Window(w)'
BY AccumulatedStays DEF Window

LEMMA WindowHasOccurrences == ASSUME NEW w, Window(w) PROVE Issues!NumbersOf(w) \subseteq 1..Len(failures)
BY DEF Window, Accumulated, Issues!NumbersOf, Issues!Occurrences

LEMMA OftenSame ==
  ASSUME NEW d, NEW S, NEW T, S \subseteq T, \A n \in T \ S : d[n] = 0
  PROVE  Often(d, T) = Often(d, S)
<1>1. \A n \in T \ S : 1..d[n] = {}
  OBVIOUS
<1>2. ASSUME NEW q \in Often(d, T) PROVE q \in Often(d, S)
  <2>1. PICK n \in T : q \in {n} \X (1..d[n])
    BY <1>2 DEF Often
  <2> QED
    BY <1>1, <2>1 DEF Often
<1>3. ASSUME NEW q \in Often(d, S) PROVE q \in Often(d, T)
  BY <1>3 DEF Often
<1> QED
  BY <1>2, <1>3

\* While nothing is delivered, what has arrived is what had arrived.
LEMMA MergedStays ==
  ASSUME IssueTypes, Observed, MergedHolds, UNCHANGED <<merged, delivered>>, failures' \in Seq(Observation), Len(failures') <= MaxOccurrences
  PROVE  MergedHolds'
<1>1. Len(failures) \in Nat /\ Len(failures') \in Nat /\ MaxOccurrences \in Nat
  BY IssuesAssumption DEF IssueTypes
<1>2. \A n \in 1..Len(failures') : n \notin 1..Len(failures) => delivered[n] = 0
  BY <1>1 DEF MergedHolds, IssueTypes
<1>3. ASSUME NEW f
      PROVE  /\ Issues!Occurrences(f) \subseteq Issues!Occurrences(f)'
             /\ \A n \in Issues!Occurrences(f)' : n \notin Issues!Occurrences(f) => delivered[n] = 0
             /\ \A p : OfPair(Issues!Occurrences(f), p) \subseteq OfPair(Issues!Occurrences(f), p)'
             /\ \A p : \A n \in OfPair(Issues!Occurrences(f), p)' : n \notin OfPair(Issues!Occurrences(f), p) => delivered[n] = 0
  BY <1>2 DEF Observed, OfPair, Issues!Occurrences
<1>4. ASSUME NEW f \in DOMAIN merged
      PROVE  /\ Issues!Arrived(f)' = Issues!Arrived(f)
             /\ Issues!Arrivals(Issues!Occurrences(f))' = Issues!Arrivals(Issues!Occurrences(f))
             /\ \A p : Issues!Arrivals(OfPair(Issues!Occurrences(f), p))' = Issues!Arrivals(OfPair(Issues!Occurrences(f), p))
  <2>1. Issues!Arrived(f)' = Issues!Arrived(f)
    BY <1>3 DEF Issues!Arrived
  <2>2. Often(delivered, Issues!Occurrences(f)') = Often(delivered, Issues!Occurrences(f))
    BY <1>3, OftenSame
  <2>3. \A p : Often(delivered, OfPair(Issues!Occurrences(f), p)') = Often(delivered, OfPair(Issues!Occurrences(f), p))
    BY <1>3, OftenSame
  <2> QED
    BY <2>1, <2>2, <2>3 DEF Often, Issues!Arrivals
<1>5. UNION overlap \subseteq UNION (overlap')
  BY DEF Observed
<1>6. \A f \in DOMAIN merged : Spans(merged[f], Issues!Arrived(f))'
  BY <1>4, <1>5 DEF MergedHolds, Spans, Issues!Range
<1>7. \A n \in DOMAIN delivered' : delivered'[n] > 0 =>
        n <= Len(failures') /\ Issues!IssueFingerprint(failures'[n].failure) \in DOMAIN merged'
  BY <1>1 DEF MergedHolds, Observed, IssueTypes
<1> QED
  BY <1>4, <1>6, <1>7 DEF MergedHolds, Merged, Issues!Known

LEMMA ObserveKept == ASSUME IssueInv, NEW c \in Caller, Issues!Observe(c) PROVE IssueInv'
<1> DEFINE n == Len(failures) + 1
<1>1. PICK failure \in Failure, pair \in Pair :
        /\ failures' = Append(failures, [failure |-> failure, pair |-> pair])
        /\ hand' = [hand EXCEPT ![c] = [number |-> n, failure |-> failure, pair |-> pair]]
  BY Zenon DEF Issues!Observe
<1>2. /\ hand[c] = Issues!Idle /\ n <= MaxOccurrences
      /\ overlap' = overlap \union {{n, hand[d].number} : d \in {e \in Caller : hand[e] # Issues!Idle}}
      /\ UNCHANGED <<pending, loop, wire, merged, early, delivered>>
  BY DEF Issues!Observe
<1>3. /\ failures \in Seq(Observation) /\ Len(failures) \in Nat /\ hand \in [Caller -> Held]
  BY DEF IssueInv, IssueTypes
<1>4. /\ failures' \in Seq(Observation) /\ Len(failures') = n /\ n \in Nat \ {0}
      /\ failures'[n] = [failure |-> failure, pair |-> pair] /\ \A m \in 1..Len(failures) : failures'[m] = failures[m]
  BY <1>1, <1>3 DEF Observation
<1>5. Observed
  BY <1>2, <1>3, <1>4 DEF Observed
<1>6. IssueTypes'
  <2>1. [number |-> n, failure |-> failure, pair |-> pair] \in Held
    BY <1>4 DEF Held
  <2>2. hand' \in [Caller -> Held]
    BY <1>1, <1>3, <2>1
  <2> QED
    BY <1>2, <1>4, <2>2 DEF IssueInv, IssueTypes
<1>7. HandsHold'
  <2> DEFINE taken == [number |-> n, failure |-> failure, pair |-> pair]
  <2>1. hand'[c] = taken /\ \A d \in Caller \ {c} : hand'[d] = hand[d]
    BY <1>1, <1>3
  <2>2. taken.number = n /\ taken.failure = failure /\ taken.pair = pair
    OBVIOUS
  <2> HIDE DEF taken
  <2>3. n \notin early /\ n \notin Issues!NumbersOf(pending) /\ n \notin 1..Len(failures)
    BY <1>3, WindowHasOccurrences DEF IssueInv
  <2>4. \A d \in Caller : hand[d] # Issues!Idle => {n, hand[d].number} \in overlap'
    BY <1>2
  <2>5. ASSUME NEW d \in Caller, hand[d] # Issues!Idle, d # c
        PROVE  /\ hand[d].number \in 1..Len(failures) /\ hand[d].number # n
               /\ failures[hand[d].number] = [failure |-> hand[d].failure, pair |-> hand[d].pair]
               /\ hand[d].number \notin early /\ hand[d].number \notin Issues!NumbersOf(pending)
               /\ \A m \in 1..Len(failures) : m > hand[d].number => {m, hand[d].number} \in overlap
               /\ \A e \in Caller \ {d} : hand[e].number # hand[d].number
    BY <1>3, <2>5 DEF IssueInv, HandsHold
  <2>6. Issues!NumbersOf(pending)' = Issues!NumbersOf(pending)
    BY <1>2 DEF Issues!NumbersOf
  <2>7. 1..Len(failures') = (1..Len(failures)) \union {n}
    BY <1>3, <1>4
  <2>8. ASSUME NEW d \in Caller, hand'[d] # Issues!Idle, d # c
        PROVE  /\ hand'[d].number \in 1..Len(failures')
               /\ failures'[hand'[d].number] = [failure |-> hand'[d].failure, pair |-> hand'[d].pair]
               /\ hand'[d].number \notin early' /\ hand'[d].number \notin Issues!NumbersOf(pending)'
               /\ \A m \in 1..Len(failures') : m > hand'[d].number => {m, hand'[d].number} \in overlap'
               /\ \A e \in Caller \ {d} : hand'[e].number # hand'[d].number
    <3>1. hand'[d] = hand[d] /\ hand[d] # Issues!Idle
      BY <2>1, <2>8
    <3>2. \A m \in 1..Len(failures') : m > hand[d].number => {m, hand[d].number} \in overlap'
      BY <1>5, <2>4, <2>5, <2>7, <2>8, <3>1, Zenon DEF Observed
    <3>3. \A e \in Caller \ {d} : hand'[e].number # hand[d].number
      BY <2>1, <2>2, <2>5, <2>8, <3>1, Zenon
    <3> QED
      BY <1>2, <1>4, <2>5, <2>6, <2>7, <2>8, <3>1, <3>2, <3>3
  <2>9. /\ n \in 1..Len(failures') /\ failures'[n] = [failure |-> taken.failure, pair |-> taken.pair]
        /\ n \notin early' /\ n \notin Issues!NumbersOf(pending)'
        /\ \A m \in 1..Len(failures') : m > n => {m, n} \in overlap'
        /\ \A d \in Caller \ {c} : hand'[d].number # n
    <3>1. \A d \in Caller \ {c} : hand[d].number # n
      <4>1. \A d \in Caller \ {c} : hand[d] = Issues!Idle => hand[d].number # n
        BY <1>4, IdleHasNoNumber
      <4> QED
        BY <2>5, <4>1, Zenon
    <3> QED
      BY <1>2, <1>4, <2>1, <2>2, <2>3, <2>6, <2>7, <3>1
  <2> QED
    BY <2>1, <2>2, <2>8, <2>9 DEF HandsHold
<1>8. Window(pending)' /\ \A w \in wire' : Window(w)'
  <2>1. Window(pending)'
    BY <1>2, <1>5, AccumulatedStays DEF IssueInv, Window
  <2> QED
    BY <1>2, <1>5, <2>1, WindowStays DEF IssueInv
<1>9. MergedHolds'
  BY <1>2, <1>4, <1>5, MergedStays DEF IssueInv
<1>10. early' \subseteq 1..Len(failures') /\ Issues!TailIsSent'
  BY <1>2, <1>3, <1>4 DEF IssueInv, Issues!TailIsSent, Issues!NumbersOf
<1> QED
  BY <1>6, <1>7, <1>8, <1>9, <1>10 DEF IssueInv

\* An issue that an occurrence is about to be added to.
Prepared(i, o) ==
  /\ i \in Windowed /\ i.numbers \subseteq Issues!Occurrences(Issues!IssueFingerprint(o.failure)) /\ o.number \notin i.numbers
  /\ {i.firstSeen} \union Issues!Range(i.exemplars) \subseteq i.numbers \union {o.number}
  /\ \A n \in i.numbers : n < i.firstSeen => n \in UNION overlap
  /\ i.count = Cardinality(i.numbers)
  /\ \A p \in Pair : i.errors[p] <= Cardinality(OfPair(i.numbers, p))

LEMMA AccumulateHolds ==
  ASSUME IssueTypes, NEW o \in [number : Nat \ {0}, failure : Failure, pair : Pair],
         o.number \in 1..Len(failures), failures[o.number] = [failure |-> o.failure, pair |-> o.pair],
         \A m \in 1..Len(failures) : m > o.number => {m, o.number} \in overlap,
         NEW i, Prepared(i, o), NEW j, j = Issues!Accumulate(i, o)
  PROVE  Accumulated(Issues!IssueFingerprint(o.failure), j) /\ j.numbers = i.numbers \union {o.number}
<1> DEFINE n == o.number
           fp == Issues!IssueFingerprint(o.failure)
<1>1. /\ i \in Windowed /\ i.numbers \subseteq Issues!Occurrences(fp) /\ n \notin i.numbers
      /\ i.firstSeen \in i.numbers \union {n} /\ Issues!Range(i.exemplars) \subseteq i.numbers \union {n}
      /\ \A m \in i.numbers : m < i.firstSeen => m \in UNION overlap
      /\ i.count = Cardinality(i.numbers) /\ \A p \in Pair : i.errors[p] <= Cardinality(OfPair(i.numbers, p))
  BY DEF Prepared
<1>2. /\ i.classification \in {Issues!ClassifyIssue(failure) : failure \in Failure} /\ i.failure \in Failure
      /\ i.count \in Nat /\ i.firstSeen \in Nat /\ i.exemplars \in Seq(Nat) /\ i.errors \in [Pair -> Nat] /\ i.numbers \in SUBSET Nat
  BY <1>1 DEF Windowed
<1>3. n \in Nat \ {0} /\ o.pair \in Pair /\ Len(failures) \in Nat
  BY DEF IssueTypes
<1> DEFINE admitted == o.pair \in Issues!Known(i.errors) \/ Issues!Cardinality(Issues!Known(i.errors)) < MaxPendingIssueErrors
           errors == [i.errors EXCEPT ![o.pair] = IF admitted THEN @ + 1 ELSE @]
<1> HIDE DEF admitted
<1>4. /\ errors \in [Pair -> Nat] /\ errors[o.pair] <= i.errors[o.pair] + 1
      /\ \A p \in Pair : p # o.pair => errors[p] = i.errors[p]
  BY <1>2, <1>3
<1>5. PICK exemplars : exemplars = Issues!NewestExemplars(i.exemplars, <<n>>)
  OBVIOUS
<1>6. j = [classification |-> i.classification, failure |-> i.failure, count |-> i.count + 1,
           firstSeen |-> i.firstSeen, lastSeen |-> n, exemplars |-> exemplars, errors |-> errors, numbers |-> i.numbers \union {n}]
  BY <1>1, <1>5, Zenon DEF Issues!Accumulate, Windowed, admitted
<1> HIDE DEF errors
<1>7. /\ exemplars \in Seq(Nat) /\ Len(exemplars) <= MaxExemplars /\ Issues!Range(exemplars) \subseteq i.numbers \union {n}
  <2> DEFINE one == <<n>>
  <2>1. one \in Seq(Nat) /\ Issues!Range(one) = {n} /\ exemplars = Issues!NewestExemplars(i.exemplars, one)
    BY <1>3, <1>5 DEF Issues!Range
  <2> HIDE DEF one
  <2>2. /\ exemplars \in Seq(Nat) /\ Len(exemplars) <= MaxExemplars
        /\ Issues!Range(exemplars) \subseteq Issues!Range(i.exemplars) \union Issues!Range(one)
    BY <1>2, <2>1, ExemplarsAreOfThese
  <2> QED
    BY <1>1, <2>1, <2>2
<1>8. /\ j.classification = i.classification /\ j.failure = i.failure /\ j.count = i.count + 1 /\ j.firstSeen = i.firstSeen
      /\ j.lastSeen = n /\ j.exemplars = exemplars /\ j.errors = errors /\ j.numbers = i.numbers \union {n}
  BY <1>6
<1>9. j \in Windowed
  <2>1. i.count + 1 \in Nat /\ i.numbers \union {n} \in SUBSET Nat
    BY <1>2, <1>3
  <2> QED
    BY <1>2, <1>3, <1>4, <1>6, <1>7, <2>1 DEF Windowed
<1>10. n \in Issues!Occurrences(fp)
  BY DEF Issues!Occurrences
<1>11. IsFiniteSet(Issues!Occurrences(fp)) /\ IsFiniteSet(i.numbers)
  <2>1. IsFiniteSet(1..Len(failures))
    BY <1>3, FS_Interval
  <2> QED
    BY <1>1, <2>1, FS_Subset DEF Issues!Occurrences
<1>12. j.count = Cardinality(j.numbers)
  <2>1. Cardinality(i.numbers \union {n}) = Cardinality(i.numbers) + 1
    BY <1>1, <1>11, FS_AddElement, Zenon
  <2> QED
    BY <1>1, <1>8, <2>1
<1>13. ASSUME NEW p \in Pair PROVE j.errors[p] <= Cardinality(OfPair(j.numbers, p))
  <2>1. IsFiniteSet(OfPair(i.numbers, p)) /\ Cardinality(OfPair(i.numbers, p)) \in Nat /\ n \notin OfPair(i.numbers, p)
    BY <1>1, <1>11, FS_Subset, FS_CardinalityType DEF OfPair
  <2>2. i.errors[p] \in Nat /\ i.errors[p] <= Cardinality(OfPair(i.numbers, p))
    BY <1>1, <1>2
  <2>3. CASE p = o.pair
    <3>1. OfPair(j.numbers, p) = OfPair(i.numbers, p) \union {n}
      BY <1>8, <2>3 DEF OfPair
    <3>2. Cardinality(OfPair(j.numbers, p)) = Cardinality(OfPair(i.numbers, p)) + 1
      BY <2>1, <3>1, FS_AddElement, Zenon
    <3>3. errors[p] <= i.errors[p] + 1
      BY <1>4, <2>3
    <3>4. errors[p] \in Nat
      BY <1>4
    <3> QED
      BY <1>8, <2>1, <2>2, <3>2, <3>3, <3>4
  <2>4. CASE p # o.pair
    <3>1. OfPair(j.numbers, p) = OfPair(i.numbers, p)
      BY <1>8, <2>4 DEF OfPair
    <3>2. errors[p] = i.errors[p]
      BY <1>4, <2>4
    <3> QED
      BY <1>8, <2>2, <3>1, <3>2
  <2> QED
    BY <2>3, <2>4
<1>14. \A m \in j.numbers : m \in 1..Len(failures)
  BY <1>1, <1>8, <1>10 DEF Issues!Occurrences
<1>15. ASSUME NEW m \in j.numbers, m < j.firstSeen \/ m > j.lastSeen PROVE m \in UNION overlap
  <2>1. m \in Nat /\ n \in Nat /\ j.firstSeen \in Nat /\ j.firstSeen \in 1..Len(failures)
    BY <1>1, <1>3, <1>8, <1>14
  <2>2. CASE m > n
    <3>1. {m, n} \in overlap
      BY <1>14, <2>2
    <3> QED
      BY <3>1
  <2>3. CASE m = n /\ m < j.firstSeen
    <3>1. {j.firstSeen, n} \in overlap
      BY <2>1, <2>3
    <3> QED
      BY <2>3, <3>1
  <2>4. CASE m # n /\ m < j.firstSeen
    BY <1>1, <1>8, <2>4
  <2> QED
    BY <1>8, <1>15, <2>1, <2>2, <2>3, <2>4
<1>16. Spans(j, j.numbers)
  BY <1>1, <1>7, <1>8, <1>15 DEF Spans
<1> QED
  BY <1>1, <1>8, <1>9, <1>10, <1>12, <1>13, <1>16, Zenon DEF Accumulated

LEMMA OpenedIsPrepared ==
  ASSUME NEW o \in [number : Nat \ {0}, failure : Failure, pair : Pair], NEW i, i = Issues!Opened(o)
  PROVE  Prepared(i, o)
<1>1. i = [failure |-> o.failure, classification |-> Issues!ClassifyIssue(o.failure), count |-> 0,
           firstSeen |-> o.number, lastSeen |-> o.number, exemplars |-> <<>>, errors |-> Issues!NoErrors, numbers |-> {}]
  BY DEF Issues!Opened
<1>2. Issues!NoErrors \in [Pair -> Nat] /\ \A p \in Pair : Issues!NoErrors[p] = 0
  BY DEF Issues!NoErrors
<1>3. i.numbers = {} /\ i.firstSeen = o.number /\ i.exemplars = <<>> /\ i.count = 0 /\ i.errors = Issues!NoErrors
  BY <1>1
<1>4. Issues!Range(i.exemplars) = {}
  BY <1>3 DEF Issues!Range
<1>5. \A p : OfPair(i.numbers, p) = {}
  BY <1>3 DEF OfPair
<1>6. i \in Windowed
  <2>1. o.number \in Nat /\ o.failure \in Failure /\ <<>> \in Seq(Nat) /\ {} \in SUBSET Nat
    OBVIOUS
  <2> QED
    BY <1>1, <1>2, <2>1 DEF Windowed
<1>7. i.count = Cardinality(i.numbers) /\ \A p \in Pair : i.errors[p] <= Cardinality(OfPair(i.numbers, p))
  <2>1. Cardinality({}) = 0
    BY FS_EmptySet
  <2>2. i.count = Cardinality(i.numbers)
    BY <1>3, <2>1
  <2>3. ASSUME NEW p \in Pair PROVE i.errors[p] <= Cardinality(OfPair(i.numbers, p))
    <3>1. OfPair(i.numbers, p) = {} /\ i.errors[p] = 0
      BY <1>2, <1>3, <1>5
    <3>2. Cardinality(OfPair(i.numbers, p)) = 0
      BY <2>1, <3>1
    <3> QED
      BY <3>1, <3>2
  <2> QED
    BY <2>2, <2>3
<1>8. /\ {i.firstSeen} \union Issues!Range(i.exemplars) \subseteq i.numbers \union {o.number}
      /\ \A n \in i.numbers : n < i.firstSeen => n \in UNION overlap
  BY <1>3, <1>4
<1>9. i.numbers \subseteq Issues!Occurrences(Issues!IssueFingerprint(o.failure)) /\ o.number \notin i.numbers
  BY <1>3
<1> QED
  BY <1>6, <1>7, <1>8, <1>9 DEF Prepared

LEMMA RecordKept == ASSUME IssueInv, NEW c \in Caller, Issues!Record(c) PROVE IssueInv'
<1> DEFINE o == hand[c]
           fp == Issues!IssueFingerprint(o.failure)
           issue == IF fp \in DOMAIN pending THEN pending[fp] ELSE Issues!Opened(o)
<1>1. /\ o # Issues!Idle
      /\ pending' = [f \in DOMAIN pending \union {fp} |-> IF f = fp THEN Issues!Accumulate(issue, o) ELSE pending[f]]
      /\ hand' = [hand EXCEPT ![c] = Issues!Idle]
      /\ early' = IF loop = "running" THEN early \union {o.number} ELSE early
      /\ UNCHANGED <<failures, overlap, loop, wire, merged, delivered>>
  BY DEF Issues!Record
<1>2. IssueTypes /\ HandsHold /\ Window(pending) /\ hand \in [Caller -> Held]
  BY DEF IssueInv, IssueTypes
<1>3. /\ o \in [number : Nat \ {0}, failure : Failure, pair : Pair]
      /\ o.number \in 1..Len(failures) /\ failures[o.number] = [failure |-> o.failure, pair |-> o.pair]
      /\ o.number \notin early /\ o.number \notin Issues!NumbersOf(pending)
      /\ \A m \in 1..Len(failures) : m > o.number => {m, o.number} \in overlap
      /\ \A d \in Caller \ {c} : hand[d].number # o.number
  BY <1>1, <1>2 DEF HandsHold, Held
<1>4. Prepared(issue, o)
  <2>1. CASE fp \in DOMAIN pending
    <3>1. Accumulated(fp, pending[fp]) /\ issue = pending[fp]
      BY <1>2, <2>1 DEF Window
    <3>2. o.number \notin pending[fp].numbers
      BY <1>3, <2>1 DEF Issues!NumbersOf
    <3> HIDE DEF issue
    <3> QED
      BY <3>1, <3>2 DEF Accumulated, Prepared, Spans
  <2>2. CASE fp \notin DOMAIN pending
    <3>1. issue = Issues!Opened(o)
      BY <2>2
    <3> QED
      BY <1>3, <3>1, OpenedIsPrepared
  <2> QED
    BY <2>1, <2>2
<1> HIDE DEF issue
<1>5. /\ Accumulated(fp, pending'[fp]) /\ pending'[fp].numbers = issue.numbers \union {o.number}
  <2>1. pending'[fp] = Issues!Accumulate(issue, o)
    BY <1>1
  <2> QED
    BY <1>2, <1>3, <1>4, <2>1, AccumulateHolds
<1>6. DOMAIN pending' = DOMAIN pending \union {fp} /\ \A f \in DOMAIN pending : f # fp => pending'[f] = pending[f]
  BY <1>1
<1>7. Window(pending')
  BY <1>2, <1>5, <1>6 DEF Window
<1>8. Observed
  BY <1>1 DEF Observed
<1>9. Window(pending)' /\ \A w \in wire' : Window(w)'
  <2>1. Window(pending)'
    BY <1>7, <1>8, AccumulatedStays DEF Window
  <2> QED
    BY <1>1, <1>8, <2>1, WindowStays DEF IssueInv
<1>10. Issues!NumbersOf(pending)' = Issues!NumbersOf(pending) \union {o.number}
  <2>1. CASE fp \in DOMAIN pending
    <3>1. issue.numbers = pending[fp].numbers
      BY <2>1 DEF issue
    <3> QED
      BY <1>5, <1>6, <2>1, <3>1 DEF Issues!NumbersOf
  <2>2. CASE fp \notin DOMAIN pending
    <3>1. issue.numbers = {}
      BY <2>2 DEF issue, Issues!Opened
    <3> QED
      BY <1>5, <1>6, <2>2, <3>1 DEF Issues!NumbersOf
  <2> QED
    BY <2>1, <2>2
<1>11. /\ hand'[c] = Issues!Idle /\ \A d \in Caller \ {c} : hand'[d] = hand[d]
       /\ IssueTypes'
  <2>1. Issues!Idle \in Held
    BY DEF Held
  <2>2. hand' \in [Caller -> Held]
    BY <1>1, <1>2, <2>1
  <2> QED
    BY <1>1, <1>2, <2>2 DEF IssueTypes
<1>12. early' \subseteq early \union {o.number} /\ early \subseteq 1..Len(failures)
  BY <1>1 DEF IssueInv
<1>13. HandsHold'
  <2> SUFFICES ASSUME NEW d \in Caller, hand'[d] # Issues!Idle
               PROVE  /\ hand'[d].number \in 1..Len(failures')
                      /\ failures'[hand'[d].number] = [failure |-> hand'[d].failure, pair |-> hand'[d].pair]
                      /\ hand'[d].number \notin early' /\ hand'[d].number \notin Issues!NumbersOf(pending)'
                      /\ \A m \in 1..Len(failures') : m > hand'[d].number => {m, hand'[d].number} \in overlap'
                      /\ \A e \in Caller \ {d} : hand'[e].number # hand'[d].number
    BY DEF HandsHold
  <2>1. d # c /\ hand'[d] = hand[d] /\ hand[d] # Issues!Idle
    BY <1>11
  <2>2. /\ hand[d].number \in 1..Len(failures) /\ failures[hand[d].number] = [failure |-> hand[d].failure, pair |-> hand[d].pair]
        /\ hand[d].number \notin early /\ hand[d].number \notin Issues!NumbersOf(pending)
        /\ \A m \in 1..Len(failures) : m > hand[d].number => {m, hand[d].number} \in overlap
        /\ \A e \in Caller \ {d} : hand[e].number # hand[d].number
    BY <1>2, <2>1 DEF HandsHold
  <2>3. hand[d].number # o.number
    BY <2>1, <2>2
  <2>4. \A e \in Caller \ {d} : hand'[e].number # hand[d].number
    <3>1. hand'[c].number # hand[d].number
      BY <1>11, <2>2, IdleHasNoNumber
    <3> QED
      BY <1>11, <2>2, <3>1
  <2>5. hand[d].number \notin early' /\ hand[d].number \notin Issues!NumbersOf(pending)'
    BY <1>10, <1>12, <2>2, <2>3
  <2> QED
    BY <1>1, <2>1, <2>2, <2>4, <2>5
<1>14. MergedHolds'
  <2>1. IssueTypes /\ Observed /\ MergedHolds /\ UNCHANGED <<merged, delivered>> /\ failures' \in Seq(Observation) /\ Len(failures') <= MaxOccurrences
    BY <1>1, <1>2, <1>8 DEF IssueInv, IssueTypes
  <2> QED
    BY <2>1, MergedStays
<1>15. early' \subseteq 1..Len(failures') /\ Issues!TailIsSent'
  <2>1. CASE loop = "done"
    <3>1. early' = early /\ early \intersect Issues!NumbersOf(pending) = {} /\ o.number \notin early
      BY <1>1, <1>3, <2>1 DEF IssueInv, Issues!TailIsSent
    <3> QED
      BY <1>1, <1>10, <1>12, <3>1, Zenon DEF Issues!TailIsSent
  <2>2. CASE loop # "done"
    BY <1>1, <1>3, <1>12, <2>2, Zenon DEF Issues!TailIsSent
  <2> QED
    BY <2>1, <2>2
<1> QED
  BY <1>9, <1>11, <1>13, <1>14, <1>15 DEF IssueInv

LEMMA PairsAreFew ==
  ASSUME IssueTypes, NEW f, NEW i, Accumulated(f, i), NEW p
  PROVE  IsFiniteSet(OfPair(i.numbers, p)) /\ Cardinality(OfPair(i.numbers, p)) \in Nat
<1>1. Len(failures) \in Nat
  BY DEF IssueTypes
<1>2. IsFiniteSet(1..Len(failures))
  BY <1>1, FS_Interval
<1>3. OfPair(i.numbers, p) \subseteq 1..Len(failures)
  BY DEF Accumulated, OfPair, Issues!Occurrences
<1> QED
  BY <1>2, <1>3, FS_Subset, FS_CardinalityType

LEMMA SnapshotHolds == ASSUME IssueTypes, NEW w, Window(w) PROVE Window(Issues!Snapshot(w))
<1> DEFINE s == Issues!Snapshot(w)
<1>1. DOMAIN s = DOMAIN w /\ \A f \in DOMAIN w : s[f] = [w[f] EXCEPT !.errors = Issues!MergeIssueErrors(Issues!NoErrors, w[f].errors)]
  BY DEF Issues!Snapshot
<1> HIDE DEF s
<1>2. ASSUME NEW f \in DOMAIN w PROVE Accumulated(f, s[f])
  <2> DEFINE i == w[f]
             errors == Issues!MergeIssueErrors(Issues!NoErrors, i.errors)
  <2>1. Accumulated(f, i) /\ i \in Windowed /\ i.errors \in [Pair -> Nat]
    BY DEF Window, Accumulated, Windowed
  <2> HIDE DEF i
  <2>2. Issues!NoErrors \in [Pair -> Nat] /\ \A p \in Pair : Issues!NoErrors[p] = 0
    BY DEF Issues!NoErrors
  <2>3. errors \in [Pair -> Nat] /\ \A p \in Pair : errors[p] <= Issues!NoErrors[p] + i.errors[p]
    BY <2>1, <2>2, ErrorsMerge
  <2>4. s[f] = [i EXCEPT !.errors = errors]
    BY <1>1 DEF i
  <2> HIDE DEF errors
  <2>5. /\ s[f] \in Windowed /\ s[f].numbers = i.numbers /\ s[f].count = i.count /\ s[f].errors = errors
        /\ s[f].firstSeen = i.firstSeen /\ s[f].lastSeen = i.lastSeen /\ s[f].exemplars = i.exemplars
    BY <2>1, <2>3, <2>4, Zenon DEF Windowed
  <2>6. ASSUME NEW p \in Pair PROVE errors[p] <= Cardinality(OfPair(i.numbers, p))
    <3>1. IsFiniteSet(OfPair(i.numbers, p)) /\ Cardinality(OfPair(i.numbers, p)) \in Nat
      BY <2>1, PairsAreFew
    <3>2. i.errors[p] \in Nat /\ errors[p] \in Nat /\ errors[p] <= i.errors[p] /\ i.errors[p] <= Cardinality(OfPair(i.numbers, p))
      BY <2>1, <2>2, <2>3 DEF Accumulated
    <3> QED
      BY <3>1, <3>2
  <2> QED
    BY <2>1, <2>5, <2>6 DEF Accumulated, Spans
<1>3. \A f \in DOMAIN s : Accumulated(f, s[f])
  BY <1>1, <1>2
<1> QED
  BY <1>3 DEF Window, s

LEMMA SentIsKept ==
  ASSUME IssueInv, Issues!SendWindow, UNCHANGED <<failures, overlap, hand, merged, early, delivered>>
  PROVE  IssueInv'
<1>1. wire' = wire \union {Issues!Snapshot(pending)} /\ pending' = <<>>
  BY DEF Issues!SendWindow
<1>2. Observed
  BY DEF Observed
<1>3. DOMAIN pending' = {} /\ Issues!NumbersOf(pending)' = {}
  BY <1>1 DEF Issues!NumbersOf
<1>4. IssueTypes' /\ HandsHold'
  BY <1>3 DEF IssueInv, IssueTypes, HandsHold
<1>5. Window(pending)' /\ \A w \in wire' : Window(w)'
  <2>1. \A w \in wire' : Window(w)
    BY <1>1, SnapshotHolds DEF IssueInv
  <2> QED
    BY <1>2, <1>3, <2>1, WindowStays DEF Window
<1>6. MergedHolds'
  <2>1. failures' \in Seq(Observation) /\ Len(failures') <= MaxOccurrences
    BY DEF IssueInv, IssueTypes
  <2> QED
    BY <1>2, <2>1, MergedStays DEF IssueInv
<1> QED
  BY <1>3, <1>4, <1>5, <1>6 DEF IssueInv, Issues!TailIsSent

\* Close, a lost batch, and steps of the other systems.
LEMMA QuietIsKept ==
  ASSUME IssueInv, UNCHANGED <<failures, overlap, hand, pending, merged, early, delivered>>, wire' \subseteq wire,
         loop' = "done" => loop = "done"
  PROVE  IssueInv'
<1>1. Observed
  BY DEF Observed
<1>2. Issues!NumbersOf(pending)' = Issues!NumbersOf(pending)
  BY DEF Issues!NumbersOf
<1>3. IssueTypes' /\ HandsHold' /\ Issues!TailIsSent' /\ early' \subseteq 1..Len(failures')
  BY <1>2 DEF IssueInv, IssueTypes, HandsHold, Issues!TailIsSent
<1>4. Window(pending)' /\ \A w \in wire' : Window(w)'
  <2>1. Window(pending)'
    BY <1>1, AccumulatedStays DEF IssueInv, Window
  <2> QED
    BY <1>1, <2>1, WindowStays DEF IssueInv
<1>5. MergedHolds'
  <2>1. failures' \in Seq(Observation) /\ Len(failures') <= MaxOccurrences
    BY DEF IssueInv, IssueTypes
  <2> QED
    BY <1>1, <2>1, MergedStays DEF IssueInv
<1> QED
  BY <1>3, <1>4, <1>5 DEF IssueInv

\* The numbers of an issue's occurrences in a batch are those of its own issue.
LEMMA BatchNumbers ==
  ASSUME NEW w, Window(w), NEW f
  PROVE  Issues!Occurrences(f) \intersect Issues!NumbersOf(w) = IF f \in DOMAIN w THEN w[f].numbers ELSE {}
<1>1. \A g \in DOMAIN w : w[g].numbers \subseteq Issues!Occurrences(g)
  BY DEF Window, Accumulated
<1> QED
  BY <1>1 DEF Issues!NumbersOf, Issues!Occurrences

\* The span of a merged issue is that of what had arrived and of the batch's occurrences.
LEMMA MergedSpan ==
  ASSUME NEW A \in SUBSET (Nat \ {0}), NEW B \in SUBSET (Nat \ {0}),
         NEW known, known.exemplars \in Seq(Nat), NEW i, i.exemplars \in Seq(Nat),
         Spans(known, A) \/ (A = {} /\ known.firstSeen = 0 /\ known.lastSeen = 0 /\ known.exemplars = <<>>),
         Spans(i, B), NEW j, j = Issues!Merge(known, i)
  PROVE  Spans(j, A \union B)
<1>1. /\ j.firstSeen = IF known.firstSeen = 0 THEN i.firstSeen ELSE IF known.firstSeen < i.firstSeen THEN known.firstSeen ELSE i.firstSeen
      /\ j.lastSeen = IF known.lastSeen > i.lastSeen THEN known.lastSeen ELSE i.lastSeen
      /\ j.exemplars = Issues!NewestExemplars(known.exemplars, i.exemplars)
  BY DEF Issues!Merge, Issues!AtMost, Issues!AtLeast
<1>2. /\ i.firstSeen \in B /\ i.lastSeen \in B /\ Issues!Range(i.exemplars) \subseteq B
      /\ \A n \in B : n < i.firstSeen \/ n > i.lastSeen => n \in UNION overlap
  BY Zenon DEF Spans
<1>3. /\ Len(j.exemplars) <= MaxExemplars
      /\ Issues!Range(j.exemplars) \subseteq Issues!Range(known.exemplars) \union Issues!Range(i.exemplars)
  BY <1>1, ExemplarsAreOfThese
<1>4. CASE Spans(known, A)
  <2>1. /\ known.firstSeen \in A /\ known.lastSeen \in A /\ Issues!Range(known.exemplars) \subseteq A
        /\ \A n \in A : n < known.firstSeen \/ n > known.lastSeen => n \in UNION overlap
    BY <1>4 DEF Spans
  <2>2. /\ known.firstSeen \in Nat \ {0} /\ known.lastSeen \in Nat /\ i.firstSeen \in Nat /\ i.lastSeen \in Nat
    BY <1>2, <2>1, Zenon
  <2>3. /\ j.firstSeen \in A \union B /\ j.lastSeen \in A \union B
        /\ j.firstSeen <= known.firstSeen /\ j.firstSeen <= i.firstSeen /\ known.lastSeen <= j.lastSeen /\ i.lastSeen <= j.lastSeen
        /\ j.firstSeen \in Nat /\ j.lastSeen \in Nat
    BY <1>1, <1>2, <2>1, <2>2
  <2>4. ASSUME NEW n \in A \union B, n < j.firstSeen \/ n > j.lastSeen PROVE n \in UNION overlap
    <3>1. n \in Nat
      OBVIOUS
    <3>2. (n < known.firstSeen \/ n > known.lastSeen) /\ (n < i.firstSeen \/ n > i.lastSeen)
      BY <2>2, <2>3, <2>4, <3>1
    <3> QED
      BY <1>2, <2>1, <2>4, <3>2
  <2> QED
    BY <1>2, <1>3, <2>1, <2>3, <2>4, Zenon DEF Spans
<1>5. CASE A = {} /\ known.firstSeen = 0 /\ known.lastSeen = 0 /\ known.exemplars = <<>>
  <2>1. i.firstSeen \in Nat \ {0} /\ i.lastSeen \in Nat \ {0}
    BY <1>2, Zenon
  <2>2. j.firstSeen = i.firstSeen /\ j.lastSeen = i.lastSeen
    BY <1>1, <1>5, <2>1
  <2>3. Issues!Range(known.exemplars) = {}
    BY <1>5 DEF Issues!Range
  <2> QED
    BY <1>2, <1>3, <1>5, <2>2, <2>3 DEF Spans
<1> QED
  BY <1>4, <1>5

\* What is added to: the collector's issue, or none where nothing has arrived.
LEMMA KnownSoFar ==
  ASSUME IssueInv, NEW f, NEW known, known = IF f \in DOMAIN merged THEN merged[f] ELSE Issues!Unmerged
  PROVE  /\ known.count \in Nat /\ known.exemplars \in Seq(Nat) /\ known.errors \in [Pair -> Nat]
         /\ known.firstSeen \in Nat /\ known.lastSeen \in Nat
         /\ \/ Spans(known, Issues!Arrived(f))
            \/ Issues!Arrived(f) = {} /\ known.firstSeen = 0 /\ known.lastSeen = 0 /\ known.exemplars = <<>>
         /\ known.count = Cardinality(Often(delivered, Issues!Occurrences(f)))
         /\ \A p \in Pair : known.errors[p] <= Cardinality(Often(delivered, OfPair(Issues!Occurrences(f), p)))
<1>1. CASE f \in DOMAIN merged
  <2>1. /\ known \in Merged /\ Spans(known, Issues!Arrived(f))
        /\ known.count = Cardinality(Issues!Arrivals(Issues!Occurrences(f)))
        /\ \A p \in Pair : known.errors[p] <= Cardinality(Issues!Arrivals(OfPair(Issues!Occurrences(f), p)))
    BY <1>1 DEF IssueInv, MergedHolds
  <2>2. /\ known.count \in Nat /\ known.exemplars \in Seq(Nat) /\ known.errors \in [Pair -> Nat]
        /\ known.firstSeen \in Nat /\ known.lastSeen \in Nat
    BY <2>1 DEF Merged
  <2>3. \A S : Issues!Arrivals(S) = Often(delivered, S)
    BY DEF Often, Issues!Arrivals
  <2> QED
    BY <2>1, <2>2, <2>3
<1>2. CASE f \notin DOMAIN merged
  <2>1. Len(failures) \in Nat /\ Len(failures) <= MaxOccurrences /\ delivered \in [1..MaxOccurrences -> Nat] /\ MaxOccurrences \in Nat
    BY IssuesAssumption DEF IssueInv, IssueTypes
  <2>2. ASSUME NEW n \in Issues!Occurrences(f) PROVE delivered[n] = 0
    <3>1. n \in 1..MaxOccurrences /\ n \in 1..Len(failures) /\ Issues!IssueFingerprint(failures[n].failure) = f
      BY <2>1 DEF Issues!Occurrences
    <3>2. ~(delivered[n] > 0) /\ delivered[n] \in Nat
      BY <1>2, <2>1, <3>1 DEF IssueInv, MergedHolds
    <3> QED
      BY <3>2
  <2>3. Often(delivered, {}) = {} /\ Cardinality({}) = 0
    BY FS_EmptySet DEF Often
  <2>4. Often(delivered, Issues!Occurrences(f)) = {}
    BY <2>2, <2>3, OftenSame
  <2>5. \A p : Often(delivered, OfPair(Issues!Occurrences(f), p)) = {}
    <3> TAKE p
    <3>1. OfPair(Issues!Occurrences(f), p) \subseteq Issues!Occurrences(f)
      BY DEF OfPair
    <3> QED
      BY <2>2, <2>3, <3>1, OftenSame
  <2>6. Issues!Arrived(f) = {}
    BY <2>2 DEF Issues!Arrived
  <2>7. /\ known.count = 0 /\ known.exemplars = <<>> /\ known.errors = Issues!NoErrors /\ known.firstSeen = 0 /\ known.lastSeen = 0
    BY <1>2 DEF Issues!Unmerged
  <2>8. Issues!NoErrors \in [Pair -> Nat] /\ \A p \in Pair : Issues!NoErrors[p] = 0
    BY DEF Issues!NoErrors
  <2>9. \A p \in Pair : known.errors[p] <= Cardinality(Often(delivered, OfPair(Issues!Occurrences(f), p)))
    <3> TAKE p \in Pair
    <3>1. Cardinality(Often(delivered, OfPair(Issues!Occurrences(f), p))) = 0 /\ known.errors[p] = 0
      BY <2>3, <2>5, <2>7, <2>8, Zenon
    <3> QED
      BY <3>1
  <2>10. known.count = Cardinality(Often(delivered, Issues!Occurrences(f)))
    BY <2>3, <2>4, <2>7
  <2>11. <<>> \in Seq(Nat) /\ 0 \in Nat
    OBVIOUS
  <2> QED
    BY <2>6, <2>7, <2>8, <2>9, <2>10, <2>11, Zenon
<1> QED
  BY <1>1, <1>2

LEMMA BatchKept == ASSUME IssueInv, NEW batch \in wire, Issues!Deliver(batch) PROVE IssueInv'
<1> DEFINE N == Issues!NumbersOf(batch)
           Occ(f) == Issues!Occurrences(f)
           known(f) == IF f \in DOMAIN merged THEN merged[f] ELSE Issues!Unmerged
<1>1. /\ merged' = [f \in DOMAIN batch \union DOMAIN merged |->
                      IF f \in DOMAIN batch THEN Issues!Merge(known(f), batch[f]) ELSE merged[f]]
      /\ delivered' = [n \in DOMAIN delivered |-> IF n \in N THEN delivered[n] + 1 ELSE delivered[n]]
      /\ wire' \subseteq wire
      /\ UNCHANGED <<failures, overlap, hand, pending, loop, early>>
  BY DEF Issues!Deliver
<1>2. /\ IssueTypes /\ Window(batch) /\ MergedHolds /\ Len(failures) \in Nat /\ Len(failures) <= MaxOccurrences
      /\ delivered \in [1..MaxOccurrences -> Nat] /\ MaxOccurrences \in Nat
  BY IssuesAssumption DEF IssueInv, IssueTypes
<1>3. delivered' = [n \in 1..MaxOccurrences |-> IF n \in N THEN delivered[n] + 1 ELSE delivered[n]]
  BY <1>1, <1>2
<1>4. \A f : Occ(f)' = Occ(f) /\ Occ(f) \in SUBSET (1..MaxOccurrences) /\ Occ(f) \in SUBSET (Nat \ {0})
  BY <1>1, <1>2 DEF Issues!Occurrences
<1>5. \A f : Occ(f) \intersect N = IF f \in DOMAIN batch THEN batch[f].numbers ELSE {}
  BY <1>2, BatchNumbers
<1>6. \A n \in 1..MaxOccurrences : delivered[n] \in Nat /\ delivered'[n] \in Nat /\ delivered'[n] = IF n \in N THEN delivered[n] + 1 ELSE delivered[n]
  BY <1>2, <1>3
<1>7. \A f : Issues!Arrived(f)' = Issues!Arrived(f) \union (Occ(f) \intersect N)
  BY <1>4, <1>6 DEF Issues!Arrived
<1>8. \A f : /\ Cardinality(Often(delivered', Occ(f))) = Cardinality(Often(delivered, Occ(f))) + Cardinality(Occ(f) \intersect N)
             /\ IsFiniteSet(Often(delivered, Occ(f)))
  BY <1>2, <1>3, <1>4, OftenGrows, Zenon
<1>9. \A f, p : /\ Cardinality(Often(delivered', OfPair(Occ(f), p))) = Cardinality(Often(delivered, OfPair(Occ(f), p))) + Cardinality(OfPair(Occ(f), p) \intersect N)
                /\ IsFiniteSet(Often(delivered, OfPair(Occ(f), p)))
  <2> TAKE f, p
  <2>1. OfPair(Occ(f), p) \in SUBSET (1..MaxOccurrences)
    BY <1>4 DEF OfPair
  <2> QED
    BY <1>2, <1>3, <2>1, OftenGrows, Zenon
<1>10. /\ \A f : Issues!Arrivals(Occ(f))' = Often(delivered', Occ(f))
       /\ \A f, p : Issues!Arrivals(OfPair(Occ(f), p))' = Often(delivered', OfPair(Occ(f), p))
  BY <1>1, <1>4 DEF Issues!Arrivals, Often, OfPair
<1>11. ASSUME NEW f \in DOMAIN batch
       PROVE  /\ merged'[f] \in Merged /\ Spans(merged'[f], Issues!Arrived(f)')
              /\ merged'[f].count = Cardinality(Often(delivered', Occ(f)))
              /\ \A p \in Pair : merged'[f].errors[p] <= Cardinality(Often(delivered', OfPair(Occ(f), p)))
              /\ Cardinality(Issues!Known(merged'[f].errors)) <= MaxIssueErrors
  <2> DEFINE k == known(f)
             i == batch[f]
             j == merged'[f]
  <2>1. /\ k.count \in Nat /\ k.exemplars \in Seq(Nat) /\ k.errors \in [Pair -> Nat] /\ k.firstSeen \in Nat /\ k.lastSeen \in Nat
        /\ \/ Spans(k, Issues!Arrived(f))
           \/ Issues!Arrived(f) = {} /\ k.firstSeen = 0 /\ k.lastSeen = 0 /\ k.exemplars = <<>>
        /\ k.count = Cardinality(Often(delivered, Occ(f)))
        /\ \A p \in Pair : k.errors[p] <= Cardinality(Often(delivered, OfPair(Occ(f), p)))
    BY KnownSoFar
  <2>2. j = Issues!Merge(k, i)
    BY <1>1
  <2>3. Accumulated(f, i)
    BY <1>2 DEF Window
  <2> HIDE DEF k, i, j
  <2>4. /\ i.classification \in {Issues!ClassifyIssue(failure) : failure \in Failure} /\ i.failure \in Failure /\ i.count \in Nat
        /\ i.firstSeen \in Nat /\ i.lastSeen \in Nat /\ i.exemplars \in Seq(Nat) /\ i.errors \in [Pair -> Nat]
    BY <2>3 DEF Accumulated, Windowed
  <2> DEFINE errors == Issues!MergeIssueErrors(k.errors, i.errors)
             exemplars == Issues!NewestExemplars(k.exemplars, i.exemplars)
             firstSeen == IF k.firstSeen = 0 THEN i.firstSeen ELSE Issues!AtMost(k.firstSeen, i.firstSeen)
             lastSeen == Issues!AtLeast(k.lastSeen, i.lastSeen)
  <2>5. /\ errors \in [Pair -> Nat] /\ \A p \in Pair : errors[p] <= k.errors[p] + i.errors[p]
        /\ Cardinality(Issues!Known(errors)) <= MaxIssueErrors
    BY <2>1, <2>4, ErrorsMerge, Zenon
  <2>6. exemplars \in Seq(Nat)
    BY <2>1, <2>4, ExemplarsAreOfThese
  <2>7. firstSeen \in Nat /\ lastSeen \in Nat
    BY <2>1, <2>4 DEF Issues!AtMost, Issues!AtLeast
  <2>8. j = [classification |-> i.classification, failure |-> i.failure, count |-> k.count + i.count, firstSeen |-> firstSeen,
             lastSeen |-> lastSeen, exemplars |-> exemplars, errors |-> errors]
    BY <2>2 DEF Issues!Merge
  <2> HIDE DEF errors, exemplars, firstSeen, lastSeen
  <2>9. j \in Merged /\ j.count = k.count + i.count /\ j.errors = errors
    <3>1. k.count + i.count \in Nat
      BY <2>1, <2>4
    <3> QED
      BY <2>4, <2>5, <2>6, <2>7, <2>8, <3>1 DEF Merged
  <2>10. Occ(f) \intersect N = i.numbers
    BY <1>5 DEF i
  <2>11. Spans(j, Issues!Arrived(f)')
    <3>1. Issues!Arrived(f) \in SUBSET (Nat \ {0}) /\ i.numbers \in SUBSET (Nat \ {0})
      BY <1>4, <2>10 DEF Issues!Arrived
    <3>2. Spans(i, i.numbers)
      BY <2>3 DEF Accumulated
    <3> DEFINE A == Issues!Arrived(f)
    <3>3. /\ k.exemplars \in Seq(Nat) /\ i.exemplars \in Seq(Nat) /\ A \in SUBSET (Nat \ {0})
          /\ Spans(k, A) \/ (A = {} /\ k.firstSeen = 0 /\ k.lastSeen = 0 /\ k.exemplars = <<>>)
      BY <2>1, <2>4, <3>1
    <3> HIDE DEF A
    <3>4. Spans(j, A \union i.numbers)
      BY <2>2, <3>1, <3>2, <3>3, MergedSpan, Zenon
    <3> QED
      BY <1>7, <2>10, <3>4 DEF A
  <2>12. j.count = Cardinality(Often(delivered', Occ(f)))
    BY <1>8, <2>1, <2>3, <2>9, <2>10 DEF Accumulated
  <2>13. ASSUME NEW p \in Pair PROVE j.errors[p] <= Cardinality(Often(delivered', OfPair(Occ(f), p)))
    <3>1. OfPair(Occ(f), p) \intersect N = OfPair(i.numbers, p)
      BY <2>10 DEF OfPair
    <3>2. i.errors[p] <= Cardinality(OfPair(i.numbers, p)) /\ Cardinality(OfPair(i.numbers, p)) \in Nat
      BY <1>2, <2>3, PairsAreFew, Zenon DEF Accumulated
    <3>3. Cardinality(Often(delivered', OfPair(Occ(f), p))) = Cardinality(Often(delivered, OfPair(Occ(f), p))) + Cardinality(OfPair(i.numbers, p))
      BY <1>9, <3>1
    <3>4. k.errors[p] <= Cardinality(Often(delivered, OfPair(Occ(f), p))) /\ Cardinality(Often(delivered, OfPair(Occ(f), p))) \in Nat
      BY <1>9, <2>1, FS_CardinalityType
    <3>5. errors[p] <= k.errors[p] + i.errors[p] /\ errors[p] \in Nat /\ k.errors[p] \in Nat /\ i.errors[p] \in Nat
      BY <2>1, <2>4, <2>5
    <3> QED
      BY <2>9, <3>2, <3>3, <3>4, <3>5
  <2> QED
    BY <2>5, <2>9, <2>11, <2>12, <2>13 DEF j
<1>12. ASSUME NEW f \in DOMAIN merged, f \notin DOMAIN batch
       PROVE  /\ merged'[f] \in Merged /\ Spans(merged'[f], Issues!Arrived(f)')
              /\ merged'[f].count = Cardinality(Often(delivered', Occ(f)))
              /\ \A p \in Pair : merged'[f].errors[p] <= Cardinality(Often(delivered', OfPair(Occ(f), p)))
              /\ Cardinality(Issues!Known(merged'[f].errors)) <= MaxIssueErrors
  <2>1. merged'[f] = merged[f]
    BY <1>1, <1>12
  <2>2. Occ(f) \intersect N = {} /\ \A p : OfPair(Occ(f), p) \intersect N = {}
    BY <1>5, <1>12 DEF OfPair
  <2>3. Issues!Arrived(f)' = Issues!Arrived(f)
    BY <1>7, <2>2
  <2>4. \A S : Issues!Arrivals(S) = Often(delivered, S)
    BY DEF Often, Issues!Arrivals
  <2>5. /\ merged[f] \in Merged /\ Spans(merged[f], Issues!Arrived(f))
        /\ merged[f].count = Cardinality(Often(delivered, Occ(f)))
        /\ \A p \in Pair : merged[f].errors[p] <= Cardinality(Often(delivered, OfPair(Occ(f), p)))
        /\ Cardinality(Issues!Known(merged[f].errors)) <= MaxIssueErrors
    BY <1>2, <2>4 DEF MergedHolds
  <2>6. Cardinality({}) = 0
    BY FS_EmptySet
  <2>7. \A n \in Occ(f) : delivered'[n] = delivered[n]
    BY <1>4, <1>6, <2>2
  <2>8. Often(delivered', Occ(f)) = Often(delivered, Occ(f)) /\ \A p : Often(delivered', OfPair(Occ(f), p)) = Often(delivered, OfPair(Occ(f), p))
    BY <2>7 DEF Often, OfPair
  <2> QED
    BY <2>1, <2>3, <2>5, <2>8
<1>13. DOMAIN merged' = DOMAIN batch \union DOMAIN merged
  BY <1>1
<1>14. \A n \in DOMAIN delivered' : delivered'[n] > 0 =>
         n <= Len(failures') /\ Issues!IssueFingerprint(failures'[n].failure) \in DOMAIN merged'
  <2> SUFFICES ASSUME NEW n \in 1..MaxOccurrences, delivered'[n] > 0
               PROVE  n <= Len(failures) /\ Issues!IssueFingerprint(failures[n].failure) \in DOMAIN merged'
    BY <1>1, <1>3
  <2>1. CASE n \in N
    <3>1. PICK g \in DOMAIN batch : n \in batch[g].numbers
      BY <2>1 DEF Issues!NumbersOf
    <3>2. n \in Occ(g)
      BY <1>5, <3>1
    <3> QED
      BY <1>2, <1>13, <3>1, <3>2 DEF Issues!Occurrences
  <2>2. CASE n \notin N
    BY <1>2, <1>6, <1>13, <2>2 DEF MergedHolds
  <2> QED
    BY <2>1, <2>2
<1>15. MergedHolds'
  <2>1. \A f \in DOMAIN merged' :
          /\ merged'[f] \in Merged /\ Spans(merged'[f], Issues!Arrived(f)')
          /\ merged'[f].count = Cardinality(Often(delivered', Occ(f)))
          /\ \A p \in Pair : merged'[f].errors[p] <= Cardinality(Often(delivered', OfPair(Occ(f), p)))
          /\ Cardinality(Issues!Known(merged'[f].errors)) <= MaxIssueErrors
    BY <1>11, <1>12, <1>13
  <2>2. \A i, S : Spans(i, S) => /\ {i.firstSeen, i.lastSeen} \union Issues!Range(i.exemplars) \subseteq S
                                 /\ \A n \in S : n < i.firstSeen \/ n > i.lastSeen => n \in UNION (overlap')
                                 /\ Len(i.exemplars) <= MaxExemplars
    BY <1>1 DEF Spans
  <2>3. \A f \in DOMAIN merged' : Spans(merged[f], Issues!Arrived(f))'
    BY <2>1, <2>2 DEF Spans
  <2>4. \A f \in DOMAIN merged' : /\ merged'[f].count = Cardinality(Issues!Arrivals(Occ(f))')
                                  /\ \A p \in Pair : merged'[f].errors[p] <= Cardinality(Issues!Arrivals(OfPair(Occ(f), p))')
    BY <1>10, <2>1
  <2> QED
    BY <1>14, <2>1, <2>3, <2>4, Zenon DEF MergedHolds, Merged, Issues!Known
<1>16. IssueTypes' /\ HandsHold' /\ early' \subseteq 1..Len(failures') /\ Issues!TailIsSent'
  <2>1. delivered' \in [1..MaxOccurrences -> Nat]
    BY <1>3, <1>6
  <2>2. Issues!NumbersOf(pending)' = Issues!NumbersOf(pending)
    BY <1>1 DEF Issues!NumbersOf
  <2> QED
    BY <1>1, <2>1, <2>2 DEF IssueInv, IssueTypes, HandsHold, Issues!TailIsSent
<1>17. Window(pending)' /\ \A w \in wire' : Window(w)'
  <2>1. Observed
    BY <1>1 DEF Observed
  <2>2. Window(pending)'
    BY <1>1, <2>1, AccumulatedStays DEF IssueInv, Window
  <2> QED
    BY <1>1, <2>1, <2>2, WindowStays DEF IssueInv
<1> QED
  BY <1>15, <1>16, <1>17 DEF IssueInv

LEMMA IssuesInductive == IssueInv /\ [Issues!Next]_issueVars => IssueInv'
<1> SUFFICES ASSUME IssueInv, [Issues!Next]_issueVars PROVE IssueInv'
  OBVIOUS
<1>1. ASSUME NEW c \in Caller, Issues!Observe(c) \/ Issues!Record(c) PROVE IssueInv'
  BY <1>1, ObserveKept, RecordKept
<1>2. CASE Issues!Flush
  BY <1>2, SentIsKept DEF Issues!Flush
<1>3. CASE Issues!Finish
  BY <1>3, SentIsKept DEF Issues!Finish
<1>4. CASE Issues!Close
  <2>1. UNCHANGED <<failures, overlap, hand, pending, merged, early, delivered>> /\ wire' \subseteq wire /\ loop' # "done"
    BY <1>4 DEF Issues!Close
  <2> QED
    BY <2>1, QuietIsKept
<1>5. ASSUME NEW batch \in wire, Issues!Deliver(batch) PROVE IssueInv'
  BY <1>5, BatchKept
<1>6. ASSUME NEW batch \in wire, Issues!Lose(batch) PROVE IssueInv'
  <2>1. UNCHANGED <<failures, overlap, hand, pending, loop, merged, early, delivered>> /\ wire' \subseteq wire
    BY <1>6 DEF Issues!Lose
  <2> QED
    BY <2>1, QuietIsKept
<1>7. CASE UNCHANGED issueVars
  <2>1. UNCHANGED <<failures, overlap, hand, pending, loop, merged, early, delivered>> /\ wire' \subseteq wire
    BY <1>7 DEF issueVars
  <2> QED
    BY <2>1, QuietIsKept
<1> QED
  BY <1>1, <1>2, <1>3, <1>4, <1>5, <1>6, <1>7 DEF Issues!Next

LEMMA IssuesFollow == IssueInv => Issues!CountsAreDeltas /\ Issues!SpansAreTrue /\ Issues!TailIsSent
BY IssuesCount DEF IssueInv, MergedHolds, Spans, OfPair, Issues!CountsAreDeltas, Issues!SpansAreTrue, Issues!TailIsSent

\* An exception is an issue of its own under every status but those that blame the input.
LEMMA ThrowsAreOne ==
  ASSUME NEW a, NEW b PROVE Issues!ThrowsAreOneIssue(a, b)
BY Zenon DEF Issues!ThrowsAreOneIssue, Issues!IssueFingerprint, Issues!ClassifyIssue

-----------------------------------------------------------------------------
(* The collector's views: what is kept of a service is what was said of it. *)

Ingested ==
  [kind : {"register"}, service : Service, hash : Hash]
  \union [kind : {"heartbeat"}, service : Service, instance : Instance, healthy : BOOLEAN, hash : Hash]
  \union [kind : {"trace"}, event : Event] \union [kind : {"issues"}, service : Service]
Reports == UNION {[D -> [healthy : BOOLEAN, hash : Hash]] : D \in SUBSET Instance}
ServiceState ==
  [registered : BOOLEAN, hash : Hash \union {None}, instances : Reports, invocations : Nat, errors : Nat, issuesFeedSeen : BOOLEAN]
TopicState == [counts : [Status -> Nat], invocations : Nat, errors : Nat]

\* The places of an instance's heartbeats, and of a topic's events of a status.
Beats(s, i) == {k \in Fleet!Sent("heartbeat", s) : messages[k].instance = i}
Ended(t, x) == {k \in Fleet!On(t) : messages[k].event.status = x}

\* What is kept of a service, and of a topic, is what the messages about it say.
ServiceIsTrue(s, state) ==
  /\ state \in ServiceState
  /\ state.registered <=> Fleet!Sent("register", s) # {}
  /\ Fleet!Sent("register", s) # {} => state.hash = Fleet!LatestDocument(s).hash
  /\ \A i \in Instance : i \in DOMAIN state.instances <=> Beats(s, i) # {}
  /\ \A i \in DOMAIN state.instances :
       /\ state.instances[i].healthy = Fleet!LatestHeartbeat(s, i).healthy
       /\ state.instances[i].hash = Fleet!LatestHeartbeat(s, i).hash
  /\ state.invocations = Cardinality(Fleet!Owned(s)) /\ state.errors = Cardinality(Fleet!Failed(Fleet!Owned(s)))
  /\ state.issuesFeedSeen <=> Fleet!Sent("issues", s) # {}

TopicIsTrue(t, state) ==
  /\ state \in TopicState
  /\ state.invocations = Cardinality(Fleet!On(t)) /\ state.errors = Cardinality(Fleet!Failed(Fleet!On(t)))
  /\ \A x \in Status : state.counts[x] = Cardinality(Ended(t, x))

Kinds == {"register", "heartbeat", "issues"}

ServicesAreTrue ==
  /\ DOMAIN services \subseteq Service
  /\ \A s \in Service :
       /\ ServiceIsTrue(s, Fleet!Of(services, s, Fleet!NewService))
       /\ s \in DOMAIN services <=>
            Fleet!Owned(s) # {} \/ \E kind \in Kinds : Fleet!Sent(kind, s) # {}

FleetInv ==
  /\ messages \in Seq(Ingested) /\ ring \in Seq(Event)
  /\ ServicesAreTrue /\ DOMAIN topics \subseteq Topic
  /\ \A t \in Topic : TopicIsTrue(t, Fleet!Of(topics, t, Fleet!NewTopic))

LEMMA FleetCount == \A S : Fleet!Cardinality(S) = Cardinality(S)
BY DEF Fleet!Cardinality, Cardinality

LEMMA LastIsThere ==
  ASSUME NEW n \in Nat, NEW P \in SUBSET (1..n), P # {}
  PROVE  Fleet!Last(P) \in P
<1> DEFINE Bounds == {u \in Nat : \A k \in P : k <= u}
<1>1. Bounds \in SUBSET Nat /\ n \in Bounds
  OBVIOUS
<1>2. PICK u \in Bounds : \A w \in Bounds : u <= w
  <2> HIDE DEF Bounds
  <2> QED
    BY <1>1, LeastNumber
<1>3. u \in P
  <2> SUFFICES ASSUME u \notin P PROVE FALSE
    OBVIOUS
  <2>1. \A k \in P : k \in Nat \ {0} /\ k <= u /\ k # u
    OBVIOUS
  <2>2. u \in Nat /\ P # {}
    OBVIOUS
  <2>3. PICK k \in P : TRUE
    BY <2>2
  <2>4. u - 1 \in Nat
    BY <2>1, <2>2, <2>3
  <2>5. ASSUME NEW j \in P PROVE j <= u - 1
    BY <2>1, <2>2, <2>5
  <2>6. u - 1 \in Bounds
    BY <2>4, <2>5
  <2> QED
    BY <1>2, <2>2, <2>6
<1> QED
  BY <1>3 DEF Fleet!Last

LEMMA LastOfGrown ==
  ASSUME NEW n \in Nat, NEW P \in SUBSET (1..n)
  PROVE  Fleet!Last(P \union {n + 1}) = n + 1
<1> DEFINE Q == P \union {n + 1}
<1>1. \A j \in Q : j <= n + 1
  OBVIOUS
<1>2. n + 1 \in Q /\ \A k \in Q : (\A j \in Q : j <= k) => k = n + 1
  <2>1. \A k \in Q : k \in Nat /\ k <= n + 1
    OBVIOUS
  <2> QED
    BY <2>1
<1> HIDE DEF Q
<1>3. Fleet!Last(Q) = n + 1
  BY <1>1, <1>2 DEF Fleet!Last
<1> QED
  BY <1>3 DEF Q

\* These places, and the next one if it is one of them.
Grown(P, n, c) == P \union IF c THEN {n + 1} ELSE {}

LEMMA OneMore ==
  ASSUME NEW n \in Nat, NEW P \in SUBSET (1..n), NEW c \in BOOLEAN
  PROVE  Cardinality(P) \in Nat /\ Cardinality(Grown(P, n, c)) = Cardinality(P) + Fleet!One(c)
<1>1. IsFiniteSet(P) /\ Cardinality(P) \in Nat /\ n + 1 \notin P
  <2>1. IsFiniteSet(1..n)
    BY FS_Interval
  <2>2. IsFiniteSet(P)
    BY <2>1, FS_Subset, Zenon
  <2> QED
    BY <2>2, FS_CardinalityType
<1>2. CASE c
  <2>1. Grown(P, n, c) = P \union {n + 1} /\ Fleet!One(c) = 1
    BY <1>2 DEF Grown, Fleet!One
  <2> QED
    BY <1>1, <2>1, FS_AddElement, Zenon
<1>3. CASE ~c
  <2>1. Grown(P, n, c) = P /\ Fleet!One(c) = 0
    BY <1>3 DEF Grown, Fleet!One
  <2> QED
    BY <1>1, <2>1
<1> QED
  BY <1>2, <1>3

LEMMA PlacesAreInTheLog ==
  LET L == 1..Len(messages) IN
  /\ \A kind, s : Fleet!Sent(kind, s) \in SUBSET L
  /\ \A s, i : Beats(s, i) \in SUBSET L
  /\ \A s : Fleet!Owned(s) \in SUBSET L /\ Fleet!Failed(Fleet!Owned(s)) \in SUBSET L
  /\ \A t : Fleet!On(t) \in SUBSET L /\ Fleet!Failed(Fleet!On(t)) \in SUBSET L
  /\ \A t, x : Ended(t, x) \in SUBSET L
BY DEF Fleet!Sent, Beats, Fleet!Owned, Fleet!On, Fleet!Failed, Fleet!Events, Ended

\* A message's place is one of those of its kind, its service and what it says.
LEMMA LogGrows ==
  ASSUME messages \in Seq(Ingested), NEW m \in Ingested, messages' = Append(messages, m), NEW n, n = Len(messages)
  PROVE  /\ n \in Nat /\ Len(messages') = n + 1 /\ messages' \in Seq(Ingested) /\ messages'[n + 1] = m
         /\ \A k \in 1..n : messages'[k] = messages[k]
         /\ \A kind, s : Fleet!Sent(kind, s)' = Grown(Fleet!Sent(kind, s), n, m.kind = kind /\ m.service = s)
         /\ \A s, i : Beats(s, i)' = Grown(Beats(s, i), n, m.kind = "heartbeat" /\ m.service = s /\ m.instance = i)
         /\ \A s : Fleet!Owned(s)' = Grown(Fleet!Owned(s), n, m.kind = "trace" /\ m.event.service = s)
         /\ \A s : Fleet!Failed(Fleet!Owned(s))' =
                     Grown(Fleet!Failed(Fleet!Owned(s)), n, m.kind = "trace" /\ m.event.service = s /\ Fleet!IsFailure(m.event))
         /\ \A t : Fleet!On(t)' = Grown(Fleet!On(t), n, m.kind = "trace" /\ m.event.topic = t)
         /\ \A t : Fleet!Failed(Fleet!On(t))' =
                     Grown(Fleet!Failed(Fleet!On(t)), n, m.kind = "trace" /\ m.event.topic = t /\ Fleet!IsFailure(m.event))
         /\ \A t, x : Ended(t, x)' = Grown(Ended(t, x), n, m.kind = "trace" /\ m.event.topic = t /\ m.event.status = x)
<1>1. /\ n \in Nat /\ Len(messages') = n + 1 /\ messages' \in Seq(Ingested) /\ messages'[n + 1] = m
      /\ \A k \in 1..n : messages'[k] = messages[k]
  OBVIOUS
<1>2. /\ 1..Len(messages') = (1..n) \union {n + 1} /\ n + 1 \notin 1..n
  BY <1>1
<1> DEFINE old == messages
           new == messages'
<1>3. /\ new[n + 1] = m /\ \A k \in 1..n : new[k] = old[k]
      /\ Len(old) = n /\ 1..Len(new) = (1..n) \union {n + 1}
  BY <1>1, <1>2
<1>4. ASSUME NEW kind, NEW s PROVE Fleet!Sent(kind, s)' = Grown(Fleet!Sent(kind, s), n, m.kind = kind /\ m.service = s)
  BY <1>3 DEF Fleet!Sent, Grown
<1>5. Fleet!Events' = Grown(Fleet!Events, n, m.kind = "trace")
  BY <1>3 DEF Fleet!Events, Grown
<1>6. Fleet!Events \in SUBSET (1..n)
  BY DEF Fleet!Events
<1>7. ASSUME NEW s PROVE Fleet!Owned(s)' = Grown(Fleet!Owned(s), n, m.kind = "trace" /\ m.event.service = s)
  BY <1>3, <1>5, <1>6, Zenon DEF Fleet!Owned, Grown
<1>8. ASSUME NEW t PROVE Fleet!On(t)' = Grown(Fleet!On(t), n, m.kind = "trace" /\ m.event.topic = t)
  BY <1>3, <1>5, <1>6, Zenon DEF Fleet!On, Grown
<1>9. ASSUME NEW s PROVE Fleet!Failed(Fleet!Owned(s))' =
                     Grown(Fleet!Failed(Fleet!Owned(s)), n, m.kind = "trace" /\ m.event.service = s /\ Fleet!IsFailure(m.event))
  <2>1. Fleet!Owned(s) \in SUBSET (1..n)
    BY <1>6, Zenon DEF Fleet!Owned
  <2> QED
    BY <1>3, <1>7, <2>1 DEF Fleet!Failed, Grown, Fleet!IsFailure
<1>10. ASSUME NEW t PROVE Fleet!Failed(Fleet!On(t))' =
                     Grown(Fleet!Failed(Fleet!On(t)), n, m.kind = "trace" /\ m.event.topic = t /\ Fleet!IsFailure(m.event))
  <2>1. Fleet!On(t) \in SUBSET (1..n)
    BY <1>6, Zenon DEF Fleet!On
  <2> QED
    BY <1>3, <1>8, <2>1 DEF Fleet!Failed, Grown, Fleet!IsFailure
<1>11. ASSUME NEW t, NEW x PROVE Ended(t, x)' = Grown(Ended(t, x), n, m.kind = "trace" /\ m.event.topic = t /\ m.event.status = x)
  <2>1. Fleet!On(t) \in SUBSET (1..n)
    BY <1>6, Zenon DEF Fleet!On
  <2> QED
    BY <1>3, <1>8, <2>1 DEF Ended, Grown
<1>12. ASSUME NEW s, NEW i PROVE Beats(s, i)' = Grown(Beats(s, i), n, m.kind = "heartbeat" /\ m.service = s /\ m.instance = i)
  <2>1. Fleet!Sent("heartbeat", s) \in SUBSET (1..n)
    BY DEF Fleet!Sent
  <2> QED
    BY <1>3, <1>4, <2>1 DEF Beats, Grown
<1> QED
  BY <1>1, <1>4, <1>7, <1>8, <1>9, <1>10, <1>11, <1>12

LEMMA LatestGrows ==
  ASSUME messages \in Seq(Ingested), NEW m \in Ingested, messages' = Append(messages, m), NEW s
  PROVE  /\ IF m.kind = "register" /\ m.service = s THEN Fleet!LatestDocument(s)' = m
            ELSE Fleet!Sent("register", s) # {} => Fleet!LatestDocument(s)' = Fleet!LatestDocument(s)
         /\ \A i : IF m.kind = "heartbeat" /\ m.service = s /\ m.instance = i THEN Fleet!LatestHeartbeat(s, i)' = m
                   ELSE Beats(s, i) # {} => Fleet!LatestHeartbeat(s, i)' = Fleet!LatestHeartbeat(s, i)
<1> DEFINE n == Len(messages)
<1>1. /\ n \in Nat /\ messages'[n + 1] = m /\ \A k \in 1..n : messages'[k] = messages[k]
      /\ Fleet!Sent("register", s)' = Grown(Fleet!Sent("register", s), n, m.kind = "register" /\ m.service = s)
      /\ \A i : Beats(s, i)' = Grown(Beats(s, i), n, m.kind = "heartbeat" /\ m.service = s /\ m.instance = i)
  BY LogGrows
<1>2. Fleet!Sent("register", s) \in SUBSET (1..n) /\ \A i : Beats(s, i) \in SUBSET (1..n)
  BY PlacesAreInTheLog
<1> HIDE DEF n
<1>3. ASSUME NEW P \in SUBSET (1..n), NEW c \in BOOLEAN
      PROVE  IF c THEN messages'[Fleet!Last(Grown(P, n, c))] = m
             ELSE P # {} => messages'[Fleet!Last(Grown(P, n, c))] = messages[Fleet!Last(P)]
  <2>1. CASE c
    <3>1. Fleet!Last(Grown(P, n, c)) = n + 1
      BY <1>1, <2>1, LastOfGrown, Zenon DEF Grown
    <3> QED
      BY <1>1, <2>1, <3>1, Zenon
  <2>2. CASE ~c
    <3>1. Grown(P, n, c) = P
      BY <2>2 DEF Grown
    <3>2. P # {} => Fleet!Last(P) \in 1..n
      BY <1>1, LastIsThere, Zenon
    <3> QED
      BY <1>1, <2>2, <3>1, <3>2, Zenon
  <2> QED
    BY <2>1, <2>2, Zenon
<1>4. Fleet!LatestDocument(s) = messages[Fleet!Last(Fleet!Sent("register", s))] /\ Fleet!LatestDocument(s)' = messages'[Fleet!Last(Fleet!Sent("register", s)')]
  BY DEF Fleet!LatestDocument
<1>5. \A i : /\ Fleet!LatestHeartbeat(s, i) = messages[Fleet!Last(Beats(s, i))]
             /\ Fleet!LatestHeartbeat(s, i)' = messages'[Fleet!Last(Beats(s, i)')]
  BY DEF Fleet!LatestHeartbeat, Beats
<1>6. IF m.kind = "register" /\ m.service = s THEN Fleet!LatestDocument(s)' = m
      ELSE Fleet!Sent("register", s) # {} => Fleet!LatestDocument(s)' = Fleet!LatestDocument(s)
  BY <1>1, <1>2, <1>3, <1>4, Zenon
<1>7. ASSUME NEW i
      PROVE  IF m.kind = "heartbeat" /\ m.service = s /\ m.instance = i THEN Fleet!LatestHeartbeat(s, i)' = m
             ELSE Beats(s, i) # {} => Fleet!LatestHeartbeat(s, i)' = Fleet!LatestHeartbeat(s, i)
  <2> DEFINE c == m.kind = "heartbeat" /\ m.service = s /\ m.instance = i
             P == Beats(s, i)
  <2>1. P \in SUBSET (1..n) /\ c \in BOOLEAN /\ Beats(s, i)' = Grown(P, n, c)
    BY <1>1, <1>2
  <2> HIDE DEF c, P
  <2>2. IF c THEN messages'[Fleet!Last(Grown(P, n, c))] = m
        ELSE P # {} => messages'[Fleet!Last(Grown(P, n, c))] = messages[Fleet!Last(P)]
    BY <1>3, <2>1, Zenon
  <2>3. IF c THEN Fleet!LatestHeartbeat(s, i)' = m
        ELSE P # {} => Fleet!LatestHeartbeat(s, i)' = Fleet!LatestHeartbeat(s, i)
    BY <1>5, <2>1, <2>2, Zenon DEF P
  <2> QED
    BY <2>3 DEF c, P
<1> QED
  BY <1>6, <1>7

About(m, s) == IF m.kind = "trace" THEN m.event.service = s ELSE m.service = s

\* What a message does to the state of a service.
Follows(s, m, state, next) ==
  LET beat(i) == m.kind = "heartbeat" /\ m.service = s /\ m.instance = i
      event == m.kind = "trace" /\ m.event.service = s
  IN /\ next \in ServiceState
     /\ next.registered <=> state.registered \/ (m.kind = "register" /\ m.service = s)
     /\ next.hash = IF m.kind = "register" /\ m.service = s THEN m.hash ELSE state.hash
     /\ \A i \in Instance : i \in DOMAIN next.instances <=> i \in DOMAIN state.instances \/ beat(i)
     /\ \A i \in DOMAIN next.instances :
          /\ next.instances[i].healthy = IF beat(i) THEN m.healthy ELSE state.instances[i].healthy
          /\ next.instances[i].hash = IF beat(i) THEN m.hash ELSE state.instances[i].hash
     /\ next.invocations = state.invocations + Fleet!One(event)
     /\ next.errors = state.errors + Fleet!One(event /\ Fleet!IsFailure(m.event))
     /\ next.issuesFeedSeen <=> state.issuesFeedSeen \/ (m.kind = "issues" /\ m.service = s)

LEMMA InstancesAreKnown ==
  ASSUME NEW state \in ServiceState
  PROVE  /\ DOMAIN state.instances \subseteq Instance
         /\ \A i \in DOMAIN state.instances : state.instances[i] \in [healthy : BOOLEAN, hash : Hash]
<1>1. state.instances \in Reports
  BY DEF ServiceState
<1>2. PICK D \in SUBSET Instance : state.instances \in [D -> [healthy : BOOLEAN, hash : Hash]]
  BY <1>1 DEF Reports
<1> QED
  BY <1>2

LEMMA FollowsIsTrue ==
  ASSUME messages \in Seq(Ingested), NEW m \in Ingested, messages' = Append(messages, m),
         NEW s, NEW state, ServiceIsTrue(s, state), NEW next, Follows(s, m, state, next)
  PROVE  ServiceIsTrue(s, next)'
<1> DEFINE n == Len(messages)
           beat(i) == m.kind = "heartbeat" /\ m.service = s /\ m.instance = i
           event == m.kind = "trace" /\ m.event.service = s
<1>1. /\ n \in Nat
      /\ \A kind : Fleet!Sent(kind, s)' = Grown(Fleet!Sent(kind, s), n, m.kind = kind /\ m.service = s)
      /\ \A i : Beats(s, i)' = Grown(Beats(s, i), n, beat(i))
      /\ Fleet!Owned(s)' = Grown(Fleet!Owned(s), n, event)
      /\ Fleet!Failed(Fleet!Owned(s))' = Grown(Fleet!Failed(Fleet!Owned(s)), n, event /\ Fleet!IsFailure(m.event))
  BY LogGrows
<1>2. Fleet!Owned(s) \in SUBSET (1..n) /\ Fleet!Failed(Fleet!Owned(s)) \in SUBSET (1..n)
  BY PlacesAreInTheLog
<1>3. /\ \A kind : Fleet!Sent(kind, s)' # {} <=> Fleet!Sent(kind, s) # {} \/ (m.kind = kind /\ m.service = s)
      /\ \A i : Beats(s, i)' # {} <=> Beats(s, i) # {} \/ beat(i)
  BY <1>1, Zenon DEF Grown
<1>4. /\ state \in ServiceState
      /\ state.registered <=> Fleet!Sent("register", s) # {}
      /\ Fleet!Sent("register", s) # {} => state.hash = Fleet!LatestDocument(s).hash
      /\ \A i \in Instance : i \in DOMAIN state.instances <=> Beats(s, i) # {}
      /\ \A i \in DOMAIN state.instances :
           /\ state.instances[i].healthy = Fleet!LatestHeartbeat(s, i).healthy
           /\ state.instances[i].hash = Fleet!LatestHeartbeat(s, i).hash
      /\ state.invocations = Cardinality(Fleet!Owned(s)) /\ state.errors = Cardinality(Fleet!Failed(Fleet!Owned(s)))
      /\ state.issuesFeedSeen <=> Fleet!Sent("issues", s) # {}
  BY DEF ServiceIsTrue
<1>5. /\ next \in ServiceState
      /\ next.registered <=> state.registered \/ (m.kind = "register" /\ m.service = s)
      /\ next.hash = IF m.kind = "register" /\ m.service = s THEN m.hash ELSE state.hash
      /\ \A i \in Instance : i \in DOMAIN next.instances <=> i \in DOMAIN state.instances \/ beat(i)
      /\ \A i \in DOMAIN next.instances :
           /\ next.instances[i].healthy = IF beat(i) THEN m.healthy ELSE state.instances[i].healthy
           /\ next.instances[i].hash = IF beat(i) THEN m.hash ELSE state.instances[i].hash
      /\ next.invocations = state.invocations + Fleet!One(event)
      /\ next.errors = state.errors + Fleet!One(event /\ Fleet!IsFailure(m.event))
      /\ next.issuesFeedSeen <=> state.issuesFeedSeen \/ (m.kind = "issues" /\ m.service = s)
  BY DEF Follows
<1>6. /\ IF m.kind = "register" /\ m.service = s THEN Fleet!LatestDocument(s)' = m
         ELSE Fleet!Sent("register", s) # {} => Fleet!LatestDocument(s)' = Fleet!LatestDocument(s)
      /\ \A i : IF beat(i) THEN Fleet!LatestHeartbeat(s, i)' = m
                ELSE Beats(s, i) # {} => Fleet!LatestHeartbeat(s, i)' = Fleet!LatestHeartbeat(s, i)
  BY LatestGrows, Zenon
<1>7. /\ next.registered <=> Fleet!Sent("register", s)' # {}
      /\ Fleet!Sent("register", s)' # {} => next.hash = Fleet!LatestDocument(s)'.hash
      /\ next.issuesFeedSeen <=> Fleet!Sent("issues", s)' # {}
  BY <1>3, <1>4, <1>5, <1>6
<1>8. \A i \in Instance : i \in DOMAIN next.instances <=> Beats(s, i)' # {}
  BY <1>3, <1>4, <1>5
<1>9. ASSUME NEW i \in DOMAIN next.instances
      PROVE  /\ next.instances[i].healthy = Fleet!LatestHeartbeat(s, i)'.healthy
             /\ next.instances[i].hash = Fleet!LatestHeartbeat(s, i)'.hash
  <2>1. i \in Instance
    BY <1>5, InstancesAreKnown
  <2>2. CASE beat(i)
    BY <1>5, <1>6, <1>9, <2>2
  <2>3. CASE ~beat(i)
    <3>1. i \in DOMAIN state.instances /\ Beats(s, i) # {}
      BY <1>4, <1>5, <1>9, <2>1, <2>3
    <3> QED
      BY <1>4, <1>5, <1>6, <1>9, <2>3, <3>1
  <2> QED
    BY <2>2, <2>3
<1>10. next.invocations = Cardinality(Fleet!Owned(s)') /\ next.errors = Cardinality(Fleet!Failed(Fleet!Owned(s))')
  <2>1. Cardinality(Fleet!Owned(s)') = Cardinality(Fleet!Owned(s)) + Fleet!One(event)
    BY <1>1, <1>2, OneMore, Zenon
  <2>2. Cardinality(Fleet!Failed(Fleet!Owned(s))') = Cardinality(Fleet!Failed(Fleet!Owned(s))) + Fleet!One(event /\ Fleet!IsFailure(m.event))
    <3>1. (event /\ Fleet!IsFailure(m.event)) \in BOOLEAN
      OBVIOUS
    <3> QED
      BY <1>1, <1>2, <3>1, OneMore, Zenon
  <2> QED
    BY <1>4, <1>5, <2>1, <2>2
<1> QED
  BY <1>5, <1>7, <1>8, <1>9, <1>10 DEF ServiceIsTrue

\* A message about others leaves a service as it is.
LEMMA OthersStay ==
  ASSUME NEW m \in Ingested, NEW s, ~About(m, s), NEW state \in ServiceState
  PROVE  Follows(s, m, state, state)
<1>1. state.invocations \in Nat /\ state.errors \in Nat
  BY DEF ServiceState
<1>2. ~(m.kind = "trace" /\ m.event.service = s) /\ (m.kind # "trace" => m.service # s)
  BY DEF About
<1>3. Fleet!One(FALSE) = 0
  BY DEF Fleet!One
<1> QED
  BY <1>1, <1>2 DEF Follows, Fleet!One

\* A service that the message is about is known from then on, and follows it; the others stay.
LEMMA ServicesFollow ==
  ASSUME messages \in Seq(Ingested), NEW m \in Ingested, messages' = Append(messages, m), ServicesAreTrue,
         DOMAIN services' = DOMAIN services \union {s \in Service : About(m, s)},
         \A s \in Service : LET state == Fleet!Of(services, s, Fleet!NewService)
                                next == Fleet!Of(services', s, Fleet!NewService)
                            IN IF About(m, s) THEN state \in ServiceState => Follows(s, m, state, next) ELSE next = state
  PROVE  ServicesAreTrue'
<1>1. /\ \A kind, s : Fleet!Sent(kind, s)' = Grown(Fleet!Sent(kind, s), Len(messages), m.kind = kind /\ m.service = s)
      /\ \A s : Fleet!Owned(s)' = Grown(Fleet!Owned(s), Len(messages), m.kind = "trace" /\ m.event.service = s)
  BY LogGrows
<1>2. ASSUME NEW s \in Service PROVE ServiceIsTrue(s, Fleet!Of(services, s, Fleet!NewService))'
  <2> DEFINE state == Fleet!Of(services, s, Fleet!NewService)
             next == Fleet!Of(services', s, Fleet!NewService)
  <2>1. ServiceIsTrue(s, state) /\ state \in ServiceState
    BY DEF ServicesAreTrue, ServiceIsTrue
  <2>2. Follows(s, m, state, next)
    BY <2>1, OthersStay
  <2> HIDE DEF state
  <2>3. PICK q : q = next
    OBVIOUS
  <2>4. ServiceIsTrue(s, q)'
    BY <2>1, <2>2, <2>3, FollowsIsTrue
  <2>5. Fleet!Of(services, s, Fleet!NewService)' = q
    BY <2>3
  <2> QED
    BY <2>4, <2>5 DEF ServiceIsTrue
<1>3. \A s : /\ \A kind : Fleet!Sent(kind, s)' # {} <=> Fleet!Sent(kind, s) # {} \/ (m.kind = kind /\ m.service = s)
             /\ Fleet!Owned(s)' # {} <=> Fleet!Owned(s) # {} \/ (m.kind = "trace" /\ m.event.service = s)
  BY <1>1, Zenon DEF Grown
<1>4. m.kind = "trace" \/ m.kind \in Kinds
  BY DEF Ingested, Kinds
<1>5. ASSUME NEW s \in Service
      PROVE  s \in DOMAIN services' <=>
               Fleet!Owned(s)' # {} \/ \E kind \in Kinds : Fleet!Sent(kind, s)' # {}
  <2>1. s \in DOMAIN services <=> Fleet!Owned(s) # {} \/ \E kind \in Kinds : Fleet!Sent(kind, s) # {}
    BY DEF ServicesAreTrue
  <2>2. s \in DOMAIN services' <=> s \in DOMAIN services \/ About(m, s)
    BY <1>5
  <2>3. About(m, s) <=> (m.kind = "trace" /\ m.event.service = s) \/ \E kind \in Kinds : m.kind = kind /\ m.service = s
    BY <1>4 DEF About, Kinds
  <2> QED
    BY <1>3, <2>1, <2>2, <2>3, Zenon
<1>6. DOMAIN services' \subseteq Service
  BY DEF ServicesAreTrue
<1> QED
  BY <1>2, <1>5, <1>6 DEF ServicesAreTrue

LEMMA OfWith ==
  ASSUME NEW map, NEW key, NEW value, NEW fresh, NEW k
  PROVE  Fleet!Of(Fleet!With(map, key, value), k, fresh) = IF k = key THEN value ELSE Fleet!Of(map, k, fresh)
BY DEF Fleet!With, Fleet!Of

LEMMA OneServiceFollows ==
  ASSUME FleetInv, NEW m \in Ingested, messages' = Append(messages, m), NEW s \in Service,
         \A x \in Service : About(m, x) <=> x = s,
         NEW state, state = Fleet!Of(services, s, Fleet!NewService), NEW next, services' = Fleet!With(services, s, next),
         state \in ServiceState => Follows(s, m, state, next)
  PROVE  ServicesAreTrue'
<1>1. /\ DOMAIN services' = DOMAIN services \union {s}
      /\ \A k : Fleet!Of(services', k, Fleet!NewService) = IF k = s THEN next ELSE Fleet!Of(services, k, Fleet!NewService)
  <2>1. \A k : Fleet!Of(Fleet!With(services, s, next), k, Fleet!NewService) = IF k = s THEN next ELSE Fleet!Of(services, k, Fleet!NewService)
    BY OfWith
  <2>2. DOMAIN Fleet!With(services, s, next) = DOMAIN services \union {s}
    BY DEF Fleet!With
  <2> QED
    BY <2>1, <2>2
<1>2. {x \in Service : About(m, x)} = {s}
  OBVIOUS
<1>3. messages \in Seq(Ingested) /\ ServicesAreTrue
  BY DEF FleetInv
<1> QED
  BY <1>1, <1>2, <1>3, ServicesFollow

\* The messages that are no events leave the topics as they are.
LEMMA TopicsStay ==
  ASSUME FleetInv, NEW m \in Ingested, messages' = Append(messages, m), m.kind # "trace", UNCHANGED <<topics, ring, cursor>>, ServicesAreTrue'
  PROVE  FleetInv'
<1>1. /\ messages' \in Seq(Ingested)
      /\ \A t : Fleet!On(t)' = Fleet!On(t) /\ Fleet!Failed(Fleet!On(t))' = Fleet!Failed(Fleet!On(t))
      /\ \A t, x : Ended(t, x)' = Ended(t, x)
  <2>1. messages \in Seq(Ingested)
    BY DEF FleetInv
  <2> DEFINE n == Len(messages)
  <2>2. /\ messages' \in Seq(Ingested)
        /\ \A t : Fleet!On(t)' = Grown(Fleet!On(t), n, m.kind = "trace" /\ m.event.topic = t)
        /\ \A t : Fleet!Failed(Fleet!On(t))' = Grown(Fleet!Failed(Fleet!On(t)), n, m.kind = "trace" /\ m.event.topic = t /\ Fleet!IsFailure(m.event))
        /\ \A t, x : Ended(t, x)' = Grown(Ended(t, x), n, m.kind = "trace" /\ m.event.topic = t /\ m.event.status = x)
    BY <2>1, LogGrows
  <2> QED
    BY <2>2, Zenon DEF Grown
<1>2. ASSUME NEW t \in Topic PROVE TopicIsTrue(t, Fleet!Of(topics, t, Fleet!NewTopic))'
  <2>1. PICK q : q = Fleet!Of(topics, t, Fleet!NewTopic)
    OBVIOUS
  <2>2. TopicIsTrue(t, q)
    BY <2>1 DEF FleetInv
  <2>3. Fleet!Of(topics, t, Fleet!NewTopic)' = q
    BY <2>1
  <2> QED
    BY <1>1, <2>2, <2>3 DEF TopicIsTrue
<1> QED
  BY <1>1, <1>2 DEF FleetInv

LEMMA RegisterKept == ASSUME FleetInv, NEW s \in Service, NEW hash \in Hash, Fleet!Register(s, hash) PROVE FleetInv'
<1> DEFINE m == [kind |-> "register", service |-> s, hash |-> hash]
           state == Fleet!Of(services, s, Fleet!NewService)
           next == [state EXCEPT !.registered = TRUE, !.hash = hash]
<1>1. messages' = Append(messages, m) /\ services' = Fleet!With(services, s, next) /\ UNCHANGED <<topics, ring, cursor>>
  BY DEF Fleet!Register, Fleet!Ingest, Fleet!Update
<1>2. m \in Ingested /\ m.kind = "register" /\ m.service = s /\ m.hash = hash
  BY DEF Ingested
<1>3. \A x \in Service : About(m, x) <=> x = s
  BY <1>2 DEF About
<1> HIDE DEF m, state
<1>4. ASSUME state \in ServiceState PROVE Follows(s, m, state, next)
  <2>1. /\ next \in ServiceState /\ next.registered = TRUE /\ next.hash = hash /\ next.instances = state.instances
        /\ next.invocations = state.invocations /\ next.errors = state.errors /\ next.issuesFeedSeen = state.issuesFeedSeen
        /\ state.invocations \in Nat /\ state.errors \in Nat
    BY <1>4, Zenon DEF ServiceState
  <2> HIDE DEF next
  <2> QED
    BY <1>2, <2>1 DEF Follows, Fleet!One
<1>5. ServicesAreTrue'
  BY <1>1, <1>2, <1>3, <1>4, OneServiceFollows DEF state
<1> QED
  BY <1>1, <1>2, <1>5, TopicsStay

LEMMA AddIssuesKept == ASSUME FleetInv, NEW s \in Service, Fleet!AddIssues(s) PROVE FleetInv'
<1> DEFINE m == [kind |-> "issues", service |-> s]
           state == Fleet!Of(services, s, Fleet!NewService)
           next == [state EXCEPT !.issuesFeedSeen = TRUE]
<1>1. messages' = Append(messages, m) /\ services' = Fleet!With(services, s, next) /\ UNCHANGED <<topics, ring, cursor>>
  BY DEF Fleet!AddIssues, Fleet!Ingest, Fleet!Update
<1>2. m \in Ingested /\ m.kind = "issues" /\ m.service = s
  BY DEF Ingested
<1>3. \A x \in Service : About(m, x) <=> x = s
  BY <1>2 DEF About
<1> HIDE DEF m, state
<1>4. ASSUME state \in ServiceState PROVE Follows(s, m, state, next)
  <2>1. /\ next \in ServiceState /\ next.registered = state.registered /\ next.hash = state.hash /\ next.instances = state.instances
        /\ next.invocations = state.invocations /\ next.errors = state.errors /\ next.issuesFeedSeen = TRUE
        /\ state.invocations \in Nat /\ state.errors \in Nat
    BY <1>4, Zenon DEF ServiceState
  <2> HIDE DEF next
  <2> QED
    BY <1>2, <2>1 DEF Follows, Fleet!One
<1>5. ServicesAreTrue'
  BY <1>1, <1>2, <1>3, <1>4, OneServiceFollows, Zenon DEF state
<1> QED
  BY <1>1, <1>2, <1>5, TopicsStay

LEMMA HeartbeatKept ==
  ASSUME FleetInv, NEW s \in Service, NEW i \in Instance, NEW healthy \in BOOLEAN, NEW hash \in Hash, Fleet!Heartbeat(s, i, healthy, hash)
  PROVE  FleetInv'
<1> DEFINE m == [kind |-> "heartbeat", service |-> s, instance |-> i, healthy |-> healthy, hash |-> hash]
           state == Fleet!Of(services, s, Fleet!NewService)
           reports == Fleet!With(state.instances, i, [healthy |-> healthy, hash |-> hash])
           next == [state EXCEPT !.instances = reports]
<1>1. messages' = Append(messages, m) /\ services' = Fleet!With(services, s, next) /\ UNCHANGED <<topics, ring, cursor>>
  BY DEF Fleet!Heartbeat, Fleet!Ingest, Fleet!Update
<1>2. m \in Ingested /\ m.kind = "heartbeat" /\ m.service = s /\ m.instance = i /\ m.healthy = healthy /\ m.hash = hash
  BY DEF Ingested
<1>3. \A x \in Service : About(m, x) <=> x = s
  BY <1>2 DEF About
<1> HIDE DEF m, state
<1>4. ASSUME state \in ServiceState PROVE Follows(s, m, state, next)
  <2> DEFINE report == [healthy |-> healthy, hash |-> hash]
  <2>1. report \in [healthy : BOOLEAN, hash : Hash] /\ report.healthy = healthy /\ report.hash = hash
    OBVIOUS
  <2> HIDE DEF report
  <2>2. /\ DOMAIN state.instances \subseteq Instance
        /\ \A k \in DOMAIN state.instances : state.instances[k] \in [healthy : BOOLEAN, hash : Hash]
    BY <1>4, InstancesAreKnown
  <2>3. /\ reports = [k \in DOMAIN state.instances \union {i} |-> IF k = i THEN report ELSE state.instances[k]]
    BY DEF Fleet!With, report
  <2> HIDE DEF reports
  <2>4. reports \in Reports
    <3>1. DOMAIN state.instances \union {i} \in SUBSET Instance
      BY <2>2
    <3>2. reports \in [DOMAIN state.instances \union {i} -> [healthy : BOOLEAN, hash : Hash]]
      BY <2>1, <2>2, <2>3
    <3> QED
      BY <3>1, <3>2 DEF Reports
  <2>5. /\ next \in ServiceState /\ next.registered = state.registered /\ next.hash = state.hash /\ next.instances = reports
        /\ next.invocations = state.invocations /\ next.errors = state.errors /\ next.issuesFeedSeen = state.issuesFeedSeen
        /\ state.invocations \in Nat /\ state.errors \in Nat
    BY <1>4, <2>4 DEF ServiceState
  <2> HIDE DEF next
  <2>6. \A k \in Instance : k \in DOMAIN next.instances <=> k \in DOMAIN state.instances \/ (m.kind = "heartbeat" /\ m.service = s /\ m.instance = k)
    BY <1>2, <2>3, <2>5
  <2>7. \A k \in DOMAIN next.instances :
          /\ next.instances[k].healthy = IF m.kind = "heartbeat" /\ m.service = s /\ m.instance = k THEN m.healthy ELSE state.instances[k].healthy
          /\ next.instances[k].hash = IF m.kind = "heartbeat" /\ m.service = s /\ m.instance = k THEN m.hash ELSE state.instances[k].hash
    BY <1>2, <2>1, <2>3, <2>5
  <2> QED
    BY <1>2, <2>5, <2>6, <2>7 DEF Follows, Fleet!One
<1>5. ServicesAreTrue'
  BY <1>1, <1>2, <1>3, <1>4, OneServiceFollows DEF state
<1> QED
  BY <1>1, <1>2, <1>5, TopicsStay

\* A sequence written at one place is one with another member there.
LEMMA SlotIsWritten ==
  ASSUME NEW S, NEW q \in Seq(S), NEW i, NEW x \in S
  PROVE  /\ [q EXCEPT ![i] = x] \in Seq(S) /\ Len([q EXCEPT ![i] = x]) = Len(q)
         /\ \A j \in 1..Len(q) : [q EXCEPT ![i] = x][j] = IF j = i THEN x ELSE q[j]
<1> DEFINE w == [q EXCEPT ![i] = x]
<1>1. q \in [1..Len(q) -> S] /\ Len(q) \in Nat
  OBVIOUS
<1>2. w \in [1..Len(q) -> S] /\ \A j \in 1..Len(q) : w[j] = IF j = i THEN x ELSE q[j]
  BY <1>1
<1> HIDE DEF w
<1>3. w \in Seq(S) /\ Len(w) = Len(q)
  BY <1>1, <1>2
<1> QED
  BY <1>2, <1>3 DEF w

LEMMA AddEventKept == ASSUME FleetInv, NEW event \in Event, Fleet!AddEvent(event) PROVE FleetInv'
<1> DEFINE m == [kind |-> "trace", event |-> event]
           state == Fleet!Of(services, event.service, Fleet!NewService)
           next == [state EXCEPT !.invocations = @ + 1, !.errors = @ + Fleet!One(Fleet!IsFailure(event))]
           topic == Fleet!Of(topics, event.topic, Fleet!NewTopic)
           counted == [topic EXCEPT !.invocations = @ + 1, !.counts[event.status] = @ + 1, !.errors = @ + Fleet!One(Fleet!IsFailure(event))]
<1>1. /\ messages' = Append(messages, m)
      /\ ring' = IF Len(ring) < Capacity THEN Append(ring, event) ELSE [ring EXCEPT ![cursor + 1] = event]
      /\ topics' = Fleet!With(topics, event.topic, counted)
      /\ IF event.service = None THEN UNCHANGED services ELSE services' = Fleet!With(services, event.service, next)
  BY DEF Fleet!AddEvent, Fleet!RecordSpan, Fleet!Ingest, Fleet!Update, Fleet!CountTopic
<1>2. m \in Ingested /\ m.kind = "trace" /\ m.event = event
  BY DEF Ingested
<1>3. /\ event.service \in Service \union {None} /\ event.topic \in Topic /\ event.status \in Status
      /\ None \notin Service
  BY FleetAssumption
<1>4. ring' \in Seq(Event)
  <2>1. ring \in Seq(Event)
    BY DEF FleetInv
  <2>2. Append(ring, event) \in Seq(Event)
    BY <2>1
  <2>3. [ring EXCEPT ![cursor + 1] = event] \in Seq(Event)
    BY <2>1, SlotIsWritten
  <2> QED
    BY <1>1, <2>2, <2>3
<1>5. messages \in Seq(Ingested) /\ ServicesAreTrue
  BY DEF FleetInv
<1> HIDE DEF m, state, topic
<1>6. Fleet!One(Fleet!IsFailure(event)) \in Nat /\ Fleet!One(TRUE) = 1 /\ Fleet!One(FALSE) = 0
  BY DEF Fleet!One
<1>7. ServicesAreTrue'
  <2>1. CASE event.service = None
    <3>1. \A x \in Service : ~About(m, x)
      BY <1>2, <1>3, <2>1 DEF About
    <3>2. DOMAIN services' = DOMAIN services \union {x \in Service : About(m, x)}
      BY <1>1, <2>1, <3>1, Zenon
    <3> QED
      BY <1>1, <1>2, <1>5, <2>1, <3>1, <3>2, ServicesFollow
  <2>2. CASE event.service # None
    <3>1. event.service \in Service /\ \A x \in Service : About(m, x) <=> x = event.service
      BY <1>2, <1>3, <2>2 DEF About
    <3>2. ASSUME state \in ServiceState PROVE Follows(event.service, m, state, next)
      <4>1. /\ next \in ServiceState /\ next.registered = state.registered /\ next.hash = state.hash /\ next.instances = state.instances
            /\ next.invocations = state.invocations + 1 /\ next.errors = state.errors + Fleet!One(Fleet!IsFailure(event))
            /\ next.issuesFeedSeen = state.issuesFeedSeen
        <5> DEFINE failed == Fleet!One(Fleet!IsFailure(event))
        <5>1. failed \in Nat
          BY <1>6
        <5> HIDE DEF failed
        <5>2. next = [state EXCEPT !.invocations = @ + 1, !.errors = @ + failed]
          BY DEF failed
        <5> HIDE DEF next
        <5>3. /\ state.invocations + 1 \in Nat /\ state.errors + failed \in Nat
              /\ state.registered \in BOOLEAN /\ state.issuesFeedSeen \in BOOLEAN /\ state.hash \in Hash \union {None} /\ state.instances \in Reports
          BY <3>2, <5>1 DEF ServiceState
        <5>4. next = [registered |-> state.registered, hash |-> state.hash, instances |-> state.instances,
                      invocations |-> state.invocations + 1, errors |-> state.errors + failed, issuesFeedSeen |-> state.issuesFeedSeen]
          BY <3>2, <5>2, Zenon DEF ServiceState
        <5>5. /\ next \in ServiceState /\ next.registered = state.registered /\ next.hash = state.hash /\ next.instances = state.instances
              /\ next.invocations = state.invocations + 1 /\ next.errors = state.errors + failed /\ next.issuesFeedSeen = state.issuesFeedSeen
          BY <5>3, <5>4 DEF ServiceState
        <5> QED
          BY <5>5 DEF failed
      <4> HIDE DEF next
      <4>2. Fleet!One(m.kind = "trace" /\ m.event.service = event.service) = 1
        BY <1>2, <1>6, Zenon
      <4>3. Fleet!One((m.kind = "trace" /\ m.event.service = event.service) /\ Fleet!IsFailure(m.event)) = Fleet!One(Fleet!IsFailure(event))
        BY <1>2 DEF Fleet!One
      <4> QED
        BY <1>2, <4>1, <4>2, <4>3 DEF Follows
    <3> QED
      BY <1>1, <1>2, <2>2, <3>1, <3>2, OneServiceFollows DEF state
  <2> QED
    BY <2>1, <2>2
<1>8. /\ DOMAIN topics' = DOMAIN topics \union {event.topic}
      /\ \A k : Fleet!Of(topics', k, Fleet!NewTopic) = IF k = event.topic THEN counted ELSE Fleet!Of(topics, k, Fleet!NewTopic)
  <2> HIDE DEF counted
  <2>1. \A k : Fleet!Of(Fleet!With(topics, event.topic, counted), k, Fleet!NewTopic) = IF k = event.topic THEN counted ELSE Fleet!Of(topics, k, Fleet!NewTopic)
    BY OfWith
  <2>2. DOMAIN Fleet!With(topics, event.topic, counted) = DOMAIN topics \union {event.topic}
    BY DEF Fleet!With
  <2> QED
    BY <1>1, <2>1, <2>2
<1> DEFINE n == Len(messages)
<1>9. /\ n \in Nat /\ messages' \in Seq(Ingested)
      /\ \A t : Fleet!On(t)' = Grown(Fleet!On(t), n, m.kind = "trace" /\ m.event.topic = t)
      /\ \A t : Fleet!Failed(Fleet!On(t))' = Grown(Fleet!Failed(Fleet!On(t)), n, m.kind = "trace" /\ m.event.topic = t /\ Fleet!IsFailure(m.event))
      /\ \A t, x : Ended(t, x)' = Grown(Ended(t, x), n, m.kind = "trace" /\ m.event.topic = t /\ m.event.status = x)
  BY <1>1, <1>2, <1>5, LogGrows
<1>10. /\ \A t : Fleet!On(t) \in SUBSET (1..n) /\ Fleet!Failed(Fleet!On(t)) \in SUBSET (1..n)
       /\ \A t, x : Ended(t, x) \in SUBSET (1..n)
  BY PlacesAreInTheLog
<1> HIDE DEF n
<1>11. ASSUME NEW t \in Topic PROVE TopicIsTrue(t, Fleet!Of(topics, t, Fleet!NewTopic))'
  <2>1. PICK q : q = Fleet!Of(topics', t, Fleet!NewTopic)
    OBVIOUS
  <2>2. PICK old : old = Fleet!Of(topics, t, Fleet!NewTopic)
    OBVIOUS
  <2>3. /\ old \in TopicState /\ old.invocations = Cardinality(Fleet!On(t)) /\ old.errors = Cardinality(Fleet!Failed(Fleet!On(t)))
        /\ \A x \in Status : old.counts[x] = Cardinality(Ended(t, x))
    BY <2>2 DEF FleetInv, TopicIsTrue
  <2>4. /\ old.invocations \in Nat /\ old.errors \in Nat /\ old.counts \in [Status -> Nat]
    BY <2>3 DEF TopicState
  <2>5. /\ Cardinality(Fleet!On(t)') = Cardinality(Fleet!On(t)) + Fleet!One(event.topic = t)
        /\ Cardinality(Fleet!Failed(Fleet!On(t))') = Cardinality(Fleet!Failed(Fleet!On(t))) + Fleet!One(event.topic = t /\ Fleet!IsFailure(event))
        /\ \A x : Cardinality(Ended(t, x)') = Cardinality(Ended(t, x)) + Fleet!One(event.topic = t /\ event.status = x)
    <3>1. /\ Fleet!On(t)' = Grown(Fleet!On(t), n, event.topic = t)
          /\ Fleet!Failed(Fleet!On(t))' = Grown(Fleet!Failed(Fleet!On(t)), n, event.topic = t /\ Fleet!IsFailure(event))
          /\ \A x : Ended(t, x)' = Grown(Ended(t, x), n, event.topic = t /\ event.status = x)
      BY <1>2, <1>9 DEF Grown
    <3>2. /\ (event.topic = t) \in BOOLEAN /\ (event.topic = t /\ Fleet!IsFailure(event)) \in BOOLEAN
          /\ \A x : (event.topic = t /\ event.status = x) \in BOOLEAN
      OBVIOUS
    <3>3. Cardinality(Grown(Fleet!On(t), n, event.topic = t)) = Cardinality(Fleet!On(t)) + Fleet!One(event.topic = t)
      BY <1>9, <1>10, <3>2, OneMore, Zenon
    <3>4. Cardinality(Grown(Fleet!Failed(Fleet!On(t)), n, event.topic = t /\ Fleet!IsFailure(event)))
            = Cardinality(Fleet!Failed(Fleet!On(t))) + Fleet!One(event.topic = t /\ Fleet!IsFailure(event))
      BY <1>9, <1>10, <3>2, OneMore, Zenon
    <3>5. \A x : Cardinality(Grown(Ended(t, x), n, event.topic = t /\ event.status = x)) = Cardinality(Ended(t, x)) + Fleet!One(event.topic = t /\ event.status = x)
      BY <1>9, <1>10, <3>2, OneMore, Zenon
    <3> QED
      BY <3>1, <3>3, <3>4, <3>5
  <2>6. /\ q \in TopicState /\ q.invocations = old.invocations + Fleet!One(event.topic = t)
        /\ q.errors = old.errors + Fleet!One(event.topic = t /\ Fleet!IsFailure(event))
        /\ \A x \in Status : q.counts[x] = old.counts[x] + Fleet!One(event.topic = t /\ event.status = x)
    <3>1. CASE t = event.topic
      <4>1. q = counted /\ old = topic
        BY <1>8, <2>1, <2>2, <3>1 DEF topic
      <4>2. /\ counted \in TopicState /\ counted.invocations = topic.invocations + 1
            /\ counted.errors = topic.errors + Fleet!One(Fleet!IsFailure(event))
            /\ \A x \in Status : counted.counts[x] = IF x = event.status THEN topic.counts[x] + 1 ELSE topic.counts[x]
        <5> DEFINE failed == Fleet!One(Fleet!IsFailure(event))
                   counts == [topic.counts EXCEPT ![event.status] = @ + 1]
        <5>1. failed \in Nat /\ topic \in TopicState /\ topic.invocations \in Nat /\ topic.errors \in Nat /\ topic.counts \in [Status -> Nat]
          BY <1>6, <2>3, <2>4, <4>1
        <5>2. counts \in [Status -> Nat] /\ \A x \in Status : counts[x] = IF x = event.status THEN topic.counts[x] + 1 ELSE topic.counts[x]
          BY <1>3, <5>1
        <5> HIDE DEF failed, counts
        <5>3. counted = [topic EXCEPT !.invocations = @ + 1, !.counts = counts, !.errors = @ + failed]
          BY DEF failed, counts
        <5> HIDE DEF counted
        <5>4. counted = [counts |-> counts, invocations |-> topic.invocations + 1, errors |-> topic.errors + failed]
          BY <5>1, <5>3, Zenon DEF TopicState
        <5>5. counted \in TopicState /\ counted.invocations = topic.invocations + 1 /\ counted.errors = topic.errors + failed /\ counted.counts = counts
          BY <5>1, <5>2, <5>4 DEF TopicState
        <5> QED
          BY <5>2, <5>5 DEF failed
      <4> HIDE DEF counted
      <4> QED
        BY <2>4, <3>1, <4>1, <4>2 DEF Fleet!One
    <3>2. CASE t # event.topic
      <4>1. q = old
        BY <1>8, <2>1, <2>2, <3>2
      <4> QED
        BY <2>3, <2>4, <3>2, <4>1 DEF Fleet!One
    <3> QED
      BY <3>1, <3>2
  <2>7. TopicIsTrue(t, q)'
    BY <2>3, <2>5, <2>6 DEF TopicIsTrue
  <2>8. Fleet!Of(topics, t, Fleet!NewTopic)' = q
    BY <2>1
  <2> QED
    BY <2>7, <2>8 DEF TopicIsTrue
<1>12. DOMAIN topics' \subseteq Topic
  BY <1>3, <1>8 DEF FleetInv
<1> QED
  BY <1>4, <1>7, <1>9, <1>11, <1>12 DEF FleetInv

LEMMA FleetStart == Fleet!Init => FleetInv
<1> SUFFICES ASSUME Fleet!Init PROVE FleetInv
  OBVIOUS
<1>1. /\ services = <<>> /\ topics = <<>> /\ ring = <<>> /\ messages = <<>>
      /\ DOMAIN services = {} /\ DOMAIN topics = {} /\ Len(messages) = 0
  BY DEF Fleet!Init
<1>2. 1..Len(messages) = {}
  BY <1>1
<1>3. /\ \A kind, s : Fleet!Sent(kind, s) = {}
      /\ \A s, i : Beats(s, i) = {}
      /\ \A s : Fleet!Owned(s) = {} /\ Fleet!Failed(Fleet!Owned(s)) = {}
      /\ \A t : Fleet!On(t) = {} /\ Fleet!Failed(Fleet!On(t)) = {}
      /\ \A t, x : Ended(t, x) = {}
  BY <1>2, PlacesAreInTheLog
<1>4. Cardinality({}) = 0
  BY FS_EmptySet
<1>5. ASSUME NEW s \in Service PROVE ServiceIsTrue(s, Fleet!NewService)
  <2> DEFINE state == Fleet!NewService
  <2>1. /\ state.registered = FALSE /\ state.instances = <<>> /\ state.invocations = 0 /\ state.errors = 0 /\ state.issuesFeedSeen = FALSE
        /\ DOMAIN state.instances = {}
    BY DEF Fleet!NewService
  <2>2. <<>> \in Reports
    <3>1. <<>> \in [{} -> [healthy : BOOLEAN, hash : Hash]]
      OBVIOUS
    <3> QED
      BY <3>1, Zenon DEF Reports
  <2>3. state \in ServiceState
    BY <2>2 DEF Fleet!NewService, ServiceState
  <2>4. Cardinality(Fleet!Owned(s)) = 0 /\ Cardinality(Fleet!Failed(Fleet!Owned(s))) = 0
    BY <1>3, <1>4
  <2> HIDE DEF state
  <2> QED
    BY <1>3, <2>1, <2>3, <2>4 DEF ServiceIsTrue, state
<1>6. ASSUME NEW t \in Topic PROVE TopicIsTrue(t, Fleet!NewTopic)
  <2> DEFINE state == Fleet!NewTopic
  <2>1. state.counts = [x \in Status |-> 0] /\ state.invocations = 0 /\ state.errors = 0 /\ state \in TopicState
    BY DEF Fleet!NewTopic, TopicState
  <2>2. /\ Cardinality(Fleet!On(t)) = 0 /\ Cardinality(Fleet!Failed(Fleet!On(t))) = 0
        /\ \A x : Cardinality(Ended(t, x)) = 0
    BY <1>3, <1>4
  <2> HIDE DEF state
  <2> QED
    BY <2>1, <2>2 DEF TopicIsTrue, state
<1>7. /\ \A s : Fleet!Of(services, s, Fleet!NewService) = Fleet!NewService
      /\ \A t : Fleet!Of(topics, t, Fleet!NewTopic) = Fleet!NewTopic
  BY <1>1 DEF Fleet!Of
<1>8. ServicesAreTrue
  BY <1>1, <1>3, <1>5, <1>7 DEF ServicesAreTrue
<1>9. messages \in Seq(Ingested) /\ ring \in Seq(Event)
  BY <1>1
<1> QED
  BY <1>1, <1>6, <1>7, <1>8, <1>9 DEF FleetInv

LEMMA FleetInductive == FleetInv /\ [Fleet!Next]_fleetVars => FleetInv'
<1> SUFFICES ASSUME FleetInv, [Fleet!Next]_fleetVars PROVE FleetInv'
  OBVIOUS
<1>1. ASSUME NEW s \in Service, NEW hash \in Hash, Fleet!Register(s, hash) PROVE FleetInv'
  BY <1>1, RegisterKept
<1>2. ASSUME NEW s \in Service, NEW i \in Instance, NEW healthy \in BOOLEAN, NEW hash \in Hash, Fleet!Heartbeat(s, i, healthy, hash)
      PROVE  FleetInv'
  BY <1>2, HeartbeatKept
<1>3. ASSUME NEW event \in Event, Fleet!AddEvent(event) PROVE FleetInv'
  BY <1>3, AddEventKept
<1>4. ASSUME NEW s \in Service, Fleet!AddIssues(s) PROVE FleetInv'
  BY <1>4, AddIssuesKept
<1>5. CASE UNCHANGED fleetVars
  <2>1. UNCHANGED <<services, topics, ring, cursor, messages>>
    BY <1>5 DEF fleetVars
  <2>2. /\ \A kind, s : Fleet!Sent(kind, s)' = Fleet!Sent(kind, s)
        /\ Fleet!Events' = Fleet!Events
    BY <2>1 DEF Fleet!Sent, Fleet!Events
  <2>3. /\ \A s : Fleet!Owned(s)' = Fleet!Owned(s)
        /\ \A t : Fleet!On(t)' = Fleet!On(t)
        /\ \A s, i : Beats(s, i)' = Beats(s, i)
    BY <2>1, <2>2 DEF Fleet!Owned, Fleet!On, Beats
  <2>4. /\ \A s : Fleet!Failed(Fleet!Owned(s))' = Fleet!Failed(Fleet!Owned(s))
        /\ \A t : Fleet!Failed(Fleet!On(t))' = Fleet!Failed(Fleet!On(t))
        /\ \A t, x : Ended(t, x)' = Ended(t, x)
    BY <2>1, <2>3 DEF Fleet!Failed, Ended
  <2>5. /\ \A s : Fleet!LatestDocument(s)' = Fleet!LatestDocument(s)
        /\ \A s, i : Fleet!LatestHeartbeat(s, i)' = Fleet!LatestHeartbeat(s, i)
    BY <2>1, <2>2 DEF Fleet!LatestDocument, Fleet!LatestHeartbeat
  <2>6. ASSUME NEW s \in Service PROVE ServiceIsTrue(s, Fleet!Of(services, s, Fleet!NewService))'
    <3>1. PICK q : q = Fleet!Of(services, s, Fleet!NewService)
      OBVIOUS
    <3>2. ServiceIsTrue(s, q) /\ Fleet!Of(services, s, Fleet!NewService)' = q
      BY <2>1, <3>1 DEF FleetInv, ServicesAreTrue
    <3> QED
      BY <2>2, <2>3, <2>4, <2>5, <3>2 DEF ServiceIsTrue
  <2>7. ASSUME NEW t \in Topic PROVE TopicIsTrue(t, Fleet!Of(topics, t, Fleet!NewTopic))'
    <3>1. PICK q : q = Fleet!Of(topics, t, Fleet!NewTopic)
      OBVIOUS
    <3>2. TopicIsTrue(t, q) /\ Fleet!Of(topics, t, Fleet!NewTopic)' = q
      BY <2>1, <3>1 DEF FleetInv
    <3> QED
      BY <2>3, <2>4, <3>2 DEF TopicIsTrue
  <2>8. ServicesAreTrue'
    BY <2>1, <2>2, <2>3, <2>6 DEF FleetInv, ServicesAreTrue
  <2> QED
    BY <2>1, <2>7, <2>8 DEF FleetInv
<1> QED
  BY <1>1, <1>2, <1>3, <1>4, <1>5 DEF Fleet!Next

\* The window: how many events have arrived, how many of them before one, and the slots in
\* the order of their turns.
Arrived == Cardinality(Fleet!Events)
Earlier(k) == Cardinality({j \in Fleet!Events : j < k})

WindowInv ==
  /\ Len(ring) = IF Arrived < Capacity THEN Arrived ELSE Capacity
  /\ cursor \in 0..Capacity - 1 /\ (Len(ring) < Capacity => cursor = 0)
  /\ \A k \in Fleet!Events : Earlier(k) \in 0..Arrived - 1
  /\ \A i \in 1..Len(ring), k \in Fleet!Events :
       Earlier(k) + Len(ring) + 1 = Arrived + Fleet!Turn(i) => ring[i] = messages[k].event

\* What a message does to the events: it is the last of them, or none.
LEMMA EventsGrow ==
  ASSUME messages \in Seq(Ingested), NEW m \in Ingested, messages' = Append(messages, m), NEW n, n = Len(messages)
  PROVE  /\ n \in Nat /\ Arrived \in Nat /\ Fleet!Events \in SUBSET (1..n)
         /\ Fleet!Events' = IF m.kind = "trace" THEN Fleet!Events \union {n + 1} ELSE Fleet!Events
         /\ messages'[n + 1] = m /\ \A k \in Fleet!Events : messages'[k] = messages[k]
         /\ \A k \in Fleet!Events : Earlier(k)' = Earlier(k)
         /\ m.kind = "trace" => Arrived' = Arrived + 1 /\ Earlier(n + 1)' = Arrived
<1>1. /\ n \in Nat /\ Len(messages') = n + 1 /\ messages'[n + 1] = m /\ \A k \in 1..n : messages'[k] = messages[k]
  OBVIOUS
<1>2. Fleet!Events \in SUBSET (1..n)
  BY DEF Fleet!Events
<1>3. 1..Len(messages') = (1..n) \union {n + 1}
  BY <1>1
<1>4. Fleet!Events' = IF m.kind = "trace" THEN Fleet!Events \union {n + 1} ELSE Fleet!Events
  BY <1>1, <1>3 DEF Fleet!Events
<1>5. ASSUME NEW k \in Fleet!Events PROVE Earlier(k)' = Earlier(k)
  <2>1. {j \in Fleet!Events' : j < k} = {j \in Fleet!Events : j < k}
    BY <1>1, <1>2, <1>4
  <2> QED
    BY <2>1 DEF Earlier
<1>6. Fleet!Events \union {n + 1} = Grown(Fleet!Events, n, TRUE) /\ Fleet!One(TRUE) = 1
  BY Zenon DEF Grown, Fleet!One
<1>7. Arrived \in Nat /\ Cardinality(Grown(Fleet!Events, n, TRUE)) = Arrived + 1
  <2>1. Arrived \in Nat /\ Cardinality(Grown(Fleet!Events, n, TRUE)) = Arrived + Fleet!One(TRUE)
    BY <1>1, <1>2, OneMore, Zenon DEF Arrived
  <2> DEFINE grown == Cardinality(Grown(Fleet!Events, n, TRUE))
             one == Fleet!One(TRUE)
  <2>2. Arrived \in Nat /\ grown = Arrived + one /\ one = 1
    BY <1>6, <2>1, Zenon
  <2> HIDE DEF grown, one
  <2>3. grown = Arrived + 1
    BY <2>2
  <2> QED
    BY <2>2, <2>3, Zenon DEF grown
<1>8. ASSUME m.kind = "trace" PROVE Arrived' = Arrived + 1 /\ Earlier(n + 1)' = Arrived
  <2>1. Arrived' = Cardinality(Fleet!Events')
    BY DEF Arrived
  <2>2. {j \in Fleet!Events' : j < n + 1} = Fleet!Events
    <3>1. \A j \in Fleet!Events : j \in Nat /\ j < n + 1
      BY <1>1, <1>2
    <3>2. Fleet!Events' = Fleet!Events \union {n + 1} /\ ~(n + 1 < n + 1)
      BY <1>1, <1>4, <1>8
    <3> QED
      BY <3>1, <3>2, Zenon
  <2>3. Fleet!Events' = Grown(Fleet!Events, n, TRUE)
    BY <1>4, <1>6, <1>8, Zenon
  <2>4. Arrived' = Arrived + 1
    BY <1>7, <2>1, <2>3, Zenon
  <2> QED
    BY <2>2, <2>4 DEF Earlier, Arrived
<1> QED
  BY <1>1, <1>2, <1>4, <1>5, <1>7, <1>8

\* An event takes a slot, whose turn is the last from then on; the others' turns come nearer
\* when it was the oldest one's.
LEMMA SlotIsTaken ==
  ASSUME ring \in Seq(Event), WindowInv, NEW event \in Event, Fleet!RecordSpan(event), NEW N \in Nat, N = Arrived
  PROVE  \E slot \in 1..Len(ring') :
           /\ Len(ring') = IF N + 1 < Capacity THEN N + 1 ELSE Capacity
           /\ cursor' \in 0..Capacity - 1 /\ (Len(ring') < Capacity => cursor' = 0)
           /\ ring'[slot] = event /\ Fleet!Turn(slot)' = Len(ring')
           /\ \A i \in 1..Len(ring') : Fleet!Turn(i)' \in 1..Len(ring')
           /\ \A i \in 1..Len(ring') : i # slot =>
                /\ i \in 1..Len(ring) /\ ring'[i] = ring[i]
                /\ Fleet!Turn(i) + Len(ring') = Fleet!Turn(i)' + Len(ring) + 1 /\ Fleet!Turn(i)' # Len(ring')
<1>1. /\ Capacity \in Nat \ {0} /\ Len(ring) \in Nat /\ Len(ring) = IF N < Capacity THEN N ELSE Capacity
      /\ cursor \in 0..Capacity - 1 /\ (Len(ring) < Capacity => cursor = 0)
  BY FleetAssumption DEF WindowInv
<1>2. CASE Len(ring) < Capacity
  <2>1. ring' = Append(ring, event) /\ cursor' = cursor
    BY <1>2 DEF Fleet!RecordSpan
  <2>2. /\ Len(ring') = Len(ring) + 1 /\ ring'[Len(ring) + 1] = event
        /\ \A i \in 1..Len(ring) : ring'[i] = ring[i]
    BY <2>1
  <2>3. Len(ring) + 1 \in 1..Len(ring')
    BY <1>1, <2>2
  <2>4. \A i \in 1..Len(ring') : i # Len(ring) + 1 => i \in 1..Len(ring)
    BY <1>1, <2>2
  <2>5. \A i \in 1..Len(ring') : Fleet!Turn(i)' = i /\ Fleet!Turn(i) = i
    BY <1>1, <1>2, <2>1, <2>2 DEF Fleet!Turn
  <2> QED
    BY <1>1, <1>2, <2>1, <2>2, <2>3, <2>4, <2>5
<1>3. CASE ~(Len(ring) < Capacity)
  <2>0. PICK slot : slot = cursor + 1
    OBVIOUS
  <2>1. ring' = [ring EXCEPT ![cursor + 1] = event] /\ cursor' = (cursor + 1) % Capacity
    BY <1>3 DEF Fleet!RecordSpan
  <2>2. Len(ring) = Capacity /\ cursor + 1 \in 1..Capacity
    BY <1>1, <1>3
  <2>3. cursor' = IF cursor + 1 = Capacity THEN 0 ELSE cursor + 1
    BY <1>1, <2>1, <2>2
  <2>4. /\ Len(ring') = Capacity /\ ring'[cursor + 1] = event
        /\ \A i \in 1..Capacity : i # cursor + 1 => ring'[i] = ring[i]
    BY <2>1, <2>2, SlotIsWritten
  <2>5. Fleet!Turn(slot)' = Capacity
    BY <1>1, <2>0, <2>2, <2>3 DEF Fleet!Turn
  <2>6. ASSUME NEW i \in 1..Capacity, i # cursor + 1
        PROVE  Fleet!Turn(i) = Fleet!Turn(i)' + 1 /\ Fleet!Turn(i)' \in 1..Capacity /\ Fleet!Turn(i)' # Capacity
    BY <1>1, <2>2, <2>3, <2>6 DEF Fleet!Turn
  <2>7. N + 1 >= Capacity /\ cursor' \in 0..Capacity - 1
    BY <1>1, <1>3, <2>2, <2>3
  <2> QED
    <3>1. ASSUME NEW i \in 1..Len(ring'), i # slot
          PROVE  /\ i \in 1..Len(ring) /\ ring'[i] = ring[i]
                 /\ Fleet!Turn(i) + Len(ring') = Fleet!Turn(i)' + Len(ring) + 1 /\ Fleet!Turn(i)' # Len(ring')
                 /\ Fleet!Turn(i)' \in 1..Len(ring')
      <4>1. i \in 1..Capacity /\ i # cursor + 1
        BY <2>0, <2>4, <3>1
      <4>2. Fleet!Turn(i) = Fleet!Turn(i)' + 1 /\ Fleet!Turn(i)' \in 1..Capacity /\ Fleet!Turn(i)' # Capacity
        BY <2>6, <4>1
      <4> QED
        BY <2>2, <2>4, <4>1, <4>2
    <3>2. /\ slot \in 1..Len(ring') /\ ring'[slot] = event /\ Fleet!Turn(slot)' = Len(ring') /\ Len(ring') \in 1..Len(ring')
      BY <1>1, <2>0, <2>2, <2>4, <2>5
    <3>3. Len(ring') = (IF N + 1 < Capacity THEN N + 1 ELSE Capacity) /\ (Len(ring') < Capacity => cursor' = 0)
      BY <1>1, <1>3, <2>4
    <3>4. \A i \in 1..Len(ring') : Fleet!Turn(i)' \in 1..Len(ring')
      <4> TAKE i \in 1..Len(ring')
      <4>1. CASE i = slot
        BY <3>2, <4>1
      <4>2. CASE i # slot
        BY <3>1, <4>2
      <4> QED
        BY <4>1, <4>2
    <3> QED
      BY <2>7, <3>1, <3>2, <3>3, <3>4, Zenon
<1> QED
  BY <1>2, <1>3

LEMMA WindowMoves ==
  ASSUME FleetInv, WindowInv, NEW event \in Event, Fleet!AddEvent(event)
  PROVE  WindowInv'
<1> DEFINE m == [kind |-> "trace", event |-> event]
<1>0. PICK n, N : n = Len(messages) /\ N = Arrived
  OBVIOUS
<1>1. messages' = Append(messages, m) /\ Fleet!RecordSpan(event)
  BY DEF Fleet!AddEvent, Fleet!Ingest
<1>2. m \in Ingested /\ m.kind = "trace" /\ m.event = event
  BY DEF Ingested
<1>3. messages \in Seq(Ingested) /\ ring \in Seq(Event)
  BY DEF FleetInv
<1> HIDE DEF m
<1>4. /\ n \in Nat /\ N \in Nat /\ Fleet!Events \in SUBSET (1..n) /\ Fleet!Events' = Fleet!Events \union {n + 1}
      /\ messages'[n + 1] = m /\ \A k \in Fleet!Events : messages'[k] = messages[k]
      /\ \A k \in Fleet!Events : Earlier(k)' = Earlier(k)
      /\ Arrived' = N + 1 /\ Earlier(n + 1)' = N
  BY <1>0, <1>1, <1>2, <1>3, EventsGrow
<1>5. PICK slot \in 1..Len(ring') :
        /\ Len(ring') = IF N + 1 < Capacity THEN N + 1 ELSE Capacity
        /\ cursor' \in 0..Capacity - 1 /\ (Len(ring') < Capacity => cursor' = 0)
        /\ ring'[slot] = event /\ Fleet!Turn(slot)' = Len(ring')
        /\ \A i \in 1..Len(ring') : Fleet!Turn(i)' \in 1..Len(ring')
        /\ \A i \in 1..Len(ring') : i # slot =>
             /\ i \in 1..Len(ring) /\ ring'[i] = ring[i]
             /\ Fleet!Turn(i) + Len(ring') = Fleet!Turn(i)' + Len(ring) + 1 /\ Fleet!Turn(i)' # Len(ring')
  BY <1>0, <1>1, <1>3, <1>4, SlotIsTaken
<1>6. /\ \A k \in Fleet!Events : Earlier(k) \in 0..N - 1
      /\ \A i \in 1..Len(ring), k \in Fleet!Events : Earlier(k) + Len(ring) + 1 = N + Fleet!Turn(i) => ring[i] = messages[k].event
  BY <1>0 DEF WindowInv
<1>7. \A k \in Fleet!Events' : Earlier(k)' \in 0..Arrived' - 1
  <2> TAKE k \in Fleet!Events'
  <2>1. CASE k = n + 1
    BY <1>4, <2>1
  <2>2. CASE k # n + 1
    <3>1. k \in Fleet!Events /\ Earlier(k)' = Earlier(k) /\ Earlier(k) \in 0..N - 1
      BY <1>4, <1>6, <2>2
    <3> QED
      BY <1>4, <3>1
  <2> QED
    BY <2>1, <2>2
<1>8. /\ Len(ring) \in Nat /\ Len(ring') \in Nat /\ Capacity \in Nat \ {0} /\ Len(ring) = (IF N < Capacity THEN N ELSE Capacity)
      /\ \A i \in 1..Len(ring) : i \in Nat /\ Fleet!Turn(i) \in Int
  BY <1>0, <1>3, <1>4, <1>5, FleetAssumption DEF WindowInv, Fleet!Turn
<1>9. ASSUME NEW i \in 1..Len(ring'), NEW k \in Fleet!Events', Earlier(k)' + Len(ring') + 1 = Arrived' + Fleet!Turn(i)'
      PROVE  ring'[i] = messages'[k].event
  <2>1. CASE k = n + 1
    <3>0. Earlier(k)' = N /\ Arrived' = N + 1 /\ Fleet!Turn(i)' \in 1..Len(ring')
      BY <1>4, <1>5, <2>1
    <3>1. Fleet!Turn(i)' = Len(ring')
      BY <1>4, <1>8, <1>9, <3>0
    <3>2. i = slot
      BY <1>5, <3>1
    <3> QED
      BY <1>2, <1>4, <1>5, <2>1, <3>2
  <2>2. CASE k # n + 1
    <3>1. k \in Fleet!Events /\ Earlier(k)' = Earlier(k) /\ Earlier(k) \in 0..N - 1 /\ messages'[k] = messages[k]
      BY <1>4, <1>6, <2>2
    <3>2. i # slot
      BY <1>4, <1>5, <1>8, <1>9, <3>1
    <3>3. /\ i \in 1..Len(ring) /\ ring'[i] = ring[i]
          /\ Fleet!Turn(i) + Len(ring') = Fleet!Turn(i)' + Len(ring) + 1 /\ Fleet!Turn(i)' \in 1..Len(ring')
      BY <1>5, <3>2
    <3>4. Earlier(k) + Len(ring) + 1 = N + Fleet!Turn(i)
      <4>1. Earlier(k) + Len(ring') + 1 = N + 1 + Fleet!Turn(i)'
        BY <1>4, <1>9, <3>1
      <4>2. Earlier(k) \in Int /\ Fleet!Turn(i) \in Int /\ Fleet!Turn(i)' \in Int /\ Len(ring) \in Int /\ Len(ring') \in Int /\ N \in Int
        BY <1>4, <1>8, <3>1, <3>3
      <4>3. Fleet!Turn(i) + Len(ring') = Fleet!Turn(i)' + Len(ring) + 1
        BY <3>3
      <4>4. PICK before, slots, more, turn, nearer :
              /\ before = Earlier(k) /\ slots = Len(ring) /\ more = Len(ring')
              /\ turn = Fleet!Turn(i) /\ nearer = Fleet!Turn(i)'
        OBVIOUS
      <4>5. /\ before \in Int /\ slots \in Int /\ more \in Int /\ turn \in Int /\ nearer \in Int /\ N \in Int
            /\ before + more + 1 = N + 1 + nearer /\ turn + more = nearer + slots + 1
        BY <4>1, <4>2, <4>3, <4>4, Zenon
      <4>6. before + slots + 1 = N + turn
        BY <4>5
      <4> QED
        BY <4>4, <4>6, Zenon
    <3> QED
      BY <1>6, <3>1, <3>3, <3>4
  <2> QED
    BY <2>1, <2>2
<1>10. Len(ring') = IF Arrived' < Capacity THEN Arrived' ELSE Capacity
  BY <1>4, <1>5
<1> QED
  BY <1>5, <1>7, <1>9, <1>10 DEF WindowInv

\* Other messages leave it alone.
LEMMA QuietKeepsWindow ==
  ASSUME messages \in Seq(Ingested), WindowInv, NEW m \in Ingested, m.kind # "trace", messages' = Append(messages, m), UNCHANGED <<ring, cursor>>
  PROVE  WindowInv'
<1>1. /\ Fleet!Events' = Fleet!Events /\ \A k \in Fleet!Events : messages'[k] = messages[k]
      /\ \A k \in Fleet!Events : Earlier(k)' = Earlier(k)
  BY EventsGrow
<1>2. Arrived' = Arrived
  BY <1>1 DEF Arrived
<1>3. \A i : Fleet!Turn(i)' = Fleet!Turn(i)
  BY DEF Fleet!Turn
<1>4. /\ Len(ring') = IF Arrived' < Capacity THEN Arrived' ELSE Capacity
      /\ cursor' \in 0..Capacity - 1 /\ (Len(ring') < Capacity => cursor' = 0)
  BY <1>2 DEF WindowInv
<1>5. ASSUME NEW k \in Fleet!Events' PROVE Earlier(k)' \in 0..Arrived' - 1
  BY <1>1, <1>2, <1>5, Zenon DEF WindowInv
<1>6. ASSUME NEW i \in 1..Len(ring'), NEW k \in Fleet!Events', Earlier(k)' + Len(ring') + 1 = Arrived' + Fleet!Turn(i)'
      PROVE  ring'[i] = messages'[k].event
  <2>1. k \in Fleet!Events /\ messages'[k] = messages[k] /\ Earlier(k)' = Earlier(k)
    BY <1>1, <1>6
  <2>2. i \in 1..Len(ring) /\ ring' = ring /\ Fleet!Turn(i)' = Fleet!Turn(i)
    BY <1>3, <1>6
  <2>3. Earlier(k) + Len(ring) + 1 = Arrived + Fleet!Turn(i)
    BY <1>2, <1>6, <2>1, <2>2
  <2> QED
    BY <2>1, <2>2, <2>3 DEF WindowInv
<1> QED
  BY <1>4, <1>5, <1>6 DEF WindowInv

LEMMA WindowInductive == FleetInv /\ WindowInv /\ [Fleet!Next]_fleetVars => WindowInv'
<1> SUFFICES ASSUME FleetInv, WindowInv, [Fleet!Next]_fleetVars PROVE WindowInv'
  OBVIOUS
<1>0. messages \in Seq(Ingested)
  BY DEF FleetInv
<1>1. ASSUME NEW s \in Service, NEW hash \in Hash, Fleet!Register(s, hash) PROVE WindowInv'
  <2> DEFINE m == [kind |-> "register", service |-> s, hash |-> hash]
  <2>1. messages' = Append(messages, m) /\ UNCHANGED <<ring, cursor>>
    BY <1>1 DEF Fleet!Register, Fleet!Ingest
  <2>2. m \in Ingested /\ m.kind # "trace"
    BY DEF Ingested
  <2> QED
    BY <1>0, <2>1, <2>2, QuietKeepsWindow
<1>2. ASSUME NEW s \in Service, NEW i \in Instance, NEW healthy \in BOOLEAN, NEW hash \in Hash, Fleet!Heartbeat(s, i, healthy, hash)
      PROVE  WindowInv'
  <2> DEFINE m == [kind |-> "heartbeat", service |-> s, instance |-> i, healthy |-> healthy, hash |-> hash]
  <2>1. messages' = Append(messages, m) /\ UNCHANGED <<ring, cursor>>
    BY <1>2 DEF Fleet!Heartbeat, Fleet!Ingest
  <2>2. m \in Ingested /\ m.kind # "trace"
    BY DEF Ingested
  <2> QED
    BY <1>0, <2>1, <2>2, QuietKeepsWindow
<1>3. ASSUME NEW event \in Event, Fleet!AddEvent(event) PROVE WindowInv'
  BY <1>3, WindowMoves
<1>4. ASSUME NEW s \in Service, Fleet!AddIssues(s) PROVE WindowInv'
  <2> DEFINE m == [kind |-> "issues", service |-> s]
  <2>1. messages' = Append(messages, m) /\ UNCHANGED <<ring, cursor>>
    BY <1>4 DEF Fleet!AddIssues, Fleet!Ingest
  <2>2. m \in Ingested /\ m.kind # "trace"
    BY DEF Ingested
  <2> QED
    BY <1>0, <2>1, <2>2, QuietKeepsWindow
<1>5. CASE UNCHANGED fleetVars
  <2>1. UNCHANGED <<ring, cursor, messages>>
    BY <1>5 DEF fleetVars
  <2>2. Fleet!Events' = Fleet!Events
    BY <2>1 DEF Fleet!Events
  <2>3. Arrived' = Arrived /\ (\A k : Earlier(k)' = Earlier(k)) /\ \A i : Fleet!Turn(i)' = Fleet!Turn(i)
    BY <2>1, <2>2 DEF Arrived, Earlier, Fleet!Turn
  <2> QED
    BY <2>1, <2>2, <2>3 DEF WindowInv
<1> QED
  BY <1>1, <1>2, <1>3, <1>4, <1>5 DEF Fleet!Next

LEMMA WindowStart == Fleet!Init => WindowInv
<1> SUFFICES ASSUME Fleet!Init PROVE WindowInv
  OBVIOUS
<1>1. ring = <<>> /\ cursor = 0 /\ messages = <<>> /\ Len(ring) = 0 /\ 1..Len(ring) = {} /\ 1..Len(messages) = {}
  BY DEF Fleet!Init
<1>2. Fleet!Events = {} /\ Arrived = 0
  BY <1>1, FS_EmptySet DEF Fleet!Events, Arrived
<1>3. Capacity \in Nat \ {0}
  BY FleetAssumption
<1> QED
  BY <1>1, <1>2, <1>3 DEF WindowInv

LEMMA WindowHolds == ASSUME WindowInv, Arrived \in Nat PROVE Fleet!WindowIsTheLatest
<1>1. Fleet!Cardinality(Fleet!Events) = Arrived /\ \A k : Fleet!Before(k) = Earlier(k)
  BY FleetCount, Zenon DEF Arrived, Earlier, Fleet!Before
<1>2. Len(ring) = Fleet!Smaller(Capacity, Arrived)
  BY FleetAssumption DEF WindowInv, Fleet!Smaller
<1> QED
  BY <1>1, <1>2 DEF WindowInv, Fleet!WindowIsTheLatest

\* Of some places in the window one is the first to have started.
LEMMA FirstIsFirst ==
  ASSUME NEW P \in SUBSET Nat, P # {}, \A i \in P : ring[i].startedAt \in Nat
  PROVE  /\ Fleet!First(P) \in P
         /\ \A j \in P : ring[Fleet!First(P)].startedAt <= ring[j].startedAt
<1> DEFINE began(i) == ring[i].startedAt
           T == {began(i) : i \in P}
<1>1. T \in SUBSET Nat /\ T # {}
  OBVIOUS
<1>2. PICK t \in T : \A u \in T : t <= u
  <2> HIDE DEF T
  <2> QED
    BY <1>1, LeastNumber
<1> DEFINE Q == {i \in P : began(i) = t}
<1>3. Q \in SUBSET Nat /\ Q # {}
  BY <1>2, Zenon
<1>4. PICK q \in Q : \A r \in Q : q <= r
  <2> HIDE DEF Q
  <2> QED
    BY <1>3, LeastNumber
<1>5. \A j \in P : began(q) < began(j) \/ (began(q) = began(j) /\ q <= j)
  <2> TAKE j \in P
  <2>1. began(q) = t /\ began(j) \in T /\ t <= began(j) /\ began(j) \in Nat /\ t \in Nat
    BY <1>1, <1>2, <1>4
  <2>2. CASE began(j) = t
    BY <1>4, <2>1, <2>2
  <2>3. CASE began(j) # t
    BY <2>1, <2>3
  <2> QED
    BY <2>2, <2>3
<1> DEFINE first == Fleet!First(P)
<1>6. first \in P /\ \A j \in P : began(first) < began(j) \/ (began(first) = began(j) /\ first <= j)
  <2>1. q \in P
    OBVIOUS
  <2> QED
    BY <1>5, <2>1, Zenon DEF Fleet!First
<1>7. \A j \in P : began(first) <= began(j)
  <2>1. \A j \in P : began(j) \in Nat
    BY Zenon
  <2> HIDE DEF began, first
  <2> QED
    BY <1>6, <2>1
<1> QED
  BY <1>6, <1>7

\* Whatever the window holds, its flows are it.
LEMMA FlowsHold == ASSUME ring \in Seq(Event) PROVE Fleet!FlowsAreTheWindow
<1> DEFINE L == 1..Len(ring)
<1>1. \A i \in L : ring[i] \in Event /\ ring[i].startedAt \in Nat
  BY FleetAssumption
<1>2. \A t : /\ Fleet!TraceSummary(t).trace = t /\ Fleet!TraceSummary(t).events = Fleet!Cardinality(Fleet!Flow(t))
             /\ Fleet!TraceSummary(t).status = Fleet!FlowStatus(Fleet!Flow(t))
             /\ Fleet!TraceSummary(t).startedAt = ring[Fleet!First(Fleet!Flow(t))].startedAt
             /\ Fleet!TraceSummary(t).failed <=> Fleet!FailuresIn(Fleet!Flow(t)) # {}
  BY Zenon DEF Fleet!TraceSummary
<1>3. Fleet!Summaries = {Fleet!TraceSummary(ring[i].trace) : i \in L}
  BY DEF Fleet!Summaries
<1>4. ASSUME NEW flow \in Fleet!Summaries PROVE Fleet!FlowIsTrue(flow)
  <2>1. PICK k \in L : flow = Fleet!TraceSummary(ring[k].trace)
    BY <1>3
  <2> DEFINE P == Fleet!Flow(ring[k].trace)
             F == Fleet!FailuresIn(P)
             E == IF F = {} THEN P ELSE F
             i == Fleet!First(E)
  <2>2. /\ flow.trace = ring[k].trace /\ flow.events = Fleet!Cardinality(P) /\ flow.status = Fleet!FlowStatus(P)
        /\ flow.startedAt = ring[Fleet!First(P)].startedAt /\ (flow.failed <=> F # {})
    BY <1>2, <2>1
  <2>3. P \in SUBSET L /\ k \in P /\ F = {j \in P : Fleet!IsFailure(ring[j])}
    BY DEF Fleet!Flow, Fleet!FailuresIn
  <2>4. flow.status = ring[i].status
    BY <2>2 DEF Fleet!FlowStatus
  <2> HIDE DEF P, F
  <2>5. E \in SUBSET P /\ E # {}
    BY <2>3
  <2>6. P \in SUBSET Nat /\ E \in SUBSET Nat /\ \A j \in P : ring[j].startedAt \in Nat
    <3>1. L \in SUBSET Nat
      OBVIOUS
    <3> HIDE DEF E, L
    <3> QED
      BY <1>1, <2>3, <2>5, <3>1
  <2>7. Fleet!First(P) \in P /\ \A j \in P : ring[Fleet!First(P)].startedAt <= ring[j].startedAt
    BY <2>3, <2>6, FirstIsFirst
  <2>8. i \in E /\ \A j \in E : ring[i].startedAt <= ring[j].startedAt
    <3> HIDE DEF E
    <3> QED
      BY <2>5, <2>6, FirstIsFirst
  <2>9. flow.failed <=> ring[i].status \in Failing
    <3>1. CASE F = {}
      BY <2>2, <2>3, <2>8, <3>1 DEF Fleet!IsFailure
    <3>2. CASE F # {}
      BY <2>2, <2>3, <2>8, <3>2 DEF Fleet!IsFailure
    <3> QED
      BY <3>1, <3>2
  <2> HIDE DEF i
  <2>10. \A j \in P : Fleet!IsFailure(ring[j]) \/ ~flow.failed => ring[i].startedAt <= ring[j].startedAt
    BY <2>2, <2>3, <2>8
  <2> HIDE DEF E
  <2>11. Fleet!Flow(flow.trace) = P
    BY <2>2 DEF P
  <2> QED
    BY <2>2, <2>4, <2>5, <2>7, <2>8, <2>9, <2>10, <2>11, Zenon DEF Fleet!FlowIsTrue
<1>5. IsFiniteSet(Fleet!Summaries)
  <2> DEFINE f == [i \in L |-> Fleet!TraceSummary(ring[i].trace)]
  <2>1. IsFiniteSet(L)
    BY FS_Interval
  <2>2. f \in Surjection(L, Fleet!Summaries)
    BY <1>3, Zenon DEF Surjection
  <2> HIDE DEF f, L
  <2> QED
    BY <2>1, <2>2, FS_Surjection
<1>6. ASSUME NEW shown \in Fleet!TraceSummaries PROVE Fleet!ShowsTheNewest(shown)
  <2>1. /\ shown \in SUBSET Fleet!Summaries
        /\ Fleet!Cardinality(shown) = Fleet!Smaller(MaxFleetTraces, Fleet!Cardinality(Fleet!Summaries))
        /\ \A a \in shown, b \in Fleet!Summaries \ shown : b.startedAt <= a.startedAt
    BY Zenon DEF Fleet!TraceSummaries
  <2>2. ASSUME NEW i \in L
        PROVE  \/ \E flow \in shown : \A other \in shown : i \in Fleet!Flow(other.trace) <=> other = flow
               \/ /\ Fleet!Cardinality(shown) = MaxFleetTraces
                  /\ \A flow \in shown : \E j \in Fleet!Flow(ring[i].trace) : ring[j].startedAt <= flow.startedAt
    <3> DEFINE mine == Fleet!TraceSummary(ring[i].trace)
    <3>1. mine \in Fleet!Summaries
      BY <1>3
    <3>2. CASE mine \in shown
      <4>1. ASSUME NEW other \in shown PROVE i \in Fleet!Flow(other.trace) <=> other = mine
        <5>1. PICK k \in L : other = Fleet!TraceSummary(ring[k].trace)
          BY <1>3, <2>1
        <5>2. other.trace = ring[k].trace /\ mine.trace = ring[i].trace
          BY <1>2, <5>1
        <5> HIDE DEF mine
        <5>3. i \in Fleet!Flow(other.trace) <=> ring[i].trace = ring[k].trace
          BY <5>2 DEF Fleet!Flow
        <5> QED
          BY <5>1, <5>2, <5>3 DEF mine
      <4> QED
        BY <3>2, <4>1, Zenon
    <3>3. CASE mine \notin shown
      <4>1. Fleet!Cardinality(shown) = MaxFleetTraces
        <5>1. shown # Fleet!Summaries
          BY <3>1, <3>3
        <5>2. IsFiniteSet(shown) /\ Cardinality(shown) \in Nat /\ Cardinality(Fleet!Summaries) \in Nat
          BY <1>5, <2>1, FS_Subset, FS_CardinalityType
        <5>3. Cardinality(shown) # Cardinality(Fleet!Summaries)
          BY <1>5, <2>1, <5>1, FS_Subset, Zenon
        <5>4. Fleet!Cardinality(shown) = Cardinality(shown) /\ Fleet!Cardinality(Fleet!Summaries) = Cardinality(Fleet!Summaries)
          BY FleetCount
        <5>5. Cardinality(shown) = MaxFleetTraces \/ Cardinality(shown) = Cardinality(Fleet!Summaries)
          BY <2>1, <5>4, Zenon DEF Fleet!Smaller
        <5> QED
          BY <5>3, <5>4, <5>5
      <4>2. ASSUME NEW flow \in shown
            PROVE  \E j \in Fleet!Flow(ring[i].trace) : ring[j].startedAt <= flow.startedAt
        <5> DEFINE P == Fleet!Flow(ring[i].trace)
                   j == Fleet!First(P)
        <5>1. mine.startedAt <= flow.startedAt
          BY <2>1, <3>1, <3>3
        <5>2. mine.startedAt = ring[j].startedAt
          BY <1>2
        <5>3. P \in SUBSET L /\ i \in P
          BY DEF Fleet!Flow
        <5>4. P \in SUBSET Nat /\ \A x \in P : ring[x].startedAt \in Nat
          <6>1. L \in SUBSET Nat
            OBVIOUS
          <6> HIDE DEF P, L
          <6> QED
            BY <1>1, <5>3, <6>1
        <5> HIDE DEF P
        <5>5. j \in P
          BY <5>3, <5>4, FirstIsFirst
        <5> HIDE DEF mine, j
        <5>6. ring[j].startedAt <= flow.startedAt
          BY <5>1, <5>2, Zenon
        <5> QED
          BY <5>5, <5>6, Zenon DEF P
      <4> QED
        BY <4>1, <4>2
    <3> QED
      BY <3>2, <3>3
  <2> QED
    BY <2>2 DEF Fleet!ShowsTheNewest
<1>7. \A shown \in Fleet!TraceSummaries : shown \in SUBSET Fleet!Summaries
  BY Zenon DEF Fleet!TraceSummaries
<1> QED
  BY <1>4, <1>6, <1>7, Zenon DEF Fleet!FlowsAreTheWindow

\* What the views show of a service is what is true of it.
LEMMA FleetFollow == FleetInv /\ WindowInv => Fleet!ViewsAreTrue
<1> SUFFICES ASSUME FleetInv, WindowInv PROVE Fleet!ViewsAreTrue
  OBVIOUS
<1>1. /\ DOMAIN services \subseteq Service /\ DOMAIN topics \subseteq Topic
      /\ \A s \in DOMAIN services : Fleet!Of(services, s, Fleet!NewService) = services[s]
      /\ \A t \in DOMAIN topics : Fleet!Of(topics, t, Fleet!NewTopic) = topics[t]
  BY DEF FleetInv, ServicesAreTrue, Fleet!Of
<1>2. \A s \in DOMAIN services : ServiceIsTrue(s, services[s])
  <2>1. \A s \in DOMAIN services : ServiceIsTrue(s, Fleet!Of(services, s, Fleet!NewService))
    BY <1>1 DEF FleetInv, ServicesAreTrue
  <2> QED
    BY <1>1, <2>1
<1>3. \A t \in DOMAIN topics : TopicIsTrue(t, topics[t])
  <2>1. \A t \in DOMAIN topics : TopicIsTrue(t, Fleet!Of(topics, t, Fleet!NewTopic))
    BY <1>1 DEF FleetInv
  <2> QED
    BY <1>1, <2>1
<1>4. ASSUME NEW s \in DOMAIN services
      PROVE  /\ services[s] \in ServiceState
             /\ services[s].registered <=> Fleet!Sent("register", s) # {}
             /\ Fleet!Sent("register", s) # {} => services[s].hash = Fleet!LatestDocument(s).hash
             /\ DOMAIN services[s].instances = {} <=> Fleet!Sent("heartbeat", s) = {}
             /\ \A i \in DOMAIN services[s].instances :
                  /\ services[s].instances[i].healthy = Fleet!LatestHeartbeat(s, i).healthy
                  /\ services[s].instances[i].hash = Fleet!LatestHeartbeat(s, i).hash
             /\ services[s].invocations = Cardinality(Fleet!Owned(s)) /\ services[s].errors = Cardinality(Fleet!Failed(Fleet!Owned(s)))
             /\ services[s].issuesFeedSeen <=> Fleet!Sent("issues", s) # {}
  <2> DEFINE state == services[s]
  <2>1. ServiceIsTrue(s, state)
    BY <1>2
  <2> HIDE DEF state
  <2>2. /\ state \in ServiceState
        /\ state.registered <=> Fleet!Sent("register", s) # {}
        /\ Fleet!Sent("register", s) # {} => state.hash = Fleet!LatestDocument(s).hash
        /\ \A i \in Instance : i \in DOMAIN state.instances <=> Beats(s, i) # {}
        /\ \A i \in DOMAIN state.instances :
             /\ state.instances[i].healthy = Fleet!LatestHeartbeat(s, i).healthy
             /\ state.instances[i].hash = Fleet!LatestHeartbeat(s, i).hash
        /\ state.invocations = Cardinality(Fleet!Owned(s)) /\ state.errors = Cardinality(Fleet!Failed(Fleet!Owned(s)))
        /\ state.issuesFeedSeen <=> Fleet!Sent("issues", s) # {}
    BY <2>1 DEF ServiceIsTrue
  <2>3. DOMAIN state.instances \subseteq Instance
    BY <2>2, InstancesAreKnown
  <2>4. \A k \in Fleet!Sent("heartbeat", s) : messages[k].instance \in Instance
    <3> TAKE k \in Fleet!Sent("heartbeat", s)
    <3>1. k \in 1..Len(messages) /\ messages[k].kind = "heartbeat" /\ messages \in Seq(Ingested)
      BY DEF Fleet!Sent, FleetInv
    <3>2. messages[k] \in Ingested
      BY <3>1
    <3> QED
      BY <3>1, <3>2 DEF Ingested
  <2>5. \A k \in Fleet!Sent("heartbeat", s) : k \in Beats(s, messages[k].instance)
    BY DEF Beats
  <2>6. \A i : Beats(s, i) \subseteq Fleet!Sent("heartbeat", s)
    BY DEF Beats
  <2>7. DOMAIN state.instances = {} <=> Fleet!Sent("heartbeat", s) = {}
    BY <2>2, <2>3, <2>4, <2>5, <2>6
  <2> QED
    BY <2>2, <2>7 DEF state
<1>5. \A s : Fleet!Owned(s) = {} <=> Cardinality(Fleet!Owned(s)) = 0
  <2> TAKE s
  <2>1. IsFiniteSet(Fleet!Owned(s))
    <3>1. Len(messages) \in Nat
      BY DEF FleetInv
    <3>2. IsFiniteSet(1..Len(messages))
      BY <3>1, FS_Interval
    <3> QED
      BY <3>2, PlacesAreInTheLog, FS_Subset
  <2> QED
    BY <2>1, FS_EmptySet
<1>6. \A s : /\ IsFiniteSet(Fleet!Failed(Fleet!Owned(s))) /\ Cardinality(Fleet!Failed(Fleet!Owned(s))) \in Nat
             /\ Fleet!Failed(Fleet!Owned(s)) = {} <=> Cardinality(Fleet!Failed(Fleet!Owned(s))) = 0
  <2> TAKE s
  <2>1. IsFiniteSet(Fleet!Failed(Fleet!Owned(s)))
    <3>1. Len(messages) \in Nat
      BY DEF FleetInv
    <3>2. IsFiniteSet(1..Len(messages))
      BY <3>1, FS_Interval
    <3> QED
      BY <3>2, PlacesAreInTheLog, FS_Subset
  <2> QED
    BY <2>1, FS_EmptySet, FS_CardinalityType
<1>7. Fleet!ReducedIsVisible
  <2>1. ASSUME NEW s \in Service
        PROVE  s \in DOMAIN services <=>
                 Fleet!Owned(s) # {} \/ \E kind \in {"register", "heartbeat", "issues"} : Fleet!Sent(kind, s) # {}
    BY DEF FleetInv, ServicesAreTrue, Kinds
  <2>2. ASSUME NEW s \in DOMAIN services
        PROVE  LET missing == Fleet!MissingFeeds(s) IN
               /\ "descriptor" \in missing <=> Fleet!Sent("register", s) = {}
               /\ "health" \in missing <=> Fleet!Sent("heartbeat", s) = {}
               /\ "traces" \in missing <=> Fleet!Owned(s) = {}
               /\ "issues" \in missing <=> Fleet!Failed(Fleet!Owned(s)) # {} /\ Fleet!Sent("issues", s) = {}
    <3> DEFINE missing == Fleet!MissingFeeds(s)
    <3>1. /\ "descriptor" \in missing <=> ~services[s].registered
          /\ "health" \in missing <=> DOMAIN services[s].instances = {}
          /\ "traces" \in missing <=> services[s].invocations = 0
          /\ "issues" \in missing <=> services[s].errors > 0 /\ ~services[s].issuesFeedSeen
      BY DEF Fleet!MissingFeeds
    <3> HIDE DEF missing
    <3>2. services[s].invocations = 0 <=> Fleet!Owned(s) = {}
      BY <1>4, <1>5
    <3>3. services[s].errors > 0 <=> Fleet!Failed(Fleet!Owned(s)) # {}
      BY <1>4, <1>6
    <3>4. /\ "descriptor" \in missing <=> Fleet!Sent("register", s) = {}
          /\ "health" \in missing <=> Fleet!Sent("heartbeat", s) = {}
          /\ "traces" \in missing <=> Fleet!Owned(s) = {}
          /\ "issues" \in missing <=> Fleet!Failed(Fleet!Owned(s)) # {} /\ Fleet!Sent("issues", s) = {}
      BY <1>4, <3>1, <3>2, <3>3
    <3> QED
      BY <3>4 DEF missing
  <2> QED
    BY <2>1, <2>2 DEF Fleet!ReducedIsVisible
<1>8. Fleet!TotalsAgree
  <2>1. ASSUME NEW t \in DOMAIN topics
        PROVE  /\ topics[t].invocations = Fleet!Cardinality(Fleet!On(t))
               /\ \A x \in Status : topics[t].counts[x] = Fleet!Cardinality({k \in Fleet!On(t) : messages[k].event.status = x})
               /\ topics[t].errors = Fleet!Cardinality(Fleet!Failed(Fleet!On(t)))
    BY <1>3, FleetCount DEF TopicIsTrue, Ended
  <2>2. ASSUME NEW s \in DOMAIN services
        PROVE  /\ services[s].invocations = Fleet!Cardinality(Fleet!Owned(s))
               /\ services[s].errors = Fleet!Cardinality(Fleet!Failed(Fleet!Owned(s)))
    BY <1>4, FleetCount
  <2> QED
    BY <2>1, <2>2 DEF Fleet!TotalsAgree
<1>9. Fleet!InstancesAreCurrent
  <2> SUFFICES ASSUME NEW s \in DOMAIN services
               PROVE  /\ \A i \in DOMAIN services[s].instances :
                           Fleet!HashMatches(s, i) = "no" <=>
                             /\ Fleet!Sent("register", s) # {}
                             /\ None \notin {Fleet!LatestDocument(s).hash, Fleet!LatestHeartbeat(s, i).hash}
                             /\ Fleet!LatestDocument(s).hash # Fleet!LatestHeartbeat(s, i).hash
                      /\ Fleet!Health(s) = "healthy" <=>
                           /\ Fleet!Sent("heartbeat", s) # {}
                           /\ \A i \in DOMAIN services[s].instances : Fleet!LatestHeartbeat(s, i).healthy
    BY DEF Fleet!InstancesAreCurrent
  <2>1. ASSUME NEW i \in DOMAIN services[s].instances
        PROVE  Fleet!HashMatches(s, i) = "no" <=>
                 /\ Fleet!Sent("register", s) # {}
                 /\ None \notin {Fleet!LatestDocument(s).hash, Fleet!LatestHeartbeat(s, i).hash}
                 /\ Fleet!LatestDocument(s).hash # Fleet!LatestHeartbeat(s, i).hash
    <3>1. Fleet!HashMatches(s, i) = "no" <=>
            /\ services[s].registered /\ services[s].hash # None /\ services[s].instances[i].hash # None
            /\ services[s].hash # services[s].instances[i].hash
      BY DEF Fleet!HashMatches
    <3> QED
      BY <1>4, <2>1, <3>1
  <2>2. Fleet!Health(s) = "healthy" <=>
          /\ Fleet!Sent("heartbeat", s) # {}
          /\ \A i \in DOMAIN services[s].instances : Fleet!LatestHeartbeat(s, i).healthy
    <3>1. Fleet!Health(s) = "healthy" <=>
            DOMAIN services[s].instances # {} /\ \A i \in DOMAIN services[s].instances : services[s].instances[i].healthy
      BY DEF Fleet!Health
    <3> QED
      BY <1>4, <3>1
  <2> QED
    BY <2>1, <2>2
<1>10. Fleet!FlowsAreTheWindow
  BY FlowsHold DEF FleetInv
<1>11. Fleet!WindowIsTheLatest
  <2>1. Fleet!Events \in SUBSET (1..Len(messages)) /\ Len(messages) \in Nat
    BY DEF Fleet!Events, FleetInv
  <2>2. Arrived \in Nat
    <3>1. IsFiniteSet(1..Len(messages))
      BY <2>1, FS_Interval
    <3>2. IsFiniteSet(Fleet!Events)
      BY <2>1, <3>1, FS_Subset, Zenon
    <3> QED
      BY <3>2, FS_CardinalityType DEF Arrived
  <2> QED
    BY <2>2, WindowHolds
<1> QED
  BY <1>7, <1>8, <1>9, <1>10, <1>11 DEF Fleet!ViewsAreTrue

\* For any callers, failures and bounds, whatever is lost, repeated or overtaken: the collector
\* counts what has arrived, as often as it has, within the span of when it happened, and Close
\* leaves nothing behind (issues.go:204-421, store.go:111-444); and whatever messages arrive in
\* whatever order, services and topics show as missing, count and blame what they say, the window
\* is the last events that arrived, and the flows shown are its newest (store.go:298-312, 540-686).
THEOREM MeshViewsStayTrue == MCSpec => []MeshViewsAreTrue
<1>1. MCInit => Issues!Init /\ Fleet!Init
  BY DEF MCInit
<1>2. [MCNext]_all => [Issues!Next]_issueVars /\ [Fleet!Next]_fleetVars
  BY DEF MCNext, all
<1>3. IssueInv /\ FleetInv /\ WindowInv => MeshViewsAreTrue
  <2> SUFFICES ASSUME IssueInv, FleetInv, WindowInv PROVE MeshViewsAreTrue
    OBVIOUS
  <2>1. Issues!CountsAreDeltas /\ Issues!SpansAreTrue /\ Issues!TailIsSent /\ Fleet!ViewsAreTrue
    BY IssuesFollow, FleetFollow
  <2>2. \A a, b : Issues!ThrowsAreOneIssue(a, b)
    BY ThrowsAreOne
  <2> QED
    BY <2>1, <2>2 DEF MeshViewsAreTrue
<1> QED
  BY <1>1, <1>2, <1>3, IssuesStart, IssuesInductive, FleetStart, FleetInductive, WindowStart, WindowInductive, PTL DEF MCSpec

-----------------------------------------------------------------------------
(* The HTTP front door. *)

OriginSet == [full : {TRUE}, scheme : STRING, host : STRING, port : Nat] \union [full : {FALSE}, name : STRING]

\* Two origins match as the property asks, which names no comparison of two full ones.
LEMMA OriginsMatch ==
  ASSUME NEW allowed \in OriginSet, NEW origin \in OriginSet
  PROVE  Front!OriginMatches(allowed, origin) <=>
           \/ allowed = Front!Anywhere \/ allowed = origin
           \/ allowed.full # origin.full /\ Front!HostOf(allowed) = Front!HostOf(origin)
<1>1. CASE allowed.full /\ origin.full
  BY <1>1 DEF Front!OriginMatches
<1>2. CASE ~allowed.full /\ ~origin.full
  <2>1. allowed = [full |-> FALSE, name |-> allowed.name] /\ origin = [full |-> FALSE, name |-> origin.name]
    BY <1>2 DEF OriginSet
  <2>2. Front!HostOf(allowed) = allowed.name /\ Front!HostOf(origin) = origin.name
    BY <1>2 DEF Front!HostOf
  <2>3. allowed.name = origin.name <=> allowed = origin
    BY <2>1
  <2> QED
    BY <1>2, <2>2, <2>3 DEF Front!OriginMatches
<1>3. CASE allowed.full # origin.full
  <2>1. allowed.full \in BOOLEAN /\ origin.full \in BOOLEAN /\ allowed # origin
    BY <1>3 DEF OriginSet
  <2> QED
    BY <1>3, <2>1 DEF Front!OriginMatches
<1>4. allowed.full \in BOOLEAN /\ origin.full \in BOOLEAN
  BY DEF OriginSet
<1> QED
  BY <1>1, <1>2, <1>3, <1>4

\* For any settings, routes, request and origins: only an allowed origin is named, and only
\* for headers it may send and methods of its path; credentials and exposed headers go with
\* it or not at all; a preflight of a routed path ends here, nothing else does, and what
\* depends on the origin varies with it (originMatches, cors.go:133; Middleware, cors.go:55).
THEOREM CrossOriginIsJudged ==
  ASSUME NEW settings \in
           [origins : SUBSET OriginSet, headers : SUBSET STRING, exposed : SUBSET STRING,
            maxAge : Int, credentials : BOOLEAN],
         NEW routes \in SUBSET [method : STRING, path : STRING],
         NEW request \in [origin : OriginSet, method : STRING, path : STRING, asked : SUBSET STRING]
  PROVE  Front!CrossOriginIsExact(settings, routes, request)
<1> DEFINE got == Front!Middleware(settings, routes, request)
           served == request.origin # Front!NoOrigin /\ \E r \in routes : r.path = request.path
           welcome == \E a \in settings.origins :
             \/ a = Front!Anywhere \/ a = request.origin
             \/ a.full # request.origin.full /\ Front!HostOf(a) = Front!HostOf(request.origin)
           allowed == Front!HeadersAllowed(settings, request)
           refusal == [Front!Untouched EXCEPT !.next = request.method # "OPTIONS", !.vary = TRUE]
           grant == [next |-> request.method # "OPTIONS", vary |-> TRUE, origin |-> request.origin,
                     headers |-> Front!AllowedHeaders(settings, request),
                     methods |-> {"OPTIONS"} \union Front!MethodsForPath(routes, request.path),
                     credentials |-> settings.credentials,
                     maxAge |-> request.method = "OPTIONS" /\ settings.maxAge > 0,
                     exposed |-> IF request.method # "OPTIONS" THEN settings.exposed ELSE {}]
<1>1. Front!MatchOrigin(settings, request.origin) <=> welcome
  BY OriginsMatch DEF Front!MatchOrigin
<1>2. allowed => request.asked \subseteq Front!AllowedHeaders(settings, request)
  BY DEF Front!HeadersAllowed, Front!AllowedHeaders
<1>3. got = IF ~served THEN Front!Untouched ELSE IF welcome /\ allowed THEN grant ELSE refusal
  <2>1. got = IF request.origin = Front!NoOrigin \/ Front!MethodsForPath(routes, request.path) = {} THEN Front!Untouched
              ELSE Front!Grant(settings, routes, request)
    BY Zenon DEF Front!Middleware
  <2>2. Front!Grant(settings, routes, request) =
          IF ~Front!MatchOrigin(settings, request.origin) \/ ~Front!HeadersAllowed(settings, request) THEN refusal ELSE grant
    BY Zenon DEF Front!Grant
  <2>3. served <=> ~(request.origin = Front!NoOrigin \/ Front!MethodsForPath(routes, request.path) = {})
    <3>1. Front!MethodsForPath(routes, request.path) # {} <=> \E r \in routes : r.path = request.path
      BY DEF Front!MethodsForPath
    <3> QED
      BY <3>1, Zenon
  <2> HIDE DEF got, served, welcome, refusal, grant
  <2> QED
    BY <1>1, <2>1, <2>2, <2>3
<1>4. /\ Front!Untouched.next /\ ~Front!Untouched.vary /\ Front!Untouched.origin = Front!NoOrigin
      /\ Front!Untouched.exposed = {} /\ ~Front!Untouched.credentials
      /\ (refusal.next <=> request.method # "OPTIONS") /\ refusal.vary /\ refusal.origin = Front!NoOrigin
      /\ refusal.exposed = {} /\ ~refusal.credentials
  BY DEF Front!Untouched
<1>5. /\ (grant.next <=> request.method # "OPTIONS") /\ grant.vary /\ grant.origin = request.origin
      /\ grant.headers = Front!AllowedHeaders(settings, request)
      /\ grant.methods = {"OPTIONS"} \union Front!MethodsForPath(routes, request.path)
      /\ grant.credentials = settings.credentials
      /\ grant.exposed # {} => request.method # "OPTIONS"
  OBVIOUS
<1> HIDE DEF got, served, welcome, allowed, refusal, grant
<1>6. \A m \in {"OPTIONS"} \union Front!MethodsForPath(routes, request.path) :
        m = "OPTIONS" \/ \E r \in routes : r.path = request.path /\ r.method = m
  BY DEF Front!MethodsForPath
<1>7. got.origin # Front!NoOrigin =>
        /\ got.origin = request.origin /\ welcome
        /\ request.asked \subseteq got.headers /\ got.vary
        /\ \A m \in got.methods : m = "OPTIONS" \/ \E r \in routes : r.path = request.path /\ r.method = m
  BY <1>2, <1>3, <1>4, <1>5, <1>6, Zenon
<1>8. served /\ welcome /\ allowed => got.origin = request.origin
  BY <1>3, <1>5, Zenon
<1>9. got.credentials => got.origin # Front!NoOrigin /\ settings.credentials
  BY <1>3, <1>4, <1>5, Zenon DEF served
<1>10. got.exposed # {} => got.origin # Front!NoOrigin /\ request.method # "OPTIONS"
  BY <1>3, <1>4, <1>5, Zenon DEF served
<1>11. ~got.next <=> served /\ request.method = "OPTIONS"
  BY <1>3, <1>4, <1>5, Zenon
<1>12. got.vary <=> served
  BY <1>3, <1>4, <1>5, Zenon
<1> QED
  BY <1>7, <1>8, <1>9, <1>10, <1>11, <1>12, Zenon DEF Front!CrossOriginIsExact, got, served, welcome, allowed

\* Some places of a sequence have a first and a last one.
LEMMA PlacesHaveEnds ==
  ASSUME NEW n \in Nat, NEW I \in SUBSET (1..n), I # {}
  PROVE  /\ Front!Min(I) \in I /\ \A j \in I : Front!Min(I) <= j
         /\ Front!Max(I) \in I /\ \A j \in I : j <= Front!Max(I)
<1>1. \E x \in I : \A y \in I : x =< y
  BY LeastNumber
<1>2. \E x \in I : \A y \in I : x >= y
  <2> DEFINE T == {n - i : i \in I}
  <2>1. T \in SUBSET Nat /\ T # {}
    <3>1. \A j \in I : n - j \in Nat /\ n - j \in T
      OBVIOUS
    <3>2. T \subseteq Nat
      BY <3>1
    <3>3. PICK j \in I : TRUE
      OBVIOUS
    <3> QED
      BY <3>1, <3>2, <3>3, Zenon
  <2> HIDE DEF T
  <2>2. PICK t \in T : \A y \in T : t <= y
    BY <2>1, LeastNumber
  <2>3. PICK x \in I : t = n - x
    BY DEF T
  <2>4. \A y \in I : n - y \in T
    BY DEF T
  <2> QED
    BY <2>2, <2>3, <2>4
<1>3. Front!Min(I) \in I /\ \A j \in I : Front!Min(I) <= j
  BY <1>1, Zenon DEF Front!Min
<1>4. Front!Max(I) \in I /\ \A j \in I : Front!Max(I) >= j
  BY <1>2, Zenon DEF Front!Max
<1> QED
  BY <1>3, <1>4

\* The places of the routes that fit, as they are written and as templates.
ExactOf(routes, request) ==
  {i \in 1..Len(routes) :
     ~Front!IsTemplated(routes[i]) /\ Front!Upper(routes[i].method) = Front!Upper(request.method) /\ routes[i].path = request.path}
TemplatedOf(routes, request) ==
  {i \in 1..Len(routes) : Front!IsTemplated(routes[i]) /\ Front!TemplateMatches(routes[i], request.method, request.path)}

\* For any routes and request: none is taken exactly when none fits; an exact route that
\* fits is before any template, the last of them registered before the others, and a
\* template is the first route that fits (RouteTable.Match, httpbinding.go:137).
THEOREM RoutesAreTakenInOrder ==
  ASSUME NEW Known, NEW routes \in Seq(Known), NEW request, NEW i, i = Front!Match(routes, request.method, request.path)
  PROVE  /\ i = 0 <=> ~\E r \in Front!Range(routes) : Front!Fits(r, request)
         /\ i # 0 =>
              /\ i \in 1..Len(routes) /\ Front!Fits(routes[i], request)
              /\ (\E r \in Front!Range(routes) : ~Front!IsTemplated(r) /\ Front!Fits(r, request)) => ~Front!IsTemplated(routes[i])
              /\ Front!IsTemplated(routes[i]) => ~\E j \in 1..i - 1 : Front!Fits(routes[j], request)
              /\ ~Front!IsTemplated(routes[i]) => ~\E j \in i + 1..Len(routes) : ~Front!IsTemplated(routes[j]) /\ Front!Fits(routes[j], request)
<1> DEFINE E == ExactOf(routes, request)
           T == TemplatedOf(routes, request)
<1>1. E \in SUBSET (1..Len(routes)) /\ T \in SUBSET (1..Len(routes)) /\ Len(routes) \in Nat
  BY DEF ExactOf, TemplatedOf
<1>2. Front!Exact(routes, request.method, request.path) = IF E # {} THEN Front!Max(E) ELSE 0
  BY Zenon DEF Front!Exact, Front!SelectLastInSeq, ExactOf
<1>3. Front!Templated(routes, request.method, request.path) = IF T # {} THEN Front!Min(T) ELSE 0
  BY Zenon DEF Front!Templated, Front!SelectInSeq, TemplatedOf
<1>4. i = IF E # {} THEN Front!Max(E) ELSE IF T # {} THEN Front!Min(T) ELSE 0
  <2>1. ASSUME E # {} PROVE Front!Max(E) # 0
    <3> HIDE DEF E
    <3>1. Front!Max(E) \in E
      BY <1>1, <2>1, PlacesHaveEnds
    <3> QED
      BY <1>1, <3>1
  <2> QED
    BY <1>2, <1>3, <2>1, Zenon DEF Front!Match
<1>5. \A j \in 1..Len(routes) :
        /\ Front!Fits(routes[j], request) <=> j \in E \union T
        /\ Front!IsTemplated(routes[j]) <=> j \notin E /\ Front!IsTemplated(routes[j])
        /\ j \in T => Front!IsTemplated(routes[j]) /\ j \notin E
  <2> TAKE j \in 1..Len(routes)
  <2>1. CASE Front!IsTemplated(routes[j])
    <3>1. Front!Fits(routes[j], request) <=> Front!TemplateMatches(routes[j], request.method, request.path)
      BY <2>1, Zenon DEF Front!Fits, Front!TemplateMatches
    <3> QED
      BY <2>1, <3>1, Zenon DEF ExactOf, TemplatedOf
  <2>2. CASE ~Front!IsTemplated(routes[j])
    BY <2>2, Zenon DEF Front!Fits, ExactOf, TemplatedOf
  <2> QED
    BY <2>1, <2>2
<1>6. /\ E # {} => Front!Max(E) \in E /\ \A j \in E : j <= Front!Max(E)
      /\ T # {} => Front!Min(T) \in T /\ \A j \in T : Front!Min(T) <= j
  BY <1>1, PlacesHaveEnds
<1>7. \A r : r \in Front!Range(routes) <=> \E j \in 1..Len(routes) : r = routes[j]
  BY DEF Front!Range
<1> HIDE DEF E, T
<1>8. i = 0 <=> E = {} /\ T = {}
  <2>1. 0 \notin E /\ 0 \notin T
    BY <1>1
  <2>2. E # {} => i \in E
    BY <1>4, <1>6, Zenon
  <2>3. E = {} /\ T # {} => i \in T
    BY <1>4, <1>6, Zenon
  <2>4. E = {} /\ T = {} => i = 0
    BY <1>4, Zenon
  <2> QED
    BY <2>1, <2>2, <2>3, <2>4
<1>9. (\E r \in Front!Range(routes) : Front!Fits(r, request)) <=> E \union T # {}
  BY <1>1, <1>5, <1>7
<1>10. (\E r \in Front!Range(routes) : ~Front!IsTemplated(r) /\ Front!Fits(r, request)) => E # {}
  <2> SUFFICES ASSUME NEW j \in 1..Len(routes), ~Front!IsTemplated(routes[j]), Front!Fits(routes[j], request) PROVE E # {}
    BY <1>7
  <2> QED
    BY <1>5
<1>11. ASSUME E # {}
       PROVE  /\ i \in E /\ ~Front!IsTemplated(routes[i])
              /\ ~\E j \in i + 1..Len(routes) : ~Front!IsTemplated(routes[j]) /\ Front!Fits(routes[j], request)
  <2>1. i \in E /\ \A j \in E : j <= i
    BY <1>4, <1>6, <1>11
  <2>2. ~Front!IsTemplated(routes[i])
    BY <2>1 DEF E, ExactOf
  <2>3. ASSUME NEW j \in i + 1..Len(routes), ~Front!IsTemplated(routes[j]), Front!Fits(routes[j], request) PROVE FALSE
    <3>1. i \in 1..Len(routes) /\ j \in 1..Len(routes) /\ ~(j <= i)
      BY <1>1, <2>1
    <3> QED
      BY <1>5, <2>1, <2>3, <3>1
  <2> QED
    BY <2>1, <2>2, <2>3
<1>12. ASSUME E = {}, T # {}
       PROVE  /\ i \in T /\ Front!IsTemplated(routes[i]) /\ ~\E j \in 1..i - 1 : Front!Fits(routes[j], request)
  <2>1. i \in T /\ \A j \in T : i <= j
    BY <1>4, <1>6, <1>12
  <2>2. Front!IsTemplated(routes[i])
    BY <1>1, <1>5, <2>1
  <2>3. ASSUME NEW j \in 1..i - 1, Front!Fits(routes[j], request) PROVE FALSE
    <3>1. j \in 1..Len(routes) /\ ~(i <= j)
      BY <1>1, <2>1
    <3> QED
      BY <1>5, <1>12, <2>1, <2>3, <3>1
  <2> QED
    BY <2>1, <2>2, <2>3
<1>13. ASSUME i # 0 PROVE i \in 1..Len(routes) /\ Front!Fits(routes[i], request)
  BY <1>1, <1>5, <1>8, <1>11, <1>12, <1>13
<1> QED
  BY <1>8, <1>9, <1>10, <1>11, <1>12, <1>13

-----------------------------------------------------------------------------
(* What becomes of a result on its way to a caller. *)

\* The error list of a result, and a problem document that an application may write.
Told == Seq([message : Seq(STRING), field : Seq(STRING), code : STRING])
Document == [type : STRING, status : Nat, detail : Seq(STRING), benzeneStatus : STRING \ {""}, errors : Told]

\* What a handler may answer: a literal, a failure, or a failure with a document of its own.
HandlerResult ==
  {Hop!Literal(s, p, e) : s \in STRING, p \in STRING, e \in Told}
  \union {Hop!FailWith(s, e) : s \in STRING, e \in Told} \union {Hop!ProblemResult(d) : d \in Document}

\* Only a literal is successful, and a document of its own says its status.
LEMMA AnswerShape ==
  ASSUME NEW r \in HandlerResult
  PROVE  /\ r.flag # "derived" => r.flag = "unsuccessful" /\ r.payload = Hop!NoPayload
         /\ r.problem # Hop!NoProblem => r.problem.benzeneStatus = r.status
<1>1. ASSUME NEW s \in STRING, NEW p \in STRING, NEW e \in Told, r = Hop!Literal(s, p, e)
      PROVE  r.status = s /\ r.payload = p /\ r.flag = "derived" /\ r.problem = Hop!NoProblem
  BY <1>1 DEF Hop!Literal
<1>2. ASSUME NEW s \in STRING, NEW e \in Told, r = Hop!FailWith(s, e)
      PROVE  r.status = s /\ r.payload = Hop!NoPayload /\ r.flag = "unsuccessful" /\ r.problem = Hop!NoProblem
  BY <1>2 DEF Hop!FailWith
<1>3. ASSUME NEW d \in Document, r = Hop!ProblemResult(d)
      PROVE  r.status = d.benzeneStatus /\ r.payload = Hop!NoPayload /\ r.flag = "unsuccessful" /\ r.problem = d
  BY <1>3 DEF Hop!ProblemResult, Hop!FailWith
<1>4. CASE r \in {Hop!Literal(s, p, e) : s \in STRING, p \in STRING, e \in Told}
  <2>1. PICK s \in STRING, p \in STRING, e \in Told : r = Hop!Literal(s, p, e)
    BY <1>4
  <2> QED
    BY <1>1, <2>1, Zenon
<1>5. CASE r \in {Hop!FailWith(s, e) : s \in STRING, e \in Told}
  <2>1. PICK s \in STRING, e \in Told : r = Hop!FailWith(s, e)
    BY <1>5
  <2> QED
    BY <1>2, <2>1, Zenon
<1>6. CASE r \in {Hop!ProblemResult(d) : d \in Document}
  <2>1. PICK d \in Document : r = Hop!ProblemResult(d)
    BY <1>6
  <2> QED
    BY <1>3, <2>1, Zenon
<1> QED
  BY <1>4, <1>5, <1>6 DEF HandlerResult

\* No status is a success and a failure.
LEMMA Classes ==
  /\ \A s : ~(Hop!IsSuccess(s) /\ Hop!IsFailure(s))
  /\ ~Hop!IsSuccess("") /\ ~Hop!IsFailure("")
BY DEF Hop!IsSuccess, Hop!IsFailure, Hop!SuccessStatuses, Hop!FailureStatuses

\* What leaves the pipeline of what a handler answered.
LEMMA AnsweredIs ==
  ASSUME NEW r \in HandlerResult, Hop!IsDelivered(r)
  PROVE  /\ Hop!Answered(r).statusCode = r.status
         /\ Hop!IsSuccessful(r) =>
              /\ Hop!Answered(r).isSuccessful = "yes" /\ ~Hop!IsFailure(r.status)
              /\ Hop!Answered(r).body = IF r.payload = Hop!NoPayload THEN Hop!NoBody ELSE Hop!PayloadBody(r.payload)
         /\ ~Hop!IsSuccessful(r) =>
              /\ Hop!Answered(r).isSuccessful = "no" /\ ~Hop!IsSuccess(r.status)
              /\ \E d : Hop!Answered(r).body = Hop!ProblemBody(d) /\ d.benzeneStatus = r.status
<1> DEFINE d == Hop!ProblemDocument(r)
           good == [statusCode |-> r.status, isSuccessful |-> "yes",
                    body |-> IF r.payload = Hop!NoPayload THEN Hop!NoBody ELSE Hop!PayloadBody(r.payload)]
           bad == [statusCode |-> r.status, isSuccessful |-> "no", body |-> Hop!ProblemBody(d)]
           ending == [kind |-> "result", result |-> r]
<1>1. ending.kind = "result" /\ ending.result = r
  OBVIOUS
<1>2. Hop!Answered(r) = Hop!ToResponse(r)
  <2> HIDE DEF ending
  <2>1. "result" # "error" /\ ~("result" = "no result")
    BY Zenon
  <2> QED
    BY <1>1, <2>1, Zenon DEF Hop!Answered, Hop!Dispatch, ending
<1>3. r.payload # "unmarshalable" /\ (Hop!IsSuccess(r.status) => Hop!IsSuccessful(r))
  BY Zenon DEF Hop!IsDelivered, Hop!IsConsistent
<1>4. Hop!ToResponse(r) = IF Hop!IsSuccessful(r) THEN good ELSE bad
  BY <1>3, Zenon DEF Hop!ToResponse, Hop!ErrorResponse
<1>5. d.benzeneStatus = r.status
  <2>1. Hop!NewProblem(r.status, r.errors).benzeneStatus = r.status
    BY DEF Hop!NewProblem
  <2>2. r.problem # Hop!NoProblem => r.problem.benzeneStatus = r.status
    BY AnswerShape, Zenon
  <2> QED
    BY <2>1, <2>2, Zenon DEF Hop!ProblemDocument
<1>6. Hop!IsSuccessful(r) => ~Hop!IsFailure(r.status)
  BY Zenon DEF Hop!IsSuccessful
<1>7. /\ good.statusCode = r.status /\ good.isSuccessful = "yes"
      /\ good.body = IF r.payload = Hop!NoPayload THEN Hop!NoBody ELSE Hop!PayloadBody(r.payload)
      /\ bad.statusCode = r.status /\ bad.isSuccessful = "no" /\ bad.body = Hop!ProblemBody(d)
  OBVIOUS
<1> HIDE DEF good, bad, d
<1> QED
  BY <1>2, <1>3, <1>4, <1>5, <1>6, <1>7, Zenon

\* The body a payload travels in.
LEMMA BodyIs ==
  ASSUME NEW p
  PROVE  LET body == IF p = Hop!NoPayload THEN Hop!NoBody ELSE Hop!PayloadBody(p)
         IN /\ (IF body.kind = "none" THEN Hop!NoPayload ELSE body.payload) = p
            /\ (IF body.kind = "payload" THEN body.payload ELSE Hop!NoPayload) = p
            /\ body.kind # "problem" /\ body.kind # "envelope"
            /\ body = Hop!PayloadBody("unhealthy") <=> p = "unhealthy"
            /\ body.kind = "payload" <=> p # Hop!NoPayload
BY DEF Hop!NoBody, Hop!PayloadBody, Hop!NoPayload

\* A failure and a literal, as they are read.
LEMMA ResultIs ==
  ASSUME NEW s, NEW p, NEW e
  PROVE  /\ Hop!FailWith(s, e).status = s /\ ~Hop!IsSuccessful(Hop!FailWith(s, e))
         /\ Hop!Fail(s, e).status = s /\ ~Hop!IsSuccessful(Hop!Fail(s, e))
         /\ Hop!Literal(s, p, e).status = s /\ Hop!Literal(s, p, e).payload = p
         /\ Hop!IsSuccessful(Hop!Literal(s, p, e)) <=> ~Hop!IsFailure(s)
<1>1. /\ Hop!FailWith(s, e).status = s /\ ~Hop!IsSuccessful(Hop!FailWith(s, e))
  BY DEF Hop!FailWith, Hop!IsSuccessful
<1>2. /\ Hop!Fail(s, e).status = s /\ ~Hop!IsSuccessful(Hop!Fail(s, e))
  BY DEF Hop!Fail, Hop!FailWith, Hop!IsSuccessful
<1>3. /\ Hop!Literal(s, p, e).status = s /\ Hop!Literal(s, p, e).payload = p
      /\ Hop!Literal(s, p, e).flag = "derived"
  BY DEF Hop!Literal
<1> QED
  BY <1>1, <1>2, <1>3, Zenon DEF Hop!IsSuccessful

\* A literal has its status.
LEMMA LiteralIs ==
  ASSUME NEW s, NEW p, NEW e
  PROVE  Hop!Literal(s, p, e).status = s
BY DEF Hop!Literal

\* An envelope that does not contradict itself is read as what it says.
LEMMA EnvelopeIsRead ==
  ASSUME NEW r \in HandlerResult, Hop!IsDelivered(r)
  PROVE  /\ Hop!IsSuccessful(r) => Hop!ToResult(Hop!Answered(r)) = Hop!Literal(r.status, r.payload, <<>>)
         /\ ~Hop!IsSuccessful(r) => \E e : Hop!ToResult(Hop!Answered(r)) = Hop!FailWith(r.status, e)
<1> DEFINE a == Hop!Answered(r)
<1>1. CASE Hop!IsSuccessful(r)
  <2>1. a.statusCode = r.status /\ a.isSuccessful = "yes" /\ ~Hop!IsFailure(r.status)
    BY <1>1, AnsweredIs, Zenon
  <2>2. (IF a.body.kind = "none" THEN Hop!NoPayload ELSE a.body.payload) = r.payload
    <3>1. a.body = IF r.payload = Hop!NoPayload THEN Hop!NoBody ELSE Hop!PayloadBody(r.payload)
      BY <1>1, AnsweredIs, Zenon
    <3> HIDE DEF a
    <3> QED
      BY <3>1 DEF Hop!NoBody, Hop!PayloadBody
  <2> HIDE DEF a
  <2> QED
    BY <1>1, <2>1, <2>2, Zenon DEF Hop!ToResult, a
<1>2. CASE ~Hop!IsSuccessful(r)
  <2>1. a.statusCode = r.status /\ a.isSuccessful = "no" /\ ~Hop!IsSuccess(r.status) /\ "no" # "yes"
    BY <1>2, AnsweredIs, Zenon
  <2> HIDE DEF a
  <2> QED
    BY <1>2, <2>1, Zenon DEF Hop!ToResult, a
<1> QED
  BY <1>1, <1>2, Zenon

\* The codes of HTTP, of a success and of a failure, and back.
SuccessCode(s) == Hop!ToHTTP(s, TRUE)
FailureCode(s) == Hop!ToHTTP(s, FALSE)

LEMMA CodesAre ==
  ASSUME NEW s
  PROVE  /\ ~Hop!IsFailure(s) =>
              /\ Hop!IsSuccess(Hop!FromHTTP(SuccessCode(s))) /\ SuccessCode(s) # 503
              /\ SuccessCode(s) = 204 <=> s \in {"updated", "deleted"}
              /\ s \in {"ok", "created", "accepted", "deleted"} => Hop!FromHTTP(SuccessCode(s)) = s
         /\ ~Hop!IsSuccess(s) =>
              /\ Hop!IsFailure(Hop!FromHTTP(FailureCode(s))) /\ FailureCode(s) # 204
              /\ Hop!IsFailure(s) => Hop!FromHTTP(FailureCode(s)) = s
         /\ Hop!FromHTTP(503) = "service-unavailable"
<1> DEFINE way == SuccessCode(s)
           back == FailureCode(s)
<1>1. /\ s \in {"ok", "ignored"} => way = 200
      /\ s = "created" => way = 201
      /\ s = "accepted" => way = 202
      /\ s \in {"updated", "deleted"} => way = 204
  BY DEF SuccessCode, FailureCode, Hop!ToHTTP, Hop!HTTPCode, Hop!SuccessStatuses
<1>2. s \notin Hop!SuccessStatuses \union Hop!FailureStatuses => way = 200 /\ back = 500
  BY DEF SuccessCode, FailureCode, Hop!ToHTTP, Hop!HTTPCode
<1>3. /\ s = "bad-request" => back = 400
      /\ s = "unauthorized" => back = 401
      /\ s = "forbidden" => back = 403
      /\ s = "not-found" => back = 404
  BY DEF SuccessCode, FailureCode, Hop!ToHTTP, Hop!HTTPCode, Hop!FailureStatuses
<1>4. /\ s = "conflict" => back = 409
      /\ s = "validation-error" => back = 422
      /\ s = "too-many-requests" => back = 429
      /\ s = "unexpected-error" => back = 500
  BY DEF SuccessCode, FailureCode, Hop!ToHTTP, Hop!HTTPCode, Hop!FailureStatuses
<1>5. /\ s = "not-implemented" => back = 501
      /\ s = "service-unavailable" => back = 503
      /\ s = "timeout" => back = 504
  BY DEF SuccessCode, FailureCode, Hop!ToHTTP, Hop!HTTPCode, Hop!FailureStatuses
<1>6. /\ Hop!FromHTTP(200) = "ok" /\ Hop!FromHTTP(201) = "created" /\ Hop!FromHTTP(202) = "accepted"
      /\ Hop!FromHTTP(204) = "deleted" /\ Hop!FromHTTP(400) = "bad-request" /\ Hop!FromHTTP(401) = "unauthorized"
  BY DEF Hop!FromHTTP, Hop!StatusOfCode
<1>7. /\ Hop!FromHTTP(403) = "forbidden" /\ Hop!FromHTTP(404) = "not-found" /\ Hop!FromHTTP(409) = "conflict"
      /\ Hop!FromHTTP(422) = "validation-error" /\ Hop!FromHTTP(429) = "too-many-requests"
  BY DEF Hop!FromHTTP, Hop!StatusOfCode
<1>8. /\ Hop!FromHTTP(500) = "unexpected-error" /\ Hop!FromHTTP(501) = "not-implemented"
      /\ Hop!FromHTTP(503) = "service-unavailable" /\ Hop!FromHTTP(504) = "timeout"
  BY DEF Hop!FromHTTP, Hop!StatusOfCode
<1> HIDE DEF way, back
<1>9. /\ \A t \in Hop!SuccessStatuses : Hop!IsSuccess(t) /\ ~Hop!IsFailure(t)
      /\ \A t \in Hop!FailureStatuses : Hop!IsFailure(t) /\ ~Hop!IsSuccess(t)
      /\ \A t : t \notin Hop!SuccessStatuses \union Hop!FailureStatuses => ~Hop!IsSuccess(t) /\ ~Hop!IsFailure(t)
  BY DEF Hop!IsSuccess, Hop!IsFailure, Hop!SuccessStatuses, Hop!FailureStatuses
<1>10. /\ Hop!IsSuccess("ok") /\ Hop!IsSuccess("created") /\ Hop!IsSuccess("accepted") /\ Hop!IsSuccess("deleted")
       /\ Hop!IsFailure("unexpected-error")
  BY DEF Hop!IsSuccess, Hop!IsFailure, Hop!SuccessStatuses, Hop!FailureStatuses
<1> DEFINE Going == /\ Hop!IsSuccess(Hop!FromHTTP(way)) /\ way # 503
                    /\ (way = 204 <=> s \in {"updated", "deleted"})
                    /\ (s \in {"ok", "created", "accepted", "deleted"} => Hop!FromHTTP(way) = s)
<1>11. ASSUME ~Hop!IsFailure(s) PROVE Going
  <2>1. CASE s \in {"ok", "ignored"}
    <3>1. way = 200
      BY <1>1, <2>1
    <3>2. way # 503 /\ way # 204
      BY <3>1
    <3>3. s \notin {"updated", "deleted"} /\ s \notin {"created", "accepted", "deleted"}
      BY <2>1
    <3> QED
      BY <1>6, <1>10, <3>1, <3>2, <3>3
  <2>2. CASE s = "created"
    <3>1. way = 201
      BY <1>1, <2>2
    <3>2. way # 503 /\ way # 204
      BY <3>1
    <3>3. s \notin {"updated", "deleted"}
      BY <2>2
    <3> QED
      BY <1>6, <1>10, <2>2, <3>1, <3>2, <3>3
  <2>3. CASE s = "accepted"
    <3>1. way = 202
      BY <1>1, <2>3
    <3>2. way # 503 /\ way # 204
      BY <3>1
    <3>3. s \notin {"updated", "deleted"}
      BY <2>3
    <3> QED
      BY <1>6, <1>10, <2>3, <3>1, <3>2, <3>3
  <2>4. CASE s \in {"updated", "deleted"}
    <3>1. way = 204
      BY <1>1, <2>4
    <3>2. way # 503
      BY <3>1
    <3>3. s \notin {"ok", "created", "accepted"}
      BY <2>4
    <3> QED
      BY <1>6, <1>10, <2>4, <3>1, <3>2, <3>3
  <2>5. CASE s \notin {"ok", "ignored", "created", "accepted", "updated", "deleted"}
    <3>1. s \notin Hop!SuccessStatuses \union Hop!FailureStatuses
      BY <1>9, <1>11, <2>5 DEF Hop!SuccessStatuses
    <3>2. way = 200
      BY <1>2, <3>1
    <3>3. way # 503 /\ way # 204
      BY <3>2
    <3> QED
      BY <1>6, <1>10, <2>5, <3>2, <3>3
  <2> QED
    BY <2>1, <2>2, <2>3, <2>4, <2>5
<1>12. ASSUME ~Hop!IsSuccess(s)
       PROVE  Hop!IsFailure(Hop!FromHTTP(back)) /\ back # 204 /\ (Hop!IsFailure(s) => Hop!FromHTTP(back) = s)
  <2>1. CASE Hop!IsFailure(s)
    <3>1. s \in {"bad-request", "unauthorized", "forbidden", "not-found", "conflict", "validation-error",
                 "too-many-requests", "unexpected-error", "not-implemented", "service-unavailable", "timeout"}
      BY <2>1 DEF Hop!IsFailure, Hop!FailureStatuses
    <3>2. Hop!FromHTTP(back) = s
      BY <1>3, <1>4, <1>5, <1>6, <1>7, <1>8, <3>1
    <3>3. back \in {400, 401, 403, 404, 409, 422, 429, 500, 501, 503, 504}
      BY <1>3, <1>4, <1>5, <3>1
    <3>4. back # 204
      BY <3>3
    <3> QED
      BY <2>1, <3>2, <3>4
  <2>2. CASE ~Hop!IsFailure(s)
    <3>1. s \notin Hop!SuccessStatuses \union Hop!FailureStatuses
      BY <1>9, <1>12, <2>2
    <3>2. back = 500
      BY <1>2, <3>1
    <3>3. back # 204
      BY <3>2
    <3> QED
      BY <1>8, <1>10, <2>2, <3>2, <3>3
  <2> QED
    BY <2>1, <2>2
<1> QED
  BY <1>8, <1>11, <1>12 DEF way, back

\* An envelope over HTTP or from a Lambda function is read as an envelope.
LEMMA EnvelopesTravel ==
  ASSUME NEW r \in HandlerResult
  PROVE  Hop!OverEnvelope(r) = Hop!ToResult(Hop!Answered(r)) /\ Hop!OverLambda(r) = Hop!ToResult(Hop!Answered(r))
<1> DEFINE a == Hop!Answered(r)
           reply == Hop!EnvelopeReply(a)
           output == [kind |-> "envelope", envelope |-> a]
<1>1. reply.code # 204 /\ reply.body.kind = "envelope" /\ reply.body.envelope = a
  BY DEF Hop!EnvelopeReply
<1>2. output.kind = "envelope" /\ output.envelope = a /\ output.kind # "function error"
  <2>1. "envelope" # "function error"
    BY Zenon
  <2> QED
    BY <2>1, Zenon
<1> HIDE DEF reply, output, a
<1>3. Hop!OverEnvelope(r) = Hop!ToResult(a)
  <2>1. Hop!OverEnvelope(r) = Hop!HTTPReceive(Hop!Sent(reply))
    BY Zenon DEF Hop!OverEnvelope, reply, a
  <2>2. Hop!Sent(reply) = reply
    BY <1>1 DEF Hop!Sent
  <2> QED
    BY <1>1, <2>1, <2>2, Zenon DEF Hop!HTTPReceive
<1>4. Hop!OverLambda(r) = Hop!ToResult(a)
  <2>1. Hop!OverLambda(r) = Hop!LambdaReceive("RequestResponse", output)
    BY Zenon DEF Hop!OverLambda, output, a
  <2> QED
    BY <1>2, <2>1, Zenon DEF Hop!LambdaReceive
<1> QED
  BY <1>3, <1>4, Zenon DEF a

\* What a client of a route hears of a failure, and of a success.
LEMMA RouteTellsFailure ==
  ASSUME NEW topic, NEW r \in HandlerResult, Hop!IsDelivered(r), ~Hop!IsSuccessful(r)
  PROVE  /\ ~Hop!IsSuccessful(Hop!OverHTTP(topic, r))
         /\ r.status # "" => Hop!OverHTTP(topic, r).status = r.status
<1> DEFINE a == Hop!Answered(r)
           reply == Hop!HTTPResponse(topic, a)
           code == FailureCode(r.status)
<1>1. PICK d : a.body = Hop!ProblemBody(d) /\ d.benzeneStatus = r.status
  BY AnsweredIs, Zenon
<1>2. a.statusCode = r.status /\ a.isSuccessful = "no" /\ ~Hop!IsSuccess(r.status)
  BY AnsweredIs, Zenon
<1> DEFINE said == [d EXCEPT !.status = code]
<1>3. reply.code = code /\ reply.body = Hop!ProblemBody(said)
  <2>1. a.body.kind = "problem" /\ a.body.problem = d
    BY <1>1 DEF Hop!ProblemBody
  <2> HIDE DEF a
  <2>2. (a.isSuccessful = "yes") = FALSE
    BY <1>2
  <2>3. Hop!ToHTTP(a.statusCode, a.isSuccessful = "yes") = code
    BY <1>2, <2>2, Zenon DEF FailureCode
  <2>4. reply = [code |-> code, body |-> Hop!ProblemBody(said)]
    BY <2>1, <2>2, <2>3, Zenon DEF Hop!HTTPResponse
  <2> HIDE DEF reply, code, said
  <2> QED
    BY <2>4
<1>4. Hop!IsFailure(Hop!FromHTTP(code)) /\ code # 204
  BY <1>2, CodesAre
<1> HIDE DEF reply, code
<1>5. Hop!Sent(reply) = reply
  BY <1>3, <1>4 DEF Hop!Sent
<1>6. said.benzeneStatus = r.status
  BY <1>1
<1> HIDE DEF said
<1>7. Hop!ProblemBody(said).kind # "envelope" /\ Hop!DocumentOf(Hop!ProblemBody(said)) = said
  BY DEF Hop!ProblemBody, Hop!DocumentOf
<1>8. Hop!OverHTTP(topic, r) = Hop!FromHTTPStatus(code, Hop!ProblemBody(said))
  BY <1>3, <1>5, <1>7, Zenon DEF Hop!OverHTTP, Hop!HTTPReceive, reply, a
<1> DEFINE status == IF r.status # "" /\ ~Hop!IsSuccess(r.status) THEN r.status ELSE Hop!FromHTTP(code)
<1>9. Hop!FromHTTPStatus(code, Hop!ProblemBody(said)) =
        IF Hop!Problems(said) # <<>> THEN Hop!FailWith(status, Hop!Problems(said)) ELSE Hop!Fail(status, <<"HTTP">>)
  BY <1>4, <1>6, <1>7, Zenon DEF Hop!FromHTTPStatus
<1>10. r.status # "" => status = r.status
  BY <1>2, Zenon
<1> HIDE DEF status
<1> DEFINE heard == Hop!OverHTTP(topic, r)
<1> HIDE DEF heard
<1>11. \E e : heard = Hop!FailWith(status, e)
  BY <1>8, <1>9, Zenon DEF Hop!Fail, heard
<1>12. heard.status = status /\ ~Hop!IsSuccessful(heard)
  BY <1>11, ResultIs
<1> QED
  BY <1>10, <1>12, Zenon DEF heard

\* A health report is heard as it is, any other success as one.
LEMMA RouteTellsSuccess ==
  ASSUME NEW topic, NEW r \in HandlerResult, Hop!IsDelivered(r), Hop!IsSuccessful(r)
  PROVE  LET heard == Hop!OverHTTP(topic, r)
         IN IF topic \in Hop!HealthTopics /\ r.payload = "unhealthy"
            THEN heard.status = "service-unavailable" /\ ~Hop!IsSuccessful(heard)
            ELSE /\ Hop!IsSuccess(heard.status) /\ Hop!IsSuccessful(heard)
                 /\ r.status \in {"ok", "created", "accepted", "deleted"} => heard.status = r.status
                 /\ r.status \notin {"updated", "deleted"} => heard.payload = r.payload
<1> DEFINE a == Hop!Answered(r)
           reply == Hop!HTTPResponse(topic, a)
           body == IF r.payload = Hop!NoPayload THEN Hop!NoBody ELSE Hop!PayloadBody(r.payload)
           unhealthy == topic \in Hop!HealthTopics /\ r.payload = "unhealthy"
           code == IF unhealthy THEN 503 ELSE SuccessCode(r.status)
           empty == [type |-> "", status |-> 0, detail |-> Hop!NoText, benzeneStatus |-> "", errors |-> <<>>]
<1>1. a.statusCode = r.status /\ a.isSuccessful = "yes" /\ ~Hop!IsFailure(r.status) /\ a.body = body
  BY AnsweredIs, Zenon
<1>2. /\ (IF body.kind = "payload" THEN body.payload ELSE Hop!NoPayload) = r.payload
      /\ body.kind # "problem" /\ body.kind # "envelope"
      /\ body = Hop!PayloadBody("unhealthy") <=> r.payload = "unhealthy"
  BY BodyIs
<1> HIDE DEF a, body
<1>3. reply = [code |-> code, body |-> body]
  <2>1. (a.isSuccessful = "yes") = TRUE
    BY <1>1
  <2>2. Hop!ToHTTP(a.statusCode, a.isSuccessful = "yes") = SuccessCode(r.status)
    BY <1>1, <2>1, Zenon DEF SuccessCode
  <2>3. a.isSuccessful = "yes" /\ topic \in Hop!HealthTopics /\ a.body = Hop!PayloadBody("unhealthy") <=> unhealthy
    BY <1>1, <1>2, Zenon
  <2> HIDE DEF unhealthy
  <2> QED
    BY <1>1, <2>1, <2>2, <2>3, Zenon DEF Hop!HTTPResponse
<1> DEFINE sent == IF code = 204 THEN Hop!NoBody ELSE body
<1>4. Hop!Sent(reply).code = code /\ Hop!Sent(reply).body = sent
  <2>1. reply.code = code /\ reply.body = body
    BY <1>3
  <2> HIDE DEF reply, code
  <2>2. [reply EXCEPT !.body = Hop!NoBody].code = reply.code
    BY <1>3
  <2>3. [reply EXCEPT !.body = Hop!NoBody].body = Hop!NoBody
    BY <1>3
  <2> QED
    BY <2>1, <2>2, <2>3, Zenon DEF Hop!Sent
<1>5. /\ sent.kind # "problem" /\ sent.kind # "envelope"
      /\ code # 204 => (IF sent.kind = "payload" THEN sent.payload ELSE Hop!NoPayload) = r.payload
  <2> HIDE DEF code
  <2>1. Hop!NoBody.kind = "none"
    BY DEF Hop!NoBody
  <2> QED
    BY <1>2, <2>1
<1> HIDE DEF sent, reply, code
<1>6. Hop!OverHTTP(topic, r) = Hop!FromHTTPStatus(code, sent)
  BY <1>4, <1>5, Zenon DEF Hop!OverHTTP, Hop!HTTPReceive, reply, a
<1>7. Hop!DocumentOf(sent) = empty
  BY <1>5, Zenon DEF Hop!DocumentOf
<1>8. empty.benzeneStatus = "" /\ empty.errors = <<>> /\ empty.detail = Hop!NoText
  OBVIOUS
<1> HIDE DEF empty
<1>9. Hop!Problems(empty) = <<>>
  BY <1>8, Zenon DEF Hop!Problems
<1> DEFINE payload == IF sent.kind = "payload" THEN sent.payload ELSE Hop!NoPayload
<1>10. Hop!FromHTTPStatus(code, sent) =
         IF Hop!IsFailure(Hop!FromHTTP(code)) THEN Hop!Fail(Hop!FromHTTP(code), <<"HTTP">>)
         ELSE Hop!Literal(Hop!FromHTTP(code), payload, <<>>)
  BY <1>7, <1>8, <1>9, Zenon DEF Hop!FromHTTPStatus
<1> HIDE DEF payload
<1>11. CASE unhealthy
  <2>1. Hop!FromHTTP(code) = "service-unavailable"
    <3>1. code = 503
      BY <1>11, Zenon DEF code
    <3>2. Hop!FromHTTP(503) = "service-unavailable"
      BY CodesAre
    <3> QED
      BY <3>1, <3>2
  <2>2. Hop!IsFailure("service-unavailable")
    BY DEF Hop!IsFailure, Hop!FailureStatuses
  <2>3. Hop!OverHTTP(topic, r) = Hop!Fail("service-unavailable", <<"HTTP">>)
    BY <1>6, <1>10, <2>1, <2>2, Zenon
  <2> DEFINE heard == Hop!OverHTTP(topic, r)
  <2>4. heard = Hop!FailWith("service-unavailable", <<Hop!FromMessage(<<"HTTP">>)>>)
    BY <2>3, Zenon DEF Hop!Fail
  <2> HIDE DEF heard
  <2>5. heard.status = "service-unavailable" /\ ~Hop!IsSuccessful(heard)
    BY <2>4, ResultIs
  <2> QED
    BY <1>11, <2>5, Zenon DEF heard
<1>12. CASE ~unhealthy
  <2>1. code = SuccessCode(r.status)
    BY <1>12, Zenon DEF code
  <2>2. /\ Hop!IsSuccess(Hop!FromHTTP(code))
        /\ code = 204 <=> r.status \in {"updated", "deleted"}
        /\ r.status \in {"ok", "created", "accepted", "deleted"} => Hop!FromHTTP(code) = r.status
    BY <1>1, <2>1, CodesAre
  <2>3. ~Hop!IsFailure(Hop!FromHTTP(code))
    BY <2>2, Classes, Zenon
  <2>4. Hop!OverHTTP(topic, r) = Hop!Literal(Hop!FromHTTP(code), payload, <<>>)
    BY <1>6, <1>10, <2>3, Zenon
  <2>5. r.status \notin {"updated", "deleted"} => payload = r.payload
    BY <1>5, <2>2 DEF payload
  <2>6. /\ Hop!OverHTTP(topic, r).status = Hop!FromHTTP(code) /\ Hop!OverHTTP(topic, r).payload = payload
        /\ Hop!IsSuccessful(Hop!OverHTTP(topic, r))
    <3> DEFINE heard == Hop!OverHTTP(topic, r)
               from == Hop!FromHTTP(code)
    <3> HIDE DEF heard, from
    <3>1. heard = Hop!Literal(from, payload, <<>>) /\ ~Hop!IsFailure(from)
      BY <2>3, <2>4, Zenon DEF heard, from
    <3>2. heard.status = from /\ heard.payload = payload /\ Hop!IsSuccessful(heard)
      BY <3>1, ResultIs
    <3> QED
      BY <3>2, Zenon DEF heard, from
  <2> QED
    BY <1>12, <2>2, <2>5, <2>6, Zenon
<1> QED
  BY <1>11, <1>12, Zenon

\* A success of the vocabulary is OK.
LEMMA GRPCCodes ==
  ASSUME NEW s, Hop!IsSuccess(s)
  PROVE  Hop!ToGRPC(s) = "OK"
BY DEF Hop!ToGRPC, Hop!GRPCCode, Hop!IsSuccess, Hop!SuccessStatuses

\* A failed reply has its trailer, a successful one its payload too.
LEMMA FailedIs ==
  ASSUME NEW code, NEW status, NEW detail, NEW violations
  PROVE  Hop!Failed(code, status, detail, violations).trailer = status
BY DEF Hop!Failed

LEMMA ReplyIs ==
  ASSUME NEW status, NEW p
  PROVE  LET f == [code |-> "OK", trailer |-> status, detail |-> Hop!NoText, violations |-> <<>>, payload |-> p]
         IN f.code = "OK" /\ f.trailer = status /\ f.payload = p
OBVIOUS

LEMMA PayloadIs ==
  ASSUME NEW p
  PROVE  Hop!PayloadBody(p).kind = "payload" /\ Hop!PayloadBody(p).payload = p
BY DEF Hop!PayloadBody

\* What a gRPC client hears: the trailer's status, and a payload with it or none.
LEMMA GRPCTells ==
  ASSUME NEW r \in HandlerResult, Hop!IsDelivered(r), r.status # ""
  PROVE  /\ Hop!OverGRPC(r).status = r.status
         /\ Hop!IsSuccess(r.status) /\ r.payload # Hop!NoPayload =>
              Hop!OverGRPC(r) = Hop!Literal(r.status, r.payload, <<>>)
<1> DEFINE a == Hop!Answered(r)
           reply == Hop!GRPCReply(a, "live")
<1>1. a.statusCode = r.status
  BY AnsweredIs, Zenon
<1>2. Hop!OverGRPC(r) = Hop!GRPCReceive(reply)
  BY Zenon DEF Hop!OverGRPC
<1>3. \A code, detail, violations :
        Hop!Failed(code, r.status, detail, violations).trailer = r.status
  BY FailedIs, Zenon
<1>4. \A payload :
        LET f == [code |-> "OK", trailer |-> r.status, detail |-> Hop!NoText, violations |-> <<>>, payload |-> payload]
        IN f.code = "OK" /\ f.trailer = r.status /\ f.payload = payload
  BY ReplyIs, Zenon
<1>5. reply.trailer = r.status
  <2> HIDE DEF a
  <2>1. CASE Hop!ToGRPC(a.statusCode) # "OK"
    <3>1. reply = Hop!Failed(Hop!ToGRPC(a.statusCode), r.status, Hop!ErrorDetail(a), Hop!FieldViolations(a))
      BY <1>1, <2>1, Zenon DEF Hop!GRPCReply
    <3> HIDE DEF reply
    <3> QED
      BY <1>3, <3>1, Zenon
  <2>2. CASE Hop!ToGRPC(a.statusCode) = "OK" /\ a.body.kind # "payload"
    <3>1. PICK detail : reply = Hop!Failed("Internal", r.status, detail, <<>>)
      BY <1>1, <2>2, Zenon DEF Hop!GRPCReply
    <3> HIDE DEF reply
    <3> QED
      BY <1>3, <3>1, Zenon
  <2>3. CASE Hop!ToGRPC(a.statusCode) = "OK" /\ a.body.kind = "payload"
    <3>1. PICK p :
            reply = [code |-> "OK", trailer |-> r.status, detail |-> Hop!NoText, violations |-> <<>>, payload |-> p]
      BY <1>1, <2>3, Zenon DEF Hop!GRPCReply
    <3> HIDE DEF reply
    <3> QED
      BY <1>4, <3>1, Zenon
  <2> QED
    BY <2>1, <2>2, <2>3, Zenon
<1>6. Hop!RecoverStatus(reply) = r.status
  BY <1>5, Zenon DEF Hop!RecoverStatus
<1>7. ASSUME Hop!IsSuccess(r.status), r.payload # Hop!NoPayload
      PROVE  reply.code = "OK" /\ reply.payload = r.payload
  <2>1. Hop!IsSuccessful(r)
    BY <1>7, Zenon DEF Hop!IsDelivered, Hop!IsConsistent
  <2>2. a.body = Hop!PayloadBody(r.payload)
    BY <1>7, <2>1, AnsweredIs, Zenon
  <2>3. a.body.kind = "payload" /\ a.body.payload = r.payload
    BY <2>2, PayloadIs, Zenon
  <2>4. Hop!ToGRPC(a.statusCode) = "OK"
    BY <1>1, <1>7, GRPCCodes, Zenon
  <2> HIDE DEF a
  <2> QED
    BY <1>1, <1>4, <2>3, <2>4, Zenon DEF Hop!GRPCReply
<1> HIDE DEF reply
<1>8. Hop!OverGRPC(r) = IF reply.code # "OK" THEN Hop!Literal(r.status, Hop!NoPayload, Hop!RecoverErrors(reply))
                        ELSE Hop!Literal(r.status, reply.payload, <<>>)
  BY <1>2, <1>6, Zenon DEF Hop!GRPCReceive
<1>9. \E p, e : Hop!OverGRPC(r) = Hop!Literal(r.status, p, e)
  BY <1>8, Zenon
<1> DEFINE remote == Hop!OverGRPC(r)
<1> HIDE DEF remote
<1>10. remote.status = r.status
  <2>1. PICK p, e : remote = Hop!Literal(r.status, p, e)
    BY <1>9, Zenon DEF remote
  <2> QED
    BY <2>1, LiteralIs, Zenon
<1> QED
  BY <1>7, <1>8, <1>10, Zenon DEF remote

\* In the same process a delivered result is what it was, but for its flag.
LEMMA ProcessTells ==
  ASSUME NEW r \in HandlerResult, Hop!IsDelivered(r)
  PROVE  Hop!InTheSameProcess(r) = Hop!Literal(r.status, r.payload, r.errors)
<1> DEFINE ending == [kind |-> "result", result |-> r]
<1>1. ending.kind = "result" /\ ending.result = r
  OBVIOUS
<1>2. "result" # "error" /\ "result" # "no result"
  BY Zenon
<1> HIDE DEF ending
<1> QED
  BY <1>1, <1>2, Zenon DEF Hop!InTheSameProcess, Hop!InProcess, Hop!ToRawResult, Hop!IsDelivered, ending

\* For any route and any result a handler may answer, status and document of the
\* application's own included: over an envelope and from a Lambda function a success is
\* heard as the success it was and a failure as one with its status; a native route tells
\* one from the other, an unhealthy report for a failure, names a failure's status and
\* carries a success's payload unless its code has no body; gRPC names every status, and in
\* the same process nothing of status, payload and errors is lost (ToResponse and ToResult,
\* dispatch.go:95-204; fromHTTPStatus, httpclient.go:114; recoverStatus, client.go:151).
THEOREM OutcomesSurvive ==
  ASSUME NEW topic, NEW r \in HandlerResult, Hop!IsDelivered(r)
  PROVE  LET over == Hop!OverEnvelope(r)
             heard == Hop!OverHTTP(topic, r)
             unhealthy == topic \in Hop!HealthTopics /\ r.payload = "unhealthy"
         IN /\ Hop!OverLambda(r) = over /\ over.status = r.status
            /\ Hop!IsSuccessful(over) <=> Hop!IsSuccessful(r)
            /\ Hop!IsSuccessful(r) => over = Hop!Literal(r.status, r.payload, <<>>)
            /\ Hop!IsSuccessful(heard) <=> Hop!IsSuccessful(r) /\ ~unhealthy
            /\ ~Hop!IsSuccessful(r) /\ r.status # "" => heard.status = r.status
            /\ Hop!IsSuccessful(r) /\ ~unhealthy /\ r.status \notin {"updated", "deleted"} => heard.payload = r.payload
            /\ r.status # "" => Hop!OverGRPC(r).status = r.status
            /\ Hop!IsSuccess(r.status) /\ r.payload # Hop!NoPayload =>
                 Hop!OverGRPC(r) = Hop!Literal(r.status, r.payload, <<>>)
            /\ Hop!InTheSameProcess(r) = Hop!Literal(r.status, r.payload, r.errors)
<1> DEFINE over == Hop!OverEnvelope(r)
           heard == Hop!OverHTTP(topic, r)
           unhealthy == topic \in Hop!HealthTopics /\ r.payload = "unhealthy"
<1>1. Hop!OverLambda(r) = over
  BY EnvelopesTravel, Zenon
<1>2. /\ Hop!IsSuccessful(r) => over = Hop!Literal(r.status, r.payload, <<>>)
      /\ ~Hop!IsSuccessful(r) => \E e : over = Hop!FailWith(r.status, e)
  BY EnvelopesTravel, EnvelopeIsRead, Zenon
<1>3. Hop!IsSuccessful(r) => ~Hop!IsFailure(r.status)
  BY Zenon DEF Hop!IsSuccessful
<1> HIDE DEF over, heard, unhealthy
<1>4. over.status = r.status /\ (Hop!IsSuccessful(over) <=> Hop!IsSuccessful(r))
  <2>1. CASE Hop!IsSuccessful(r)
    BY <1>2, <1>3, <2>1, ResultIs
  <2>2. CASE ~Hop!IsSuccessful(r)
    BY <1>2, <2>2, ResultIs
  <2> QED
    BY <2>1, <2>2, Zenon
<1>5. ~Hop!IsSuccessful(r) => ~Hop!IsSuccessful(heard) /\ (r.status # "" => heard.status = r.status)
  BY RouteTellsFailure, Zenon DEF heard
<1>6. Hop!IsSuccessful(r) =>
        /\ Hop!IsSuccessful(heard) <=> ~unhealthy
        /\ ~unhealthy /\ r.status \notin {"updated", "deleted"} => heard.payload = r.payload
  BY RouteTellsSuccess, Zenon DEF heard, unhealthy
<1>7. Hop!InTheSameProcess(r) = Hop!Literal(r.status, r.payload, r.errors)
  BY ProcessTells, Zenon
<1>8. r.status # "" =>
        /\ Hop!OverGRPC(r).status = r.status
        /\ Hop!IsSuccess(r.status) /\ r.payload # Hop!NoPayload => Hop!OverGRPC(r) = Hop!Literal(r.status, r.payload, <<>>)
  BY GRPCTells, Zenon
<1>9. Hop!IsSuccess(r.status) => r.status # ""
  BY Classes, Zenon
<1>10. Hop!IsSuccessful(heard) <=> Hop!IsSuccessful(r) /\ ~unhealthy
  BY <1>5, <1>6, Zenon
<1> QED
  BY <1>1, <1>2, <1>4, <1>5, <1>6, <1>7, <1>8, <1>9, <1>10, Zenon DEF over, heard, unhealthy
=============================================================================
