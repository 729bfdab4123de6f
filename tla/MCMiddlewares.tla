---------------------------- MODULE MCMiddlewares ----------------------------
(***************************************************************************)
(* The middlewares with liveness side by side, one of them in each         *)
(* behaviour: the bulkhead, the onion of Resilience, and idempotency.      *)
(* They share no state; each message of an application with all of them    *)
(* meets them one after the other.                                         *)
(***************************************************************************)
EXTENDS Bulkhead, Sequences

CONSTANTS
  Client, Apps, Retries, TripAfter, Probes,   \* Resilience; Client are its callers
  Message, Unkeyed, Delivery, LeaseTTL, CompletedTTL

VARIABLES
  setup,
  app, pos, heading, err, result, parent, fired, attempt, counted, breaker, healthy,
  entries, place, msg, tracked, lease, pending, handled, window, overran

Onion == INSTANCE Resilience WITH Caller <- Client

Dedup == INSTANCE Idempotency WITH pc <- place

\* What the constants' comments say.
ASSUME MiddlewareAssumption ==
  /\ IsFiniteSet(Client) /\ Probes \in Nat \ {0}
  /\ \A a \in Apps : a.callers \subseteq Client /\ a.chain \in Seq(Onion!Middleware)
  /\ Message # {} /\ LeaseTTL \in Nat \ {0} /\ CompletedTTL \in Nat \ {0}

\* The values of the constants for TLC (and a message with a key and one without, two
\* deliveries at once, a handler that may outlive its lease): a chain and who calls it; and one of no callers for
\* the behaviours of the others.
App(chain, callers) == [chain |-> chain, callers |-> callers]

Chains ==
  {App(<<"fallback", "breaker", "retry", "timeout">>, {"one"}),
   App(<<"timeout", "retry">>, {"one"}),
   App(<<"retry", "breaker", "timeout">>, {"one"}),
   App(<<"breaker">>, {"one", "two"}), App(<<>>, {})}

dedupVars == <<entries, place, msg, tracked, lease, pending, handled, window, overran>>
onionVars == <<app, pos, heading, err, result, parent, fired, attempt, counted, breaker, healthy>>
all == <<setup, vars, onionVars, dedupVars>>

MCInit ==
  /\ setup \in {"bulkhead", "onion", "idempotency"}
  /\ Init /\ Onion!Init /\ Dedup!Init
  /\ setup = "onion" <=> app.callers # {}

MCNext ==
  /\ UNCHANGED setup
  /\ \/ setup = "bulkhead" /\ Next /\ UNCHANGED <<onionVars, dedupVars>>
     \/ setup = "onion" /\ Onion!Next /\ UNCHANGED <<vars, dedupVars>>
     \/ setup = "idempotency" /\ Dedup!Next /\ UNCHANGED <<vars, onionVars>>

\* The fairness of the one that runs.
MCFairness ==
  \/ setup = "bulkhead" /\ Fairness
  \/ setup = "onion" /\ Onion!Fairness
  \/ setup = "idempotency" /\ Dedup!Fairness

MCSpec == MCInit /\ [][MCNext]_all /\ MCFairness

-----------------------------------------------------------------------------
\* What reaches the transport is the last attempt's outcome, or a middleware's
\* verdict on it: retry, timeout and fallback neither resurrect an earlier attempt's
\* result nor turn a deadline of their own into an error; half-open, the breaker
\* lets its probes through and no more (timeout.go, retry.go, fallback.go,
\* circuitbreaker.go).
AnswersAreTrue ==
  /\ Onion!AnswerIsTheLastAttempts
  /\ Onion!ContextErrorsAreTheCallers
  /\ Onion!DegradesGracefully
  /\ Onion!ProbesAreBounded

\* The breaker changes state on a sign of the dependency's health, by a call of its
\* current generation (circuitbreaker.go:118-170).
BreakerActsOnEvidence == Onion!BreakerActsOnEvidence

\* One delivery at a time is in the handler of a key while no handler outlives its
\* lease, and nothing is acknowledged that was not handled (idempotency.go:95-150).
DedupIsSafe == Dedup!OneAtATime /\ Dedup!AckImpliesDone

\* A finished key suppresses its duplicates for as long as Complete promised, unless a
\* handler outlived its lease (store.go:86-120).
DuplicatesSuppressed == Dedup!DuplicatesSuppressed

\* One invocation of those that are alike, let in and ended.
First == CHOOSE c \in Caller : TRUE
Regular == CHOOSE c \in Client : \A a \in Apps : a.callers = {} \/ c \in a.callers
Entered == \/ setup = "bulkhead" /\ pc[First] = "waiting"
           \/ setup = "onion" /\ heading[Regular] = "down"
Ended == IF setup = "bulkhead" THEN pc[First] = "idle" ELSE heading[Regular] = "idle"

\* Every invocation ends, once the downstream is well the breaker closes for good, and
\* every message is processed although deliveries die and the store fails.
Live ==
  /\ Entered ~> Ended
  /\ setup = "onion" => Onion!BreakerRecovers
  /\ setup = "idempotency" => Dedup!EventuallyProcessed
=============================================================================
