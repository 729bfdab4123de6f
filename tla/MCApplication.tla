---------------------------- MODULE MCApplication ---------------------------
(***************************************************************************)
(* The parts every application is built on: the handler registry with the   *)
(* router, the dependency container, and the keys that its tokens are      *)
(* verified with.  They share no state, so the first state picks one of    *)
(* them, which then runs alone.                                            *)
(*                                                                         *)
(* For TLC, the container: two goroutines of one invocation and one of     *)
(* another, and a repository whose factory resolves a connection.  The     *)
(* resolver: two keys and a keyless one, two rotations, a window of two.   *)
(***************************************************************************)
EXTENDS Registry

CONSTANTS
  Service, Scope, Thread, ScopeOf, DependsOn, MaxCalls, MaxResolves,
  Key, Keyless, KeySets, MinRefetch, FetchTime, MaxRotations,
  repository, connection, s1, s2, t1, t2, t3   \* values of Service, Scope and Thread for TLC

VARIABLES
  setup,
  phase, calls, registrations, singletons, scoped, stack, resolves, made, got,
  published, rotations, steady, fetched, keys, elapsed, holder, client, quiet, stale

Container == INSTANCE Container WITH Key <- Service

Keys == INSTANCE KeyResolver

\* What the constants' comments say.
ASSUME ApplicationAssumption ==
  /\ ScopeOf \in [Thread -> Scope] /\ DependsOn \in [Service -> SUBSET Service]
  /\ MaxCalls \in Nat /\ MaxResolves \in Nat
  /\ Keys!Nobody \notin Key /\ KeySets \subseteq SUBSET Key
  /\ MinRefetch \in Nat /\ FetchTime \in Nat /\ FetchTime < MinRefetch

\* The values of the constants for TLC.
TwoInOne == [t \in {t1, t2, t3} |-> IF t = t3 THEN s2 ELSE s1]
OneOnOther == [k \in {repository, connection} |-> IF k = repository THEN {connection} ELSE {}]

keyVars == <<published, rotations, steady, fetched, keys, elapsed, holder, client, quiet, stale>>
containerVars == <<phase, calls, registrations, singletons, scoped, stack, resolves, made, got>>

MCInit ==
  /\ setup \in {"registry", "container", "keys"}
  /\ Init /\ Container!Init /\ Keys!Init
  /\ setup # "keys" => published = CHOOSE set \in KeySets : TRUE

MCNext ==
  /\ UNCHANGED setup
  /\ \/ setup = "registry" /\ Next /\ UNCHANGED <<containerVars, keyVars>>
     \/ setup = "container" /\ Container!Next /\ UNCHANGED <<vars, keyVars>>
     \/ setup = "keys" /\ Keys!Next /\ UNCHANGED <<vars, containerVars>>

all == <<setup, vars, containerVars, keyVars>>

MCSpec ==
  /\ MCInit /\ [][MCNext]_all
  /\ \/ setup = "registry"
     \/ setup = "container" /\ Container!Fairness
     \/ setup = "keys" /\ Keys!Fairness

-----------------------------------------------------------------------------
\* A topic has one default at most and unversioned messages reach it, and the
\* start-up warning names exactly the topics where they would reach nobody.
DefaultsAreExact == OneDefault /\ WarnsExactly

\* Every caller of a singleton, in every scope, is given the same instance; the
\* callers of one scope share a scoped instance, and no other scope sees it.
OneInstance == Container!OneSingleton /\ Container!OnePerScope

\* However many tokens miss the cache, the issuer's endpoint is fetched from by one
\* caller at a time and once in the window; and a token under a published key is
\* refused only where the cache could not know the key yet (jwks.go:138-195).
RefetchIsFair == Keys!EndpointIsSpared /\ Keys!RefusalIsExplained

\* No resolution waits for ever, nested and racing ones included; and once the issuer
\* has settled the cache learns its keys.
ResolutionEnds == Container!ResolutionEnds /\ (setup = "keys" => Keys!LearnsRotatedKeys)
=============================================================================
