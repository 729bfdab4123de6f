---------------------------- MODULE KeyResolver ----------------------------
(***************************************************************************)
(* auth/jwks.go: the resolver that caches an issuer's key set, under       *)
(* concurrent token validations (jwt.go:239-248), rotations of the issuer's*)
(* keys and fetches that fail.  ResolveKeys holds the mutex across its     *)
(* fetch, so a validation that arrives meanwhile waits; time passes and the*)
(* issuer rotates all the same.                                            *)
(*                                                                         *)
(* A key is named by its kid; Keyless are the keys published without one.  *)
(* Each key has a client whose tokens it signs, with the key's kid, or none*)
(* if the key has none.                                                    *)
(***************************************************************************)
EXTENDS Naturals

CONSTANTS
  Key, Keyless,  \* the issuer's signing keys over time; those without a kid
  KeySets,       \* the key sets the issuer publishes
  MinRefetch,    \* WithMinRefetchInterval, in ticks
  FetchTime,     \* the HTTP client's timeout, less than MinRefetch (default: 10s of 5m)
  MaxRotations   \* bound: rotations

VARIABLES
  published,     \* the issuer's current key set
  rotations,
  steady,        \* from now on no rotation and no fetch that fails
  fetched, keys, \* the resolver's cache
  elapsed,       \* ticks since lastAttempt, up to MinRefetch
  holder,        \* who holds the mutex across a fetch
  client,        \* where each client's request is
  quiet,         \* history: ticks since a fetch began
  stale          \* history: published keys that the cache has had no chance to learn

vars == <<published, rotations, steady, fetched, keys, elapsed, holder, client, quiet, stale>>

Nobody == "nobody"

Init ==
  /\ published \in KeySets
  /\ rotations = 0
  /\ steady = FALSE
  /\ fetched = FALSE
  /\ keys = {}
  /\ elapsed = MinRefetch
  /\ holder = Nobody
  /\ client = [k \in Key |-> "idle"]
  /\ quiet = MinRefetch
  /\ stale = published

\* lookupLocked: the key with that kid, and every keyless one as a fallback.
LookupLocked(k) == keys \cap (Keyless \union {k})

\* Validate and verifyAny: no key, the signer among the keys, or no key that verifies.
Verdict(k, candidates) ==
  IF candidates = {} THEN "no key" ELSE IF k \in candidates THEN "accepted" ELSE "bad signature"

Answer(k, candidates) == client' = [client EXCEPT ![k] = Verdict(k, candidates)]

\* A request with a token that k signed.
Present(k) ==
  /\ client[k] = "idle"
  /\ client' = [client EXCEPT ![k] = "resolving"]
  /\ UNCHANGED <<published, rotations, steady, fetched, keys, elapsed, holder, quiet, stale>>

Cached(k) == fetched /\ LookupLocked(k) # {}

\* Wrong variant: before the first set has arrived nothing is throttled.
MayFetchUntilFetched(k) == ~fetched \/ (k \notin Keyless /\ elapsed >= MinRefetch)

\* Wrong variant: the cache is never refreshed once it is there.
MayFetchOnce(k) == ~fetched /\ elapsed >= MinRefetch

\* A miss fetches, unless the token names no key, at most once in MinRefetch.
MayFetch(k) == (~fetched \/ k \notin Keyless) /\ elapsed >= MinRefetch

\* The cache answers.
ResolveCached(k) ==
  /\ client[k] = "resolving" /\ holder = Nobody
  /\ Cached(k)
  /\ Answer(k, LookupLocked(k))
  /\ UNCHANGED <<published, rotations, steady, fetched, keys, elapsed, holder, quiet, stale>>

\* A miss within the window: what the cache has (nothing before the first fetch).
ResolveThrottled(k) ==
  /\ client[k] = "resolving" /\ holder = Nobody
  /\ ~Cached(k) /\ ~MayFetch(k)
  /\ Answer(k, IF fetched THEN LookupLocked(k) ELSE {})
  /\ UNCHANGED <<published, rotations, steady, fetched, keys, elapsed, holder, quiet, stale>>

\* A miss that fetches: the attempt is stamped before its outcome is known.
BeginFetch(k) ==
  /\ client[k] = "resolving" /\ holder = Nobody
  /\ ~Cached(k) /\ MayFetch(k)
  /\ elapsed' = 0 /\ quiet' = 0
  /\ holder' = k
  /\ client' = [client EXCEPT ![k] = "fetching"]
  /\ UNCHANGED <<published, rotations, steady, fetched, keys, stale>>

\* fetch succeeds: the whole set is replaced.
Fetch(k) ==
  /\ client[k] = "fetching"
  /\ fetched' = TRUE
  /\ keys' = published
  /\ client' = [client EXCEPT ![k] = Verdict(k, published \cap (Keyless \union {k}))]
  /\ holder' = Nobody
  /\ stale' = {}
  /\ UNCHANGED <<published, rotations, steady, elapsed, quiet>>

\* Wrong variant: a failed fetch empties the cache and gives the attempt back.
FetchFailsClears(k) ==
  /\ client[k] = "fetching" /\ ~steady
  /\ keys' = {}
  /\ client' = [client EXCEPT ![k] = "no key"]
  /\ holder' = Nobody
  /\ UNCHANGED <<published, rotations, steady, fetched, elapsed, quiet, stale>>

\* Wrong variant: only a fetch that succeeded counts against the window.
FetchFailsUnstamped(k) ==
  /\ client[k] = "fetching" /\ ~steady
  /\ IF fetched THEN Answer(k, LookupLocked(k)) ELSE client' = [client EXCEPT ![k] = "unavailable"]
  /\ holder' = Nobody
  /\ elapsed' = MinRefetch
  /\ UNCHANGED <<published, rotations, steady, fetched, keys, quiet, stale>>

\* fetch fails (get, the status, or a set that does not parse): the stale cache goes
\* on serving; without one the error is the outcome.
FetchFails(k) ==
  /\ client[k] = "fetching" /\ ~steady
  /\ IF fetched THEN Answer(k, LookupLocked(k)) ELSE client' = [client EXCEPT ![k] = "unavailable"]
  /\ holder' = Nobody
  /\ UNCHANGED <<published, rotations, steady, fetched, keys, elapsed, quiet, stale>>

\* The client takes note of the verdict.
Answered(k) ==
  /\ client[k] \notin {"idle", "resolving", "fetching"}
  /\ client' = [client EXCEPT ![k] = "idle"]
  /\ UNCHANGED <<published, rotations, steady, fetched, keys, elapsed, holder, quiet, stale>>

\* The issuer rotates its keys.
Rotate ==
  /\ ~steady /\ rotations < MaxRotations
  /\ published' \in KeySets \ {published}
  /\ stale' = (published' \ keys) \union (published' \ published)
  /\ rotations' = rotations + 1
  /\ UNCHANGED <<steady, fetched, keys, elapsed, holder, client, quiet>>

Settle ==
  /\ ~steady
  /\ steady' = TRUE
  /\ UNCHANGED <<published, rotations, fetched, keys, elapsed, holder, client, quiet, stale>>

\* A fetch ends within FetchTime.
Tick ==
  /\ holder # Nobody => elapsed < FetchTime
  /\ elapsed < MinRefetch \/ quiet < MinRefetch
  /\ elapsed' = IF elapsed < MinRefetch THEN elapsed + 1 ELSE elapsed
  /\ quiet' = IF quiet < MinRefetch THEN quiet + 1 ELSE quiet
  /\ UNCHANGED <<published, rotations, steady, fetched, keys, holder, client, stale>>

Step(k) ==
  \/ Present(k) \/ ResolveCached(k) \/ ResolveThrottled(k) \/ BeginFetch(k)
  \/ Fetch(k) \/ FetchFails(k) \/ Answered(k)

Next == (\E k \in Key : Step(k)) \/ Rotate \/ Settle \/ Tick

\* Clients keep sending tokens, requests are served, time passes.
Fairness == (\A k \in Key : WF_vars(Step(k))) /\ WF_vars(Tick)

Spec == Init /\ [][Next]_vars /\ Fairness

-----------------------------------------------------------------------------
Refusals == {"no key", "bad signature", "unavailable"}

\* However many clients miss, and whether fetches succeed or fail, the endpoint sees
\* one at a time and none within MinRefetch of the one before.
EndpointIsSpared ==
  [][\A k \in Key : client[k] # "fetching" /\ client'[k] = "fetching" =>
       quiet >= MinRefetch /\ \A other \in Key : client[other] # "fetching"]_vars

\* A token under a published key is turned away only while the cache cannot know the
\* key: it has not been fetched since it was published, and the last attempt was less
\* than MinRefetch ago, or the token names no key, or a keyless key of the cache answers for its kid.
\* In particular a failed fetch takes nothing away that was there.
RefusalIsExplained ==
  [][\A k \in published : client'[k] # client[k] /\ client'[k] \in Refusals =>
       /\ k \in stale
       /\ elapsed < MinRefetch \/ k \in Keyless \/ keys \cap Keyless # {}]_vars

\* Once the issuer has settled the cache learns every key that it publishes, unless a
\* keyless key in the cache answers for all of them or only a keyless one is missing.
LearnsRotatedKeys ==
  \A k \in Key \ Keyless :
    (steady /\ k \in published) ~> (k \in keys \/ keys \cap Keyless # {})
=============================================================================
