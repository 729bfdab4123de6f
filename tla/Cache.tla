------------------------------- MODULE Cache -------------------------------
(***************************************************************************)
(* cache/cache.go and cache/store.go: GetOrLoad over the in-memory store,  *)
(* for several callers of one key, next to a writer that changes the       *)
(* source and then invalidates the key (the use Store.Delete documents).   *)
(* Keys are independent, so one is enough.  GetOrLoad holds no lock between*)
(* its Get, its load and its Set, and each of the three is a step here.    *)
(***************************************************************************)
EXTENDS Naturals

CONSTANTS
  Caller,      \* goroutines in GetOrLoad
  TTLs,        \* the ttl of every call, one of these; 0: no expiry
  MaxVersion,  \* bound: writes to the source
  MaxClock,    \* bound: the store's clock
  LoadTime     \* bound: ticks a load takes, from its read of the source to its Set

VARIABLES
  ttl,
  clock,
  source,      \* the version that a load reads
  superseded,  \* history: when the source moved on from a version
  invalid,     \* the writer has changed the source and not deleted the key yet
  entry,       \* the store's entry for the key
  at, loaded,  \* where a caller is, what its load returned
  since,       \* when its load read the source
  answer       \* what its call returned

vars == <<ttl, clock, source, superseded, invalid, entry, at, loaded, since, answer>>
call == <<at, loaded, since, answer>>

Absent == [present |-> FALSE]

\* A value the store holds: a version, or a blob that does not unmarshal.
Entry(version, expiresAt) == [present |-> TRUE, version |-> version, expiresAt |-> expiresAt]
Garbage == MaxVersion + 1

NoExpiry == 0
Answer(kind, version) == [kind |-> kind, version |-> version]

-----------------------------------------------------------------------------
Init ==
  /\ ttl \in TTLs
  /\ clock = 1
  /\ source = 0
  /\ superseded = [v \in 0..MaxVersion |-> 0]
  /\ invalid = FALSE
  /\ entry \in {Absent, Entry(Garbage, NoExpiry)}
  /\ at = [c \in Caller |-> "get"]
  /\ loaded = [c \in Caller |-> 0]
  /\ since = [c \in Caller |-> 0]
  /\ answer = [c \in Caller |-> Answer("none", 0)]

\* Wrong variant: an entry lives through the instant at which it expires.
ExpiredLate == entry.expiresAt # NoExpiry /\ entry.expiresAt < clock

\* InMemoryStore.Get expires lazily, and not before the key is read.
Expired == entry.expiresAt # NoExpiry /\ entry.expiresAt <= clock

Reply(c, reply) ==
  /\ answer' = [answer EXCEPT ![c] = reply]
  /\ at' = [at EXCEPT ![c] = "done"]

\* Get finds an unexpired value that unmarshals: the call never loads.
Hit(c) ==
  /\ at[c] = "get"
  /\ entry.present /\ ~Expired /\ entry.version # Garbage
  /\ Reply(c, Answer("hit", entry.version))
  /\ UNCHANGED <<ttl, clock, source, superseded, invalid, entry, loaded, since>>

\* Get finds nothing, an expired entry (deleted on the way), an unparseable one,
\* or the store cannot be read: the load reads the source.
Miss(c) ==
  /\ at[c] = "get"
  /\ \/ ~entry.present /\ UNCHANGED entry
     \/ entry.present /\ Expired /\ entry' = Absent
     \/ entry.present /\ ~Expired /\ entry.version = Garbage /\ UNCHANGED entry
     \/ UNCHANGED entry  \* the store's error
  /\ at' = [at EXCEPT ![c] = "load"]
  /\ loaded' = [loaded EXCEPT ![c] = source]
  /\ since' = [since EXCEPT ![c] = clock]
  /\ UNCHANGED <<ttl, clock, source, superseded, invalid, answer>>

\* Wrong variant: what a failed load returned next to its error is stored.
LoadFailsRemembered(c) ==
  /\ at[c] = "load"
  /\ entry' = Entry(0, NoExpiry)
  /\ Reply(c, Answer("failed", 0))
  /\ UNCHANGED <<ttl, clock, source, superseded, invalid, loaded, since>>

\* The load fails: its error is the answer and nothing is stored.
LoadFails(c) ==
  /\ at[c] = "load"
  /\ Reply(c, Answer("failed", 0))
  /\ UNCHANGED <<ttl, clock, source, superseded, invalid, entry, loaded, since>>

\* InMemoryStore.Set
Set(version) == entry' = Entry(version, IF ttl > 0 THEN clock + ttl ELSE NoExpiry)

\* The load succeeds and its value is stored, whatever happened to the key since
\* Get; an error of the store is ignored.
Fill(c) ==
  /\ at[c] = "load"
  /\ Set(loaded[c]) \/ UNCHANGED entry
  /\ Reply(c, Answer("loaded", loaded[c]))
  /\ UNCHANGED <<ttl, clock, source, superseded, invalid, loaded, since>>

\* The goroutine makes its next call.
Again(c) ==
  /\ at[c] = "done"
  /\ at' = [at EXCEPT ![c] = "get"]
  /\ answer' = [answer EXCEPT ![c] = Answer("none", 0)]
  /\ loaded' = [loaded EXCEPT ![c] = 0]
  /\ since' = [since EXCEPT ![c] = 0]
  /\ UNCHANGED <<ttl, clock, source, superseded, invalid, entry>>

\* The writer of the value changes it, and then deletes the key.
Write ==
  /\ ~invalid /\ source < MaxVersion
  /\ source' = source + 1
  /\ superseded' = [superseded EXCEPT ![source] = clock]
  /\ invalid' = TRUE
  /\ UNCHANGED <<ttl, clock, entry, call>>

\* InMemoryStore.Delete
Delete ==
  /\ invalid
  /\ entry' = Absent
  /\ invalid' = FALSE
  /\ UNCHANGED <<ttl, clock, source, superseded, call>>

\* Time passes; a load ends within LoadTime.  A call that has ended is over, so that
\* an answer is looked at while it is given.
Tick ==
  /\ clock < MaxClock
  /\ \A c \in Caller : at[c] = "get" \/ (at[c] = "load" /\ clock < since[c] + LoadTime)
  /\ clock' = clock + 1
  /\ UNCHANGED <<ttl, source, superseded, invalid, entry, call>>

Next ==
  \/ \E c \in Caller : Hit(c) \/ Miss(c) \/ LoadFails(c) \/ Fill(c) \/ Again(c)
  \/ Write \/ Delete \/ Tick

Spec == Init /\ [][Next]_vars

-----------------------------------------------------------------------------
\* A fill that races a write stores the old value after the key was invalidated; an
\* answer from the store was still current less than ttl + LoadTime ago all the same.
StalenessIsBounded ==
  \A c \in Caller :
    answer[c].kind = "hit" /\ ttl > 0 /\ superseded[answer[c].version] > 0 =>
      clock < superseded[answer[c].version] + ttl + LoadTime

\* What enters the store is what a call returns as loaded: a failed load, and what it
\* returned next to its error, is never remembered.
StoredIsReturned ==
  entry' # entry /\ entry'.present =>
    \E c \in Caller : at[c] = "load" /\ answer'[c] = Answer("loaded", entry'.version)

NothingRemembersAFailure == [][StoredIsReturned]_vars
=============================================================================
