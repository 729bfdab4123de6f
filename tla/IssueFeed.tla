----------------------------- MODULE IssueFeed -----------------------------
(***************************************************************************)
(* The mesh's issue feed from the invocation that failed to the collector: *)
(* IssueMiddleware and PushIssueExporter (mesh/issues.go) in one service,  *)
(* batches that are lost, delayed, overtaken or repeated on the way, and   *)
(* the merge at the collector (meshd/store.go, addIssues).  One service and*)
(* one topic: the others' fingerprints have nothing in common with them.   *)
(*                                                                         *)
(* Each occurrence has a number, which is also the time it was observed at *)
(* and its trace; IssueMiddleware reads the clock before Record takes the  *)
(* lock, so two occurrences may be recorded in the other order.            *)
(***************************************************************************)
EXTENDS Naturals, Sequences, FiniteSets, Functions

CONSTANTS
  Caller,          \* concurrent invocations
  Failure,         \* [status, exception] of the outcomes that may be observed
  Pair,            \* (field, code) pairs of error detail
  MaxExemplars,    \* maxExemplars
  MaxIssueErrors,  \* MaxIssueErrors
  MaxPendingIssueErrors,  \* maxPendingIssueErrors
  MaxOccurrences,  \* bound: failures observed
  MaxWire          \* bound: batches on their way

VARIABLES
  log,      \* history: the failures observed, in the order of their numbers
  overlap,  \* history: the occurrences that were in two callers' hands at once
  hand,     \* the occurrence a caller observed and has not recorded
  pending,  \* the window: fingerprint -> accumulated issue
  loop,     \* the flusher: running, stopping, done
  wire,     \* batches on their way
  merged,   \* the collector's issues
  seen,     \* issuesFeedSeen
  early,    \* history: occurrences recorded before Close
  delivered         \* history: how often each occurrence has been merged

vars == <<log, overlap, hand, pending, loop, wire, merged, seen, early, delivered>>

Idle == [number |-> 0]

\* Wrong variant: the status decides and the exception is looked at last.
ClassifyIssueByStatus(failure) ==
  IF failure.status \in {"bad-request", "validation-error"} THEN "validation"
  ELSE IF failure.status \in {"not-found", "unauthorized", "forbidden", "not-implemented", ""} THEN "config-wiring"
  ELSE IF failure.status \in {"service-unavailable", "timeout", "too-many-requests"} THEN "dependency"
  ELSE IF failure.status = "unexpected-error" \/ failure.exception # "" THEN "exception"
  ELSE "unclassified"

\* ClassifyIssue, in its order of precedence
ClassifyIssue(failure) ==
  IF failure.status \in {"bad-request", "validation-error"} THEN "validation"
  ELSE IF failure.exception # "" THEN "exception"
  ELSE IF failure.status \in {"not-found", "unauthorized", "forbidden", "not-implemented"} THEN "config-wiring"
  ELSE IF failure.status \in {"service-unavailable", "timeout", "too-many-requests"} THEN "dependency"
  ELSE IF failure.status = "unexpected-error" THEN "exception"
  ELSE IF failure.status = "" THEN "config-wiring"
  ELSE "unclassified"

\* IssueFingerprint of one topic: the digest is as good as its inputs.
IssueFingerprint(failure) ==
  <<ClassifyIssue(failure), IF failure.exception # "" THEN failure.exception ELSE failure.status>>

NewestExemplars(existing, incoming) ==
  LET combined == existing \o incoming
      excess == IF Len(combined) > MaxExemplars THEN Len(combined) - MaxExemplars ELSE 0
  IN SubSeq(combined, excess + 1, Len(combined))

NoErrors == [p \in Pair |-> 0]
Known(errors) == {p \in Pair : errors[p] > 0}

\* MergeIssueErrors: the highest counts stay, up to the bound; of equals the one whose
\* field and code come first.  Which pair that is does not matter here.
MergeIssueErrors(existing, delta) ==
  LET total == [p \in Pair |-> existing[p] + delta[p]]
      kept == CHOOSE k \in SUBSET Known(total) :
                /\ Cardinality(k) = (IF Cardinality(Known(total)) > MaxIssueErrors
                                      THEN MaxIssueErrors ELSE Cardinality(Known(total)))
                /\ \A p \in k, q \in Known(total) \ k : total[p] >= total[q]
  IN [p \in Pair |-> IF p \in kept THEN total[p] ELSE 0]

-----------------------------------------------------------------------------
Init ==
  /\ log = <<>> /\ overlap = {}
  /\ hand = [c \in Caller |-> Idle]
  /\ pending = <<>>
  /\ loop = "running"
  /\ wire = {}
  /\ merged = <<>>
  /\ seen = FALSE
  /\ early = {}
  /\ delivered = [n \in 1..MaxOccurrences |-> 0]

\* IssueMiddleware, after next: a failure, its time and its trace.
Observe(c) ==
  LET n == Len(log) + 1 IN
  /\ hand[c] = Idle /\ n <= MaxOccurrences
  /\ \E failure \in Failure, pair \in Pair :
       /\ log' = Append(log, [failure |-> failure, pair |-> pair])
       /\ hand' = [hand EXCEPT ![c] = [number |-> n, failure |-> failure, pair |-> pair]]
  /\ overlap' = overlap \union {{n, hand[d].number} : d \in {e \in Caller : hand[e] # Idle}}
  /\ UNCHANGED <<pending, loop, wire, merged, seen, early, delivered>>

Opened(o) ==
  [failure |-> o.failure, classification |-> ClassifyIssue(o.failure), count |-> 0,
   firstSeen |-> o.number, lastSeen |-> o.number, exemplars |-> <<>>, errors |-> NoErrors, numbers |-> {}]

\* Accumulated into its window.  A pair past the window's cap is not admitted.
Accumulate(issue, o) ==
  LET admitted == o.pair \in Known(issue.errors) \/ Cardinality(Known(issue.errors)) < MaxPendingIssueErrors
  IN [issue EXCEPT !.count = @ + 1, !.lastSeen = o.number,
        !.exemplars = NewestExemplars(@, <<o.number>>),
        !.errors[o.pair] = IF admitted THEN @ + 1 ELSE @,
        !.numbers = @ \union {o.number}]

\* PushIssueExporter.Record, in one critical section.
Record(c) ==
  LET o == hand[c]
      fingerprint == IssueFingerprint(o.failure)
      issue == IF fingerprint \in DOMAIN pending THEN pending[fingerprint] ELSE Opened(o)
  IN /\ o # Idle
     /\ pending' = [f \in DOMAIN pending \union {fingerprint} |->
                     IF f = fingerprint THEN Accumulate(issue, o) ELSE pending[f]]
     /\ hand' = [hand EXCEPT ![c] = Idle]
     /\ early' = IF loop = "running" THEN early \union {o.number} ELSE early
     /\ UNCHANGED <<log, overlap, loop, wire, merged, seen, delivered>>

\* snapshotIssueBatch: of each issue's pairs those with the highest counts.
Snapshot(window) == [f \in DOMAIN window |-> [window[f] EXCEPT !.errors = MergeIssueErrors(NoErrors, @)]]

\* Wrong variant: the window is kept, as if counts were totals.
SendWindowKeeps ==
  /\ Cardinality(wire) < MaxWire
  /\ wire' = wire \union {Snapshot(pending)}
  /\ UNCHANGED pending

\* Flush: the window is taken under the lock and sent after it; an empty one too.
SendWindow ==
  /\ Cardinality(wire) < MaxWire
  /\ wire' = wire \union {Snapshot(pending)}
  /\ pending' = <<>>

\* The ticker's flush, or a caller's own.
Flush ==
  /\ loop # "done" \/ pending # <<>>
  /\ SendWindow
  /\ UNCHANGED <<log, overlap, hand, loop, merged, seen, early, delivered>>

\* Close closes stop; a second Close has nothing to do.
Close ==
  /\ loop = "running"
  /\ loop' = "stopping"
  /\ UNCHANGED <<log, overlap, hand, pending, wire, merged, seen, early, delivered>>

\* Wrong variant: the loop returns without the last flush.
FinishWithoutFlush ==
  /\ loop = "stopping"
  /\ loop' = "done"
  /\ UNCHANGED <<log, overlap, hand, pending, wire, merged, seen, early, delivered>>

\* The loop flushes once more and ends, and Close returns.
Finish ==
  /\ loop = "stopping"
  /\ SendWindow
  /\ loop' = "done"
  /\ UNCHANGED <<log, overlap, hand, merged, seen, early, delivered>>

-----------------------------------------------------------------------------
AtMost(a, b) == IF a < b THEN a ELSE b
AtLeast(a, b) == IF a > b THEN a ELSE b

Unmerged == [count |-> 0, firstSeen |-> 0, lastSeen |-> 0, exemplars |-> <<>>, errors |-> NoErrors]

\* Wrong variant: every field of the newest batch wins.
MergeLatestWins(known, issue) ==
  [classification |-> issue.classification, failure |-> issue.failure,
   count |-> known.count + issue.count,
   firstSeen |-> issue.firstSeen, lastSeen |-> issue.lastSeen,
   exemplars |-> NewestExemplars(known.exemplars, issue.exemplars),
   errors |-> MergeIssueErrors(known.errors, issue.errors)]

\* addIssues, for one issue: deltas add up, the span widens, the rest is the latest's.
Merge(known, issue) ==
  [classification |-> issue.classification, failure |-> issue.failure,
   count |-> known.count + issue.count,
   firstSeen |-> IF known.firstSeen = 0 THEN issue.firstSeen ELSE AtMost(known.firstSeen, issue.firstSeen),
   lastSeen |-> AtLeast(known.lastSeen, issue.lastSeen),
   exemplars |-> NewestExemplars(known.exemplars, issue.exemplars),
   errors |-> MergeIssueErrors(known.errors, issue.errors)]

NumbersOf(batch) == UNION {batch[f].numbers : f \in DOMAIN batch}

\* A batch arrives, and stays on its way if it will arrive once more (its answer was
\* lost and the Sender retries).
Deliver(batch) ==
  /\ seen' = TRUE
  /\ merged' =
       [f \in DOMAIN batch \union DOMAIN merged |->
          IF f \in DOMAIN batch THEN Merge(IF f \in DOMAIN merged THEN merged[f] ELSE Unmerged, batch[f])
          ELSE merged[f]]
  /\ delivered' = [n \in DOMAIN delivered |-> IF n \in NumbersOf(batch) THEN delivered[n] + 1 ELSE delivered[n]]
  /\ \/ wire' = wire \ {batch}
     \/ UNCHANGED wire /\ \A n \in NumbersOf(batch) : delivered[n] = 0
  /\ UNCHANGED <<log, overlap, hand, pending, loop, early>>

\* The send fails: Flush ignores its result, and the deltas are gone.
Lose(batch) ==
  /\ wire' = wire \ {batch}
  /\ UNCHANGED <<log, overlap, hand, pending, loop, merged, seen, early, delivered>>

Next ==
  \/ \E c \in Caller : Observe(c) \/ Record(c)
  \/ Flush \/ Close \/ Finish
  \/ \E batch \in wire : Deliver(batch) \/ Lose(batch)

Spec == Init /\ [][Next]_vars

-----------------------------------------------------------------------------
Occurrences(f) == {n \in 1..Len(log) : IssueFingerprint(log[n].failure) = f}
Arrived(f) == {n \in Occurrences(f) : delivered[n] > 0}
\* Each occurrence as often as it has arrived.
Arrivals(numbers) == UNION {{n} \X (1..delivered[n]) : n \in numbers}

\* The collector's count of an issue is how often its occurrences have arrived, each as
\* often as a batch with it did: windows neither overlap nor restate each other.  Its
\* error detail, which is bounded, never claims more than that.
CountsAreDeltas ==
  \A f \in DOMAIN merged :
    /\ merged[f].count = Cardinality(Arrivals(Occurrences(f)))
    /\ \A p \in Pair : merged[f].errors[p] <= Cardinality(Arrivals({n \in Occurrences(f) : log[n].pair = p}))
    /\ Cardinality(Known(merged[f].errors)) <= MaxIssueErrors

\* Whatever order batches come in, an issue's span is that of the occurrences that have
\* arrived, up to those whose middleware raced another's to the lock, and its exemplars are among them.
SpansAreTrue ==
  \A f \in DOMAIN merged :
    LET i == merged[f] IN
    /\ {i.firstSeen, i.lastSeen} \union Range(i.exemplars) \subseteq Arrived(f)
    /\ \A n \in Arrived(f) :
         n < i.firstSeen \/ n > i.lastSeen => n \in UNION overlap
    /\ Len(i.exemplars) <= MaxExemplars

\* What a handler threw is one issue whatever status it was mapped to, unless the
\* status says that the input was to blame.
ThrowsAreOneIssue(a, b) ==
  /\ a.exception # "" /\ a.exception = b.exception
  /\ {a.status, b.status} \cap {"bad-request", "validation-error"} = {}
  => IssueFingerprint(a) = IssueFingerprint(b)

\* Once Close has returned, what was recorded before it has been sent.
TailIsSent == loop = "done" => early \cap NumbersOf(pending) = {}
=============================================================================
