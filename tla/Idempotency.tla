---------------------------- MODULE Idempotency -----------------------------
(***************************************************************************)
(* The de-duplication middleware and its in-memory store                   *)
(* (idempotency/idempotency.go, idempotency/store.go) under a transport    *)
(* that redelivers a message until it is acknowledged, possibly to several *)
(* goroutines at once.                                                     *)
(*                                                                         *)
(* Time is relative: an entry holds the ticks left before expiresAt, so    *)
(* the clock can run for ever in a finite model.  A message stands for its *)
(* idempotency key; those in Unkeyed carry none.  A Store call may return  *)
(* an error and do nothing (a remote Store), and a handler may outlive the *)
(* lease of its claim.                                                     *)
(***************************************************************************)
EXTENDS Integers, FiniteSets

CONSTANTS
  Message,       \* messages, one key each
  Unkeyed,       \* those of them whose KeyFunc returns ""
  Delivery,      \* goroutines the transport hands deliveries to
  LeaseTTL,      \* WithLeaseTTL, in ticks, at least 1
  CompletedTTL   \* WithCompletedTTL, in ticks, at least 1

VARIABLES
  entries,   \* the store: per key, status and ticks left (0: absent or expired)
  pc,        \* where each delivery is in the middleware
  msg,       \* the message each delivery carries
  tracked,   \* whether the delivery won the claim (else it opted out or failed open)
  lease,     \* history: ticks left of the lease the delivery won
  pending,   \* messages the transport has not been told to forget
  handled,   \* outside world: messages whose handler has succeeded
  window,    \* history: ticks left of the window in which Complete promised dedup
  overran    \* history: messages one of whose handlers outlived its lease

vars == <<entries, pc, msg, tracked, lease, pending, handled, window, overran>>

Absent == [status |-> "Absent", left |-> 0]

\* Wrong variant: only a missing entry can be claimed.
ExpiredNever(e) == e.status = "Absent"

\* Claim treats an entry that is not expiresAt.After(now) as absent.
Expired(e) == e.left = 0

\* Deliveries between a won claim and the end of its settlement.
Owners(k) == {d \in Delivery : tracked[d] /\ msg[d] = k /\ pc[d] \in {"handling", "succeeded", "failed"}}

Max1(n) == IF n > 0 THEN n - 1 ELSE 0

\* What an idle goroutine carries does not matter.
AnyMessage == CHOOSE m \in Message : TRUE

Init ==
  /\ entries = [m \in Message |-> Absent]
  /\ pc = [d \in Delivery |-> "idle"]
  /\ msg = [d \in Delivery |-> AnyMessage]
  /\ tracked = [d \in Delivery |-> FALSE]
  /\ lease = [d \in Delivery |-> 0]
  /\ pending = Message
  /\ handled = {}
  /\ window = [m \in Message |-> 0]
  /\ overran = {}

\* The transport hands out a message it still has; another copy may be in flight.
Deliver(d, m) ==
  /\ pc[d] = "idle"
  /\ m \in pending
  /\ pc' = [pc EXCEPT ![d] = "received"]
  /\ msg' = [msg EXCEPT ![d] = m]
  /\ UNCHANGED <<entries, tracked, lease, pending, handled, window, overran>>

\* No key, or Claim returned an error: next(ctx) runs untracked.
PassThrough(d) ==
  /\ pc[d] = "received"
  /\ pc' = [pc EXCEPT ![d] = "handling"]
  /\ UNCHANGED <<entries, msg, tracked, lease, pending, handled, window, overran>>

\* Wrong variant: Claim wins unless the key is Completed.
ClaimWinOverLiveLease(d) ==
  LET k == msg[d] IN
  /\ pc[d] = "received"
  /\ k \notin Unkeyed
  /\ Expired(entries[k]) \/ entries[k].status = "InProgress"
  /\ entries' = [entries EXCEPT ![k] = [status |-> "InProgress", left |-> LeaseTTL]]
  /\ pc' = [pc EXCEPT ![d] = "handling"]
  /\ tracked' = [tracked EXCEPT ![d] = TRUE]
  /\ lease' = [lease EXCEPT ![d] = LeaseTTL]
  /\ UNCHANGED <<msg, pending, handled, window, overran>>

\* InMemoryStore.Claim with no live entry: the claim is won.
ClaimWin(d) ==
  LET k == msg[d] IN
  /\ pc[d] = "received"
  /\ k \notin Unkeyed
  /\ Expired(entries[k])
  /\ entries' = [entries EXCEPT ![k] = [status |-> "InProgress", left |-> LeaseTTL]]
  /\ pc' = [pc EXCEPT ![d] = "handling"]
  /\ tracked' = [tracked EXCEPT ![d] = TRUE]
  /\ lease' = [lease EXCEPT ![d] = LeaseTTL]
  /\ UNCHANGED <<msg, pending, handled, window, overran>>

\* A live entry: ignored (a success) if Completed, conflict (a failure) if not.
ClaimLost(d) ==
  LET k == msg[d] IN
  /\ pc[d] = "received"
  /\ k \notin Unkeyed
  /\ ~Expired(entries[k])
  /\ pc' = [pc EXCEPT ![d] = IF entries[k].status = "Completed" THEN "acknowledge" ELSE "decline"]
  /\ UNCHANGED <<entries, msg, tracked, lease, pending, handled, window, overran>>

\* next(ctx): the handler succeeds, with its effect, or fails, with none.
Handle(d) ==
  /\ pc[d] = "handling"
  /\ \/ /\ pc' = [pc EXCEPT ![d] = "succeeded"]
        /\ handled' = handled \union {msg[d]}
     \/ /\ pc' = [pc EXCEPT ![d] = "failed"]
        /\ UNCHANGED handled
  /\ UNCHANGED <<entries, msg, tracked, lease, pending, window, overran>>

\* Wrong variant: Complete is called whatever the result was.
ReleaseNever(d) ==
  /\ pc[d] = "failed"
  /\ IF tracked[d] /\ entries[msg[d]].status # "Absent"
     THEN entries' = [entries EXCEPT ![msg[d]] = [status |-> "Completed", left |-> CompletedTTL]]
     ELSE UNCHANGED entries
  /\ pc' = [pc EXCEPT ![d] = "decline"]
  /\ UNCHANGED <<msg, tracked, lease, pending, handled, window, overran>>

\* A failed result or a pipeline error: Release deletes the key's entry,
\* whoever wrote it, unless the store fails.
Release(d) ==
  /\ pc[d] = "failed"
  /\ IF tracked[d]
     THEN \/ entries' = [entries EXCEPT ![msg[d]] = Absent]
          \/ UNCHANGED entries
     ELSE UNCHANGED entries
  /\ pc' = [pc EXCEPT ![d] = "decline"]
  /\ UNCHANGED <<msg, tracked, lease, pending, handled, window, overran>>

\* Wrong variant: Complete promotes the record but leaves the lease's expiry.
CompleteKeepsLease(d) ==
  LET k == msg[d] IN
  /\ pc[d] = "succeeded"
  /\ IF tracked[d] /\ entries[k].status # "Absent"
     THEN /\ entries' = [entries EXCEPT ![k].status = "Completed"]
          /\ window' = [window EXCEPT ![k] = CompletedTTL]
     ELSE UNCHANGED <<entries, window>>
  /\ pc' = [pc EXCEPT ![d] = "acknowledge"]
  /\ UNCHANGED <<msg, tracked, lease, pending, handled, overran>>

\* A successful result: Complete promotes the key's entry, whoever wrote it and
\* even if it has expired, and does nothing if it is gone, if the delivery is
\* untracked or if the store fails.
Complete(d) ==
  LET k == msg[d] IN
  /\ pc[d] = "succeeded"
  /\ \/ /\ tracked[d]
        /\ entries[k].status # "Absent"
        /\ entries' = [entries EXCEPT ![k] = [status |-> "Completed", left |-> CompletedTTL]]
        /\ window' = [window EXCEPT ![k] = CompletedTTL]
     \/ UNCHANGED <<entries, window>>
  /\ pc' = [pc EXCEPT ![d] = "acknowledge"]
  /\ UNCHANGED <<msg, tracked, lease, pending, handled, overran>>

\* The delivery is over: its goroutine is free for the next one.
Return(d) ==
  /\ pc' = [pc EXCEPT ![d] = "idle"]
  /\ msg' = [msg EXCEPT ![d] = AnyMessage]
  /\ tracked' = [tracked EXCEPT ![d] = FALSE]
  /\ lease' = [lease EXCEPT ![d] = 0]

\* The goroutine dies under the handler (a panic its host recovers): neither
\* Complete nor Release runs, and nothing is acknowledged.
Abandon(d) ==
  /\ pc[d] = "handling"
  /\ Return(d)
  /\ UNCHANGED <<entries, pending, handled, window, overran>>

\* The binding settles the delivery: a success is acknowledged, unless the
\* acknowledgement is lost, and a failure is left for redelivery.
Settle(d) ==
  /\ pc[d] \in {"acknowledge", "decline"}
  /\ Return(d)
  /\ \/ pc[d] = "acknowledge" /\ pending' = pending \ {msg[d]}
     \/ UNCHANGED pending
  /\ UNCHANGED <<entries, handled, window, overran>>

\* Time passes; a delivery that still owns its claim when the lease ends has
\* overrun it.
Tick ==
  /\ entries' = [m \in Message |-> [entries[m] EXCEPT !.left = Max1(@)]]
  /\ lease' = [d \in Delivery |-> Max1(lease[d])]
  /\ window' = [m \in Message |-> Max1(window[m])]
  /\ overran' = overran \union {m \in Message : \E d \in Owners(m) : lease[d] <= 1}
  /\ UNCHANGED <<pc, msg, tracked, pending, handled>>

Step(d) ==
  \/ PassThrough(d) \/ ClaimWin(d) \/ ClaimLost(d)
  \/ Handle(d) \/ Release(d) \/ Complete(d) \/ Settle(d)

Next ==
  \/ \E d \in Delivery : Step(d) \/ Abandon(d) \/ \E m \in Message : Deliver(d, m)
  \/ Tick

Spec == Init /\ [][Next]_vars

\* The transport keeps redelivering what is pending, goroutines run, time
\* passes, a handler tried again and again succeeds at last, and so does the
\* acknowledgement.
Fairness ==
  /\ \A d \in Delivery : WF_vars(Step(d))
  /\ WF_vars(Tick)
  /\ \A m \in Message :
       /\ SF_vars(\E d \in Delivery : Deliver(d, m))
       /\ SF_vars(\E d \in Delivery : Handle(d) /\ msg[d] = m /\ pc'[d] = "succeeded")
       /\ SF_vars(\E d \in Delivery : Settle(d) /\ msg[d] = m /\ m \notin pending')

FairSpec == Spec /\ Fairness

-----------------------------------------------------------------------------
\* The values each variable can hold.
TypeOK ==
  /\ entries \in [Message -> [status : {"Absent", "InProgress", "Completed"}, left : Nat]]
  /\ pc \in [Delivery -> {"idle", "received", "handling", "succeeded", "failed",
                          "acknowledge", "decline"}]
  /\ msg \in [Delivery -> Message]
  /\ tracked \in [Delivery -> BOOLEAN]
  /\ lease \in [Delivery -> Nat]
  /\ pending \subseteq Message
  /\ handled \subseteq Message
  /\ window \in [Message -> Nat]
  /\ overran \subseteq Message

\* Nothing is lost: the transport is told to forget a message only after its
\* handler succeeded, and a Completed record says the same, whatever the store,
\* the clock and the other deliveries do in between.
AckImpliesDone ==
  \A m \in Message :
    /\ m \notin pending => m \in handled
    /\ entries[m].status = "Completed" => m \in handled

\* The claim is a lock: while every handler ends within its lease, no two
\* deliveries of a message hold it at once, whatever was released, abandoned or
\* failed before.
OneAtATime == \A m \in Message \ overran : Cardinality(Owners(m)) <= 1

\* Step d wins the claim of a key whose Complete is still within its TTL.
ReClaims(d) ==
  pc[d] = "received" /\ pc'[d] = "handling" /\ tracked'[d] /\ window[msg[d]] > 0

\* A finished key suppresses its duplicates for the completed TTL as long as no
\* handler of it outlived its lease.
DuplicatesSuppressed == [][\A d \in Delivery : ReClaims(d) => msg[d] \in overran]_vars

\* "the completed DEDUP TTL is how long a finished key suppresses duplicates":
\* what the store's doc says, with no condition on the handlers.
FinishedKeySuppressesDuplicates == [][\A d \in Delivery : ~ReClaims(d)]_vars

\* Every message is processed in the end: a conflict, a failed attempt or a
\* claim nobody settles only delays it.
EventuallyProcessed == \A m \in Message : <>(m \notin pending)
=============================================================================
