-------------------------- MODULE MiddlewareProofs --------------------------
(***************************************************************************)
(* Proofs about the middlewares, for any number of callers, deliveries and *)
(* keys, any capacity and time to live, and whatever chain is configured.  *)
(*                                                                         *)
(* Bulkhead: the counters of the two channels are tied to the callers that *)
(* own a permit, so the caps on the counters are caps on the callers.      *)
(*                                                                         *)
(* Idempotency: as long as no handler of a key outlived its lease, a claim *)
(* has one owner and is in the store with at least the owner's time left.  *)
(*                                                                         *)
(* Onion: what is on its way up says where it came from, wherever in the   *)
(* chain it is: no error means a fresh result, a context's error that the  *)
(* caller gave up or that a Timeout further out is about to convert it.    *)
(***************************************************************************)
EXTENDS MCMiddlewares, FiniteSetTheorems, SequenceTheorems, TLAPS

\* The instances count as the module does.
LEMMA InstanceCardinality ==
  ASSUME NEW S
  PROVE  Dedup!Cardinality(S) = Cardinality(S) /\ Onion!Cardinality(S) = Cardinality(S)
BY DEF Dedup!Cardinality, Onion!Cardinality, Cardinality

-----------------------------------------------------------------------------
(* The bulkhead. *)

\* "with no queue ... an admission permit guarantees an immediately-available
\* execution permit": an admitted caller never blocks.
NoQueueNeverBlocks ==
  MaxQueue = 0 => \A c \in Caller : pc[c] = "waiting" => exec < MaxConcurrency

Running == At({"running"})
Inside == At({"waiting", "running", "leaving"})

BulkheadInv == TypeOK /\ PermitsConserved

LEMMA FiniteAt ==
  ASSUME NEW W
  PROVE  At(W) \in SUBSET Caller /\ IsFiniteSet(At(W)) /\ Cardinality(At(W)) \in Nat
<1>1. At(W) \in SUBSET Caller
  BY DEF At
<1> QED
  BY <1>1, FS_Subset, FS_CardinalityType, BulkheadAssumption

\* A step that moves one caller changes the set of owners by that caller.
LEMMA MoveIn ==
  ASSUME NEW W, TypeOK, NEW c \in Caller, NEW to, pc[c] \notin W, to \in W,
         pc' = [pc EXCEPT ![c] = to]
  PROVE  Cardinality(At(W)') = Cardinality(At(W)) + 1
<1>1. At(W)' = At(W) \union {c} /\ c \notin At(W)
  BY DEF At, TypeOK
<1> QED
  BY <1>1, FiniteAt, FS_AddElement

LEMMA DropOne ==
  ASSUME NEW S, IsFiniteSet(S), NEW x \in S
  PROVE  Cardinality(S) = Cardinality(S \ {x}) + 1 /\ Cardinality(S \ {x}) \in Nat
<1>1. IsFiniteSet(S \ {x}) /\ Cardinality(S \ {x}) = Cardinality(S) - 1
  BY FS_RemoveElement
<1> QED
  BY <1>1, FS_CardinalityType

LEMMA MoveWithin ==
  ASSUME NEW W, TypeOK, NEW c \in Caller, NEW to, pc[c] \in W <=> to \in W,
         pc' = [pc EXCEPT ![c] = to]
  PROVE  Cardinality(At(W)') = Cardinality(At(W))
<1>1. At(W)' = At(W)
  BY DEF At, TypeOK
<1> QED
  BY <1>1

LEMMA BulkheadInductive == BulkheadInv /\ [Next]_vars => BulkheadInv'
<1> SUFFICES ASSUME BulkheadInv, [Next]_vars PROVE BulkheadInv'
  OBVIOUS
<1> USE BulkheadAssumption
<1>0. TypeOK /\ exec = Cardinality(Running) /\ admit = Cardinality(Inside)
  BY DEF BulkheadInv, PermitsConserved, Running, Inside
<1> SUFFICES TypeOK' /\ exec' = Cardinality(Running') /\ admit' = Cardinality(Inside')
  BY DEF BulkheadInv, PermitsConserved, Running, Inside
<1>1. ASSUME NEW c \in Caller, Arrive(c)
      PROVE  TypeOK' /\ exec' = Cardinality(Running') /\ admit' = Cardinality(Inside')
  <2>1. TypeOK'
    BY <1>0, <1>1 DEF Arrive, TypeOK
  <2>2. Cardinality(Running') = Cardinality(Running) /\ Cardinality(Inside') = Cardinality(Inside)
    BY <1>0, <1>1, MoveWithin DEF Arrive, Running, Inside
  <2> QED
    BY <1>0, <1>1, <2>1, <2>2 DEF Arrive
<1>2. ASSUME NEW c \in Caller, Admit(c)
      PROVE  TypeOK' /\ exec' = Cardinality(Running') /\ admit' = Cardinality(Inside')
  <2>1. TypeOK'
    BY <1>0, <1>2 DEF Admit, TypeOK, Ceiling
  <2>2. Cardinality(Running') = Cardinality(Running)
    BY <1>0, <1>2, MoveWithin DEF Admit, Running
  <2>3. Cardinality(Inside') = Cardinality(Inside) + 1
    BY <1>0, <1>2, MoveIn DEF Admit, Inside
  <2> QED
    BY <1>0, <1>2, <2>1, <2>2, <2>3 DEF Admit
<1>3. ASSUME NEW c \in Caller, Reject(c)
      PROVE  TypeOK' /\ exec' = Cardinality(Running') /\ admit' = Cardinality(Inside')
  <2>1. TypeOK'
    BY <1>0, <1>3 DEF Reject, TypeOK
  <2>2. Cardinality(Running') = Cardinality(Running) /\ Cardinality(Inside') = Cardinality(Inside)
    BY <1>0, <1>3, MoveWithin DEF Reject, Running, Inside
  <2> QED
    BY <1>0, <1>3, <2>1, <2>2 DEF Reject
<1>4. ASSUME NEW c \in Caller, Cancel(c)
      PROVE  TypeOK' /\ exec' = Cardinality(Running') /\ admit' = Cardinality(Inside')
  BY <1>0, <1>4 DEF Cancel, TypeOK, Running, Inside, At
<1>5. ASSUME NEW c \in Caller, TakeSlot(c)
      PROVE  TypeOK' /\ exec' = Cardinality(Running') /\ admit' = Cardinality(Inside')
  <2>1. TypeOK'
    BY <1>0, <1>5 DEF TakeSlot, TypeOK
  <2>2. Cardinality(Running') = Cardinality(Running) + 1
    BY <1>0, <1>5, MoveIn DEF TakeSlot, Running
  <2>3. Cardinality(Inside') = Cardinality(Inside)
    BY <1>0, <1>5, MoveWithin DEF TakeSlot, Inside
  <2> QED
    BY <1>0, <1>5, <2>1, <2>2, <2>3 DEF TakeSlot
<1>6. ASSUME NEW c \in Caller, GiveUp(c)
      PROVE  TypeOK' /\ exec' = Cardinality(Running') /\ admit' = Cardinality(Inside')
  <2>1. TypeOK'
    BY <1>0, <1>6 DEF GiveUp, TypeOK
  <2>2. Cardinality(Running') = Cardinality(Running) /\ Cardinality(Inside') = Cardinality(Inside)
    BY <1>0, <1>6, MoveWithin DEF GiveUp, Running, Inside
  <2> QED
    BY <1>0, <1>6, <2>1, <2>2 DEF GiveUp
<1>7. ASSUME NEW c \in Caller, Finish(c)
      PROVE  TypeOK' /\ exec' = Cardinality(Running') /\ admit' = Cardinality(Inside')
  <2>1. Cardinality(Running) = Cardinality(Running') + 1 /\ Cardinality(Running') \in Nat
    <3>1. Running' = Running \ {c} /\ c \in Running
      BY <1>0, <1>7 DEF Finish, Running, At, TypeOK
    <3> QED
      BY <3>1, FiniteAt, DropOne DEF Running
  <2>2. TypeOK'
    <3>1. exec' \in 0..MaxConcurrency
      BY <1>0, <1>7, <2>1 DEF Finish, TypeOK
    <3> QED
      BY <1>0, <1>7, <3>1 DEF Finish, TypeOK
  <2>3. Cardinality(Inside') = Cardinality(Inside)
    BY <1>0, <1>7, MoveWithin DEF Finish, Inside
  <2> QED
    BY <1>0, <1>7, <2>1, <2>2, <2>3 DEF Finish
<1>8. ASSUME NEW c \in Caller, Leave(c)
      PROVE  TypeOK' /\ exec' = Cardinality(Running') /\ admit' = Cardinality(Inside')
  <2>1. Cardinality(Inside) = Cardinality(Inside') + 1 /\ Cardinality(Inside') \in Nat
    <3>1. Inside' = Inside \ {c} /\ c \in Inside
      BY <1>0, <1>8 DEF Leave, Inside, At, TypeOK
    <3> QED
      BY <3>1, FiniteAt, DropOne DEF Inside
  <2>2. TypeOK'
    <3>1. admit' \in 0..Ceiling
      BY <1>0, <1>8, <2>1 DEF Leave, TypeOK, Ceiling
    <3> QED
      BY <1>0, <1>8, <3>1 DEF Leave, TypeOK
  <2>3. Cardinality(Running') = Cardinality(Running)
    BY <1>0, <1>8, MoveWithin DEF Leave, Running
  <2> QED
    BY <1>0, <1>8, <2>1, <2>2, <2>3 DEF Leave
<1>9. CASE UNCHANGED vars
  BY <1>0, <1>9 DEF vars, TypeOK, Running, Inside, At
<1> QED
  BY <1>1, <1>2, <1>3, <1>4, <1>5, <1>6, <1>7, <1>8, <1>9 DEF Next

LEMMA BulkheadStarts == Init => BulkheadInv
<1> SUFFICES ASSUME Init PROVE BulkheadInv
  OBVIOUS
<1>1. At({"running"}) = {} /\ At({"waiting", "running", "leaving"}) = {}
  BY DEF Init, At
<1>2. TypeOK
  BY BulkheadAssumption DEF Init, TypeOK, Ceiling
<1> QED
  BY <1>1, <1>2, FS_EmptySet DEF Init, BulkheadInv, PermitsConserved

\* Beside the other middlewares it makes its own steps, as it does alone.
LEMMA BulkheadSteps == (MCInit => Init) /\ ([MCNext]_all => [Next]_vars)
  BY DEF MCInit, MCNext, all

LEMMA BulkheadIsSafe == Spec \/ MCSpec => []BulkheadInv
  BY BulkheadStarts, BulkheadInductive, BulkheadSteps, PTL DEF Spec, MCSpec

\* No interleaving of arrivals, rejections, cancellations and returns loses a
\* permit or makes one up.
THEOREM BulkheadConservesPermits == Spec \/ MCSpec => [](TypeOK /\ PermitsConserved)
<1>1. BulkheadInv => TypeOK /\ PermitsConserved
  BY DEF BulkheadInv
<1> QED
  BY <1>1, BulkheadIsSafe, PTL

\* The bulkhead never lets more callers through than it was built for.
THEOREM BulkheadIsolates == Spec \/ MCSpec => []Isolation
<1>1. BulkheadInv => Isolation
  <2> SUFFICES ASSUME BulkheadInv PROVE Isolation
    OBVIOUS
  <2>1. Cardinality(At({"running"})) <= MaxConcurrency
    BY BulkheadAssumption DEF BulkheadInv, TypeOK, PermitsConserved
  <2>2. At({"running", "waiting"}) \in SUBSET Inside
    BY DEF At, Inside
  <2>3. Cardinality(At({"running", "waiting"})) <= Cardinality(Inside)
    BY <2>2, FiniteAt, FS_Subset DEF Inside
  <2>4. Cardinality(Inside) \in Nat /\ Cardinality(Inside) <= Ceiling
    BY FiniteAt, BulkheadAssumption DEF BulkheadInv, TypeOK, PermitsConserved, Inside, Ceiling
  <2>5. Cardinality(At({"running", "waiting"})) \in Nat /\ Ceiling \in Nat
    BY FiniteAt, BulkheadAssumption DEF Ceiling
  <2> QED
    BY <2>1, <2>3, <2>4, <2>5 DEF Isolation
<1> QED
  BY <1>1, BulkheadIsSafe, PTL

\* Both, for any number of callers and any limits.
THEOREM BulkheadIsBounded == Spec \/ MCSpec => []SlotsAreBounded
<1>1. PermitsConserved /\ Isolation => SlotsAreBounded
  BY DEF SlotsAreBounded
<1> QED
  BY <1>1, BulkheadConservesPermits, BulkheadIsolates, PTL

\* With no queue, an admitted caller finds a free execution permit: the
\* deferred receives give the permits back in the order that keeps it so.
THEOREM BulkheadNoQueueNeverBlocks == Spec \/ MCSpec => []NoQueueNeverBlocks
<1>1. BulkheadInv => NoQueueNeverBlocks
  <2> SUFFICES ASSUME BulkheadInv, MaxQueue = 0, NEW c \in Caller, pc[c] = "waiting"
               PROVE  exec < MaxConcurrency
    BY DEF NoQueueNeverBlocks
  <2>1. c \in Inside /\ Running \in SUBSET (Inside \ {c})
    BY DEF At, Inside, Running
  <2>2. /\ IsFiniteSet(Inside \ {c})
        /\ Cardinality(Inside \ {c}) = Cardinality(Inside) - 1
    BY <2>1, FiniteAt, FS_RemoveElement DEF Inside
  <2>3. Cardinality(Running) <= Cardinality(Inside \ {c})
    BY <2>1, <2>2, FS_Subset
  <2>4. exec = Cardinality(Running) /\ admit = Cardinality(Inside)
    BY DEF BulkheadInv, PermitsConserved, Running, Inside
  <2> QED
    BY <2>2, <2>3, <2>4, BulkheadAssumption DEF BulkheadInv, TypeOK, Ceiling
<1> QED
  BY <1>1, BulkheadIsSafe, PTL

\* A caller is turned away only while the bulkhead is full of others, whatever was let in,
\* given up and finished before (Bulkhead's first select, for any number of callers).
THEOREM BulkheadRejectsOnlyWhenFull == Spec \/ MCSpec => RejectOnlyWhenFull
<1> DEFINE Full ==
      \A c \in Caller :
        outcome'[c] = "rejected" /\ pc[c] = "arrived" /\ pc'[c] = "idle" =>
          Cardinality(Inside) = Ceiling
<1>1. BulkheadInv /\ [Next]_vars => [Full]_vars
  <2>1. SUFFICES ASSUME BulkheadInv, NEW other \in Caller,
                        \/ Arrive(other) \/ Admit(other) \/ Reject(other) \/ Cancel(other)
                        \/ TakeSlot(other) \/ GiveUp(other) \/ Finish(other) \/ Leave(other),
                        NEW c \in Caller, pc[c] = "arrived", pc'[c] = "idle"
                 PROVE  Cardinality(Inside) = Ceiling
    BY DEF Next
  <2>2. Reject(other)
    BY <2>1 DEF BulkheadInv, TypeOK, Arrive, Admit, Cancel, TakeSlot, GiveUp, Finish, Leave
  <2>3. admit = Ceiling
    BY <2>1, <2>2, BulkheadAssumption DEF Reject, BulkheadInv, TypeOK, Ceiling
  <2>4. admit = Cardinality(Inside)
    BY <2>1 DEF BulkheadInv, PermitsConserved, Inside
  <2> QED
    BY <2>3, <2>4
<1> QED
  BY <1>1, BulkheadIsSafe, BulkheadSteps, PTL DEF Spec, MCSpec, RejectOnlyWhenFull, Inside

-----------------------------------------------------------------------------
(* Idempotency. *)

\* While no handler of a key has outlived its lease, whoever owns the claim is alone and the
\* store holds it for as long as the lease lasts; and a key whose Complete still promises
\* deduplication is kept for as long as that.
ClaimsHold ==
  \A m \in Message \ overran :
    /\ \A d \in Dedup!Owners(m) :
         lease[d] > 0 /\ entries[m].status = "InProgress" /\ entries[m].left >= lease[d]
    /\ \A d, e \in Dedup!Owners(m) : d = e
    /\ window[m] > 0 => entries[m].status = "Completed" /\ entries[m].left >= window[m]

\* A delivery that has not claimed is not tracked, and one that is about to report success
\* has been handled.
DeliveriesHold ==
  \A d \in Delivery :
    /\ place[d] \in {"idle", "received"} => ~tracked[d]
    /\ place[d] \in {"succeeded", "acknowledge"} => msg[d] \in handled

DedupInv == Dedup!TypeOK /\ ClaimsHold /\ DeliveriesHold /\ Dedup!AckImpliesDone

LEMMA DedupStarts == Dedup!Init => DedupInv
<1> SUFFICES ASSUME Dedup!Init PROVE DedupInv
  OBVIOUS
<1>1. Dedup!AnyMessage \in Message
  BY MiddlewareAssumption DEF Dedup!AnyMessage
<1>2. Dedup!TypeOK
  BY <1>1 DEF Dedup!Init, Dedup!TypeOK, Dedup!Absent
<1>3. \A m \in Message : Dedup!Owners(m) = {}
  BY DEF Dedup!Init, Dedup!Owners
<1>4. ClaimsHold
  BY <1>3 DEF Dedup!Init, ClaimsHold
<1>5. DeliveriesHold /\ Dedup!AckImpliesDone
  BY DEF Dedup!Init, Dedup!Absent, DeliveriesHold, Dedup!AckImpliesDone
<1> QED
  BY <1>2, <1>4, <1>5 DEF DedupInv

\* A step that neither makes an owner nor touches the store, the leases or the windows.
LEMMA DeliveryMoves ==
  ASSUME DedupInv, UNCHANGED <<entries, window, overran>>,
         \A m \in Message : Dedup!Owners(m)' \subseteq Dedup!Owners(m),
         \A m \in Message : \A e \in Dedup!Owners(m)' : lease'[e] = lease[e]
  PROVE  ClaimsHold'
<1> SUFFICES ASSUME NEW m \in Message \ overran
             PROVE  /\ \A e \in Dedup!Owners(m)' :
                         lease'[e] > 0 /\ entries[m].status = "InProgress" /\ entries[m].left >= lease'[e]
                    /\ \A e, f \in Dedup!Owners(m)' : e = f
                    /\ window[m] > 0 => entries[m].status = "Completed" /\ entries[m].left >= window[m]
  BY DEF ClaimsHold
<1> QED
  BY DEF DedupInv, ClaimsHold

\* What one delivery's step preserves, and that it claims no key it should not.
LEMMA DeliveryKept ==
  ASSUME DedupInv, NEW d \in Delivery,
         Dedup!Step(d) \/ Dedup!Abandon(d) \/ \E m \in Message : Dedup!Deliver(d, m)
  PROVE  DedupInv' /\ \A e \in Delivery : Dedup!ReClaims(e) => msg[e] \in overran
<1> USE DEF DedupInv
<1> DEFINE k == msg[d]
<1>1. k \in Message /\ Dedup!AnyMessage \in Message /\ LeaseTTL \in Nat \ {0} /\ CompletedTTL \in Nat \ {0}
  BY MiddlewareAssumption DEF Dedup!TypeOK, Dedup!AnyMessage
<1>2. ASSUME NEW m \in Message, Dedup!Deliver(d, m)
      PROVE  DedupInv' /\ \A e \in Delivery : ~Dedup!ReClaims(e)
  <2>1. /\ place[d] = "idle" /\ m \in pending
        /\ place' = [place EXCEPT ![d] = "received"] /\ msg' = [msg EXCEPT ![d] = m]
        /\ UNCHANGED <<entries, tracked, lease, pending, handled, window, overran>>
    BY <1>2 DEF Dedup!Deliver
  <2>2. Dedup!TypeOK'
    BY <2>1 DEF Dedup!TypeOK
  <2>3. \A n \in Message : Dedup!Owners(n)' \subseteq Dedup!Owners(n)
    BY <2>1 DEF Dedup!Owners, Dedup!TypeOK
  <2>4. ClaimsHold'
    BY <2>1, <2>3, DeliveryMoves
  <2>5. DeliveriesHold' /\ Dedup!AckImpliesDone'
    BY <2>1 DEF DeliveriesHold, Dedup!AckImpliesDone, Dedup!TypeOK
  <2> QED
    BY <2>1, <2>2, <2>4, <2>5 DEF Dedup!ReClaims, Dedup!TypeOK
<1>3. CASE Dedup!PassThrough(d)
  <2>1. /\ place[d] = "received" /\ place' = [place EXCEPT ![d] = "handling"]
        /\ UNCHANGED <<entries, msg, tracked, lease, pending, handled, window, overran>>
    BY <1>3 DEF Dedup!PassThrough
  <2>2. Dedup!TypeOK'
    BY <2>1 DEF Dedup!TypeOK
  <2>3. \A n \in Message : Dedup!Owners(n)' \subseteq Dedup!Owners(n)
    BY <2>1 DEF Dedup!Owners, Dedup!TypeOK, DeliveriesHold
  <2>4. ClaimsHold'
    BY <2>1, <2>3, DeliveryMoves
  <2>5. DeliveriesHold' /\ Dedup!AckImpliesDone'
    BY <2>1 DEF DeliveriesHold, Dedup!AckImpliesDone, Dedup!TypeOK
  <2>6. \A e \in Delivery : ~Dedup!ReClaims(e)
    BY <2>1 DEF Dedup!ReClaims, DeliveriesHold, Dedup!TypeOK
  <2> QED
    BY <2>2, <2>4, <2>5, <2>6
<1>4. CASE Dedup!ClaimWin(d)
  <2>1. /\ place[d] = "received" /\ entries[k].left = 0
        /\ place' = [place EXCEPT ![d] = "handling"]
        /\ tracked' = [tracked EXCEPT ![d] = TRUE] /\ lease' = [lease EXCEPT ![d] = LeaseTTL]
        /\ entries' = [entries EXCEPT ![k] = [status |-> "InProgress", left |-> LeaseTTL]]
        /\ UNCHANGED <<msg, pending, handled, window, overran>>
    BY <1>4 DEF Dedup!ClaimWin, Dedup!Expired
  <2>2. Dedup!TypeOK'
    BY <1>1, <2>1 DEF Dedup!TypeOK
  <2>3. k \notin overran => window[k] = 0 /\ Dedup!Owners(k) = {}
    BY <1>1, <2>1 DEF ClaimsHold, Dedup!TypeOK, Dedup!Owners
  <2>4. \A n \in Message : Dedup!Owners(n)' \subseteq Dedup!Owners(n) \union (IF n = k THEN {d} ELSE {})
    BY <2>1 DEF Dedup!Owners, Dedup!TypeOK
  <2>5. ClaimsHold'
    <3> SUFFICES ASSUME NEW n \in Message \ overran
                 PROVE  /\ \A e \in Dedup!Owners(n)' :
                             lease'[e] > 0 /\ entries'[n].status = "InProgress" /\ entries'[n].left >= lease'[e]
                        /\ \A e, f \in Dedup!Owners(n)' : e = f
                        /\ window[n] > 0 => entries'[n].status = "Completed" /\ entries'[n].left >= window[n]
      BY <2>1 DEF ClaimsHold
    <3>1. CASE n = k
      BY <1>1, <2>1, <2>3, <2>4, <3>1 DEF Dedup!TypeOK
    <3>2. CASE n # k
      <4>1. entries'[n] = entries[n] /\ Dedup!Owners(n)' \subseteq Dedup!Owners(n)
        BY <1>1, <2>1, <2>4, <3>2 DEF Dedup!TypeOK
      <4>2. \A e \in Dedup!Owners(n) : e # d /\ lease'[e] = lease[e]
        BY <2>1, <3>2 DEF Dedup!Owners, Dedup!TypeOK
      <4> QED
        BY <4>1, <4>2 DEF ClaimsHold
    <3> QED
      BY <3>1, <3>2
  <2>6. DeliveriesHold' /\ Dedup!AckImpliesDone'
    BY <1>1, <2>1 DEF DeliveriesHold, Dedup!AckImpliesDone, Dedup!TypeOK
  <2>7. \A e \in Delivery : Dedup!ReClaims(e) => msg[e] \in overran
    BY <2>1, <2>3 DEF Dedup!ReClaims, Dedup!TypeOK
  <2> QED
    BY <2>2, <2>5, <2>6, <2>7
<1>5. CASE Dedup!ClaimLost(d)
  <2>1. /\ place[d] = "received"
        /\ \E to \in {"acknowledge", "decline"} :
             place' = [place EXCEPT ![d] = to] /\ (to = "acknowledge" => entries[k].status = "Completed")
        /\ UNCHANGED <<entries, msg, tracked, lease, pending, handled, window, overran>>
    BY <1>5 DEF Dedup!ClaimLost
  <2>2. Dedup!TypeOK'
    BY <2>1 DEF Dedup!TypeOK
  <2>3. \A n \in Message : Dedup!Owners(n)' \subseteq Dedup!Owners(n)
    BY <2>1 DEF Dedup!Owners, Dedup!TypeOK
  <2>4. ClaimsHold'
    BY <2>1, <2>3, DeliveryMoves
  <2>5. DeliveriesHold' /\ Dedup!AckImpliesDone'
    BY <1>1, <2>1 DEF DeliveriesHold, Dedup!AckImpliesDone, Dedup!TypeOK
  <2>6. \A e \in Delivery : ~Dedup!ReClaims(e)
    BY <2>1 DEF Dedup!ReClaims, DeliveriesHold, Dedup!TypeOK
  <2> QED
    BY <2>2, <2>4, <2>5, <2>6
<1>6. CASE Dedup!Handle(d)
  <2>1. /\ place[d] = "handling"
        /\ \E to \in {"succeeded", "failed"} :
             /\ place' = [place EXCEPT ![d] = to]
             /\ handled' = IF to = "succeeded" THEN handled \union {k} ELSE handled
        /\ UNCHANGED <<entries, msg, tracked, lease, pending, window, overran>>
    BY <1>6 DEF Dedup!Handle
  <2>2. Dedup!TypeOK'
    BY <1>1, <2>1 DEF Dedup!TypeOK
  <2>3. \A n \in Message : Dedup!Owners(n)' \subseteq Dedup!Owners(n)
    BY <2>1 DEF Dedup!Owners, Dedup!TypeOK
  <2>4. ClaimsHold'
    BY <2>1, <2>3, DeliveryMoves
  <2>5. DeliveriesHold' /\ Dedup!AckImpliesDone'
    BY <1>1, <2>1 DEF DeliveriesHold, Dedup!AckImpliesDone, Dedup!TypeOK
  <2>6. \A e \in Delivery : ~Dedup!ReClaims(e)
    BY <2>1 DEF Dedup!ReClaims, Dedup!TypeOK
  <2> QED
    BY <2>2, <2>4, <2>5, <2>6
<1>7. CASE Dedup!Release(d)
  <2>1. /\ place[d] = "failed" /\ place' = [place EXCEPT ![d] = "decline"]
        /\ \/ entries' = entries
           \/ tracked[d] /\ entries' = [entries EXCEPT ![k] = Dedup!Absent]
        /\ UNCHANGED <<msg, tracked, lease, pending, handled, window, overran>>
    BY <1>7 DEF Dedup!Release
  <2>2. Dedup!TypeOK'
    <3>1. [entries EXCEPT ![k] = Dedup!Absent] \in
            [Message -> [status : {"Absent", "InProgress", "Completed"}, left : Nat]]
      BY <1>1 DEF Dedup!TypeOK, Dedup!Absent
    <3> QED
      BY <2>1, <3>1 DEF Dedup!TypeOK
  <2>3. \A n \in Message : Dedup!Owners(n)' \subseteq Dedup!Owners(n) \ {d}
    BY <2>1 DEF Dedup!Owners, Dedup!TypeOK
  <2>4. tracked[d] => d \in Dedup!Owners(k)
    BY <2>1 DEF Dedup!Owners
  <2>5. ClaimsHold'
    <3>1. CASE entries' = entries
      BY <2>1, <2>3, <3>1, DeliveryMoves
    <3>2. CASE tracked[d] /\ entries' = [entries EXCEPT ![k] = Dedup!Absent]
      <4> SUFFICES ASSUME NEW n \in Message \ overran
                   PROVE  /\ \A e \in Dedup!Owners(n)' :
                               lease[e] > 0 /\ entries'[n].status = "InProgress" /\ entries'[n].left >= lease[e]
                          /\ \A e, f \in Dedup!Owners(n)' : e = f
                          /\ window[n] > 0 => entries'[n].status = "Completed" /\ entries'[n].left >= window[n]
        BY <2>1 DEF ClaimsHold
      <4>1. CASE n = k
        <5>1. Dedup!Owners(n)' = {} /\ ~(window[n] > 0)
          BY <2>3, <2>4, <3>2, <4>1 DEF ClaimsHold
        <5> QED
          BY <5>1
      <4>2. CASE n # k
        <5>1. entries'[n] = entries[n]
          BY <3>2, <4>2 DEF Dedup!TypeOK
        <5> QED
          BY <2>3, <5>1 DEF ClaimsHold
      <4> QED
        BY <4>1, <4>2
    <3> QED
      BY <2>1, <3>1, <3>2
  <2>6. DeliveriesHold' /\ Dedup!AckImpliesDone'
    BY <1>1, <2>1 DEF DeliveriesHold, Dedup!AckImpliesDone, Dedup!TypeOK, Dedup!Absent
  <2>7. \A e \in Delivery : ~Dedup!ReClaims(e)
    BY <2>1 DEF Dedup!ReClaims, Dedup!TypeOK
  <2> QED
    BY <2>2, <2>5, <2>6, <2>7
<1>8. CASE Dedup!Complete(d)
  <2>1. /\ place[d] = "succeeded" /\ place' = [place EXCEPT ![d] = "acknowledge"]
        /\ UNCHANGED <<msg, tracked, lease, pending, handled, overran>>
        /\ \/ entries' = entries /\ window' = window
           \/ /\ tracked[d]
              /\ entries' = [entries EXCEPT ![k] = [status |-> "Completed", left |-> CompletedTTL]]
              /\ window' = [window EXCEPT ![k] = CompletedTTL]
    BY <1>8 DEF Dedup!Complete
  <2>2. Dedup!TypeOK'
    <3>1. /\ [entries EXCEPT ![k] = [status |-> "Completed", left |-> CompletedTTL]] \in
               [Message -> [status : {"Absent", "InProgress", "Completed"}, left : Nat]]
          /\ [window EXCEPT ![k] = CompletedTTL] \in [Message -> Nat]
      BY <1>1 DEF Dedup!TypeOK
    <3> QED
      BY <2>1, <3>1 DEF Dedup!TypeOK
  <2>3. \A n \in Message : Dedup!Owners(n)' \subseteq Dedup!Owners(n) \ {d}
    BY <2>1 DEF Dedup!Owners, Dedup!TypeOK
  <2>4. tracked[d] => d \in Dedup!Owners(k)
    BY <2>1 DEF Dedup!Owners
  <2>5. ClaimsHold'
    <3>1. CASE entries' = entries /\ window' = window
      BY <2>1, <2>3, <3>1, DeliveryMoves
    <3>2. CASE /\ tracked[d]
               /\ entries' = [entries EXCEPT ![k] = [status |-> "Completed", left |-> CompletedTTL]]
               /\ window' = [window EXCEPT ![k] = CompletedTTL]
      <4> SUFFICES ASSUME NEW n \in Message \ overran
                   PROVE  /\ \A e \in Dedup!Owners(n)' :
                               lease[e] > 0 /\ entries'[n].status = "InProgress" /\ entries'[n].left >= lease[e]
                          /\ \A e, f \in Dedup!Owners(n)' : e = f
                          /\ window'[n] > 0 => entries'[n].status = "Completed" /\ entries'[n].left >= window'[n]
        BY <2>1 DEF ClaimsHold
      <4>1. CASE n = k
        <5>1. Dedup!Owners(n)' = {}
          BY <2>3, <2>4, <3>2, <4>1 DEF ClaimsHold
        <5>2. /\ entries'[n].status = "Completed" /\ entries'[n].left = CompletedTTL
              /\ window'[n] = CompletedTTL
          BY <3>2, <4>1 DEF Dedup!TypeOK
        <5> QED
          BY <1>1, <5>1, <5>2
      <4>2. CASE n # k
        <5>1. entries'[n] = entries[n] /\ window'[n] = window[n]
          BY <3>2, <4>2 DEF Dedup!TypeOK
        <5> QED
          BY <2>3, <5>1 DEF ClaimsHold
      <4> QED
        BY <4>1, <4>2
    <3> QED
      BY <2>1, <3>1, <3>2
  <2>6. DeliveriesHold' /\ Dedup!AckImpliesDone'
    BY <1>1, <2>1 DEF DeliveriesHold, Dedup!AckImpliesDone, Dedup!TypeOK
  <2>7. \A e \in Delivery : ~Dedup!ReClaims(e)
    BY <2>1 DEF Dedup!ReClaims, Dedup!TypeOK
  <2> QED
    BY <2>2, <2>5, <2>6, <2>7
<1>9. CASE Dedup!Abandon(d) \/ Dedup!Settle(d)
  <2>1. /\ place[d] \in {"handling", "acknowledge", "decline"}
        /\ place' = [place EXCEPT ![d] = "idle"] /\ msg' = [msg EXCEPT ![d] = Dedup!AnyMessage]
        /\ tracked' = [tracked EXCEPT ![d] = FALSE] /\ lease' = [lease EXCEPT ![d] = 0]
        /\ UNCHANGED <<entries, handled, window, overran>>
        /\ pending' = pending \/ (place[d] = "acknowledge" /\ pending' = pending \ {k})
    BY <1>9 DEF Dedup!Abandon, Dedup!Settle, Dedup!Return
  <2>2. Dedup!TypeOK'
    BY <1>1, <2>1 DEF Dedup!TypeOK
  <2>3. \A n \in Message : Dedup!Owners(n)' \subseteq Dedup!Owners(n) \ {d}
    BY <2>1 DEF Dedup!Owners, Dedup!TypeOK
  <2>4. ClaimsHold'
    <3>1. \A n \in Message : \A e \in Dedup!Owners(n)' : lease'[e] = lease[e]
      BY <2>1, <2>3 DEF Dedup!TypeOK, Dedup!Owners
    <3> QED
      BY <2>1, <2>3, <3>1, DeliveryMoves
  <2>5. DeliveriesHold' /\ Dedup!AckImpliesDone'
    BY <1>1, <2>1 DEF DeliveriesHold, Dedup!AckImpliesDone, Dedup!TypeOK
  <2>6. \A e \in Delivery : ~Dedup!ReClaims(e)
    BY <2>1 DEF Dedup!ReClaims, Dedup!TypeOK
  <2> QED
    BY <2>2, <2>4, <2>5, <2>6
<1> QED
  BY <1>2, <1>3, <1>4, <1>5, <1>6, <1>7, <1>8, <1>9 DEF Dedup!Step

\* Time runs down entries, leases and windows alike, and a lease that ends is noted.
LEMMA TickKept == DedupInv /\ Dedup!Tick => DedupInv'
<1> SUFFICES ASSUME DedupInv, Dedup!Tick PROVE DedupInv'
  OBVIOUS
<1> USE DEF DedupInv, Dedup!Tick, Dedup!Max1
<1>1. /\ \A m \in Message : entries'[m].status = entries[m].status
                            /\ entries'[m].left = Dedup!Max1(entries[m].left)
      /\ entries' \in [Message -> [status : {"Absent", "InProgress", "Completed"}, left : Nat]]
  <2>1. entries' = [m \in Message |-> [entries[m] EXCEPT !.left = Dedup!Max1(entries[m].left)]]
    OBVIOUS
  <2>2. ASSUME NEW m \in Message
        PROVE  LET e == [entries[m] EXCEPT !.left = Dedup!Max1(entries[m].left)]
               IN  /\ e \in [status : {"Absent", "InProgress", "Completed"}, left : Nat]
                   /\ e.status = entries[m].status /\ e.left = Dedup!Max1(entries[m].left)
    <3>1. entries[m] \in [status : {"Absent", "InProgress", "Completed"}, left : Nat]
      BY DEF Dedup!TypeOK
    <3>2. Dedup!Max1(entries[m].left) \in Nat
      BY <3>1
    <3> QED
      BY <3>1, <3>2
  <2> HIDE DEF Dedup!Max1, Dedup!Tick, DedupInv
  <2> QED
    BY <2>1, <2>2
<1>2. Dedup!TypeOK'
  <2>1. lease' \in [Delivery -> Nat] /\ window' \in [Message -> Nat]
    BY DEF Dedup!TypeOK
  <2>2. overran' \subseteq Message
    BY DEF Dedup!TypeOK
  <2>3. Dedup!TypeOK /\ UNCHANGED <<place, msg, tracked, pending, handled>>
    OBVIOUS
  <2> HIDE DEF Dedup!Max1, Dedup!Tick, DedupInv
  <2> QED
    BY <1>1, <2>1, <2>2, <2>3 DEF Dedup!TypeOK
<1>3. \A m \in Message : Dedup!Owners(m)' = Dedup!Owners(m) /\ Dedup!Owners(m) \subseteq Delivery
  BY DEF Dedup!Owners
<1>4. ClaimsHold'
  <2> SUFFICES ASSUME NEW m \in Message, m \notin overran'
               PROVE  /\ \A d \in Dedup!Owners(m) :
                           lease'[d] > 0 /\ entries'[m].status = "InProgress" /\ entries'[m].left >= lease'[d]
                      /\ \A d, e \in Dedup!Owners(m) : d = e
                      /\ window'[m] > 0 => entries'[m].status = "Completed" /\ entries'[m].left >= window'[m]
    <3> HIDE DEF Dedup!Tick, Dedup!Max1, DedupInv
    <3> QED
      BY <1>3 DEF ClaimsHold
  <2>1. m \in Message \ overran /\ \A d \in Dedup!Owners(m) : ~(lease[d] <= 1)
    OBVIOUS
  <2>2. entries[m].left \in Nat /\ window[m] \in Nat /\ \A d \in Delivery : lease[d] \in Nat
    BY DEF Dedup!TypeOK
  <2>3. window'[m] = Dedup!Max1(window[m]) /\ \A d \in Delivery : lease'[d] = Dedup!Max1(lease[d])
    OBVIOUS
  <2> QED
    BY <1>1, <1>3, <2>1, <2>2, <2>3 DEF ClaimsHold
<1>5. DeliveriesHold' /\ Dedup!AckImpliesDone'
  BY <1>1 DEF DeliveriesHold, Dedup!AckImpliesDone
<1> QED
  BY <1>2, <1>4, <1>5

LEMMA DedupInductive ==
  DedupInv /\ [Dedup!Next]_Dedup!vars =>
    DedupInv' /\ [\A d \in Delivery : Dedup!ReClaims(d) => msg[d] \in overran]_Dedup!vars
<1> SUFFICES ASSUME DedupInv, [Dedup!Next]_Dedup!vars
             PROVE  DedupInv' /\ [\A d \in Delivery : Dedup!ReClaims(d) => msg[d] \in overran]_Dedup!vars
  OBVIOUS
<1>1. CASE Dedup!Tick
  <2>1. \A d \in Delivery : ~Dedup!ReClaims(d)
    BY <1>1 DEF Dedup!Tick, Dedup!ReClaims
  <2> QED
    BY <1>1, <2>1, TickKept
<1>2. ASSUME NEW d \in Delivery,
             Dedup!Step(d) \/ Dedup!Abandon(d) \/ \E m \in Message : Dedup!Deliver(d, m)
      PROVE  DedupInv' /\ \A e \in Delivery : Dedup!ReClaims(e) => msg[e] \in overran
  BY <1>2, DeliveryKept
<1>3. CASE UNCHANGED Dedup!vars
  <2>1. UNCHANGED <<entries, place, msg, tracked, lease, pending, handled, window, overran>>
    BY <1>3 DEF Dedup!vars
  <2>2. \A m \in Message : Dedup!Owners(m)' = Dedup!Owners(m)
    BY <2>1 DEF Dedup!Owners
  <2>3. ClaimsHold'
    BY <2>1, <2>2, DeliveryMoves
  <2> QED
    BY <1>3, <2>1, <2>3 DEF DedupInv, Dedup!TypeOK, DeliveriesHold, Dedup!AckImpliesDone
<1> QED
  BY <1>1, <1>2, <1>3 DEF Dedup!Next

\* Beside the other middlewares it makes its own steps, as it does alone.
LEMMA DedupSteps == (MCInit => Dedup!Init) /\ ([MCNext]_all => [Dedup!Next]_Dedup!vars)
  BY DEF MCInit, MCNext, all, dedupVars, Dedup!vars

LEMMA DedupStaysSafe == Dedup!Spec \/ MCSpec => []DedupInv
  BY DedupStarts, DedupInductive, DedupSteps, PTL DEF Dedup!Spec, MCSpec

\* While its handlers end within their lease a key is in one delivery's hands at a time, and
\* nothing is acknowledged or recorded as Completed that was not handled: for any number of
\* messages and goroutines, any times to live, and however the store fails
\* (Middleware in idempotency.go, InMemoryStore in store.go).
THEOREM IdempotencyIsSafe == Dedup!Spec \/ MCSpec => []DedupIsSafe
<1>1. ASSUME DedupInv, NEW m \in Message \ overran
      PROVE  Cardinality(Dedup!Owners(m)) <= 1
  <2>1. CASE Dedup!Owners(m) = {}
    BY <2>1, FS_EmptySet
  <2>2. CASE Dedup!Owners(m) # {}
    <3>1. PICK d \in Dedup!Owners(m) : TRUE
      BY <2>2
    <3>2. Dedup!Owners(m) = {d}
      BY <1>1, <3>1 DEF DedupInv, ClaimsHold
    <3> QED
      BY <3>2, FS_Singleton
  <2> QED
    BY <2>1, <2>2
<1>2. DedupInv => Dedup!OneAtATime
  BY <1>1, InstanceCardinality DEF Dedup!OneAtATime
<1>3. DedupInv => DedupIsSafe
  BY <1>2 DEF DedupInv, DedupIsSafe
<1> QED
  BY <1>3, DedupStaysSafe, PTL

\* A key whose Complete still promises deduplication is not claimed again, unless one of its
\* handlers outlived its lease (InMemoryStore.Claim and Complete, for any times to live).
THEOREM IdempotencySuppresses == Dedup!Spec \/ MCSpec => DuplicatesSuppressed
BY DedupInductive, DedupStaysSafe, DedupSteps, PTL
   DEF Dedup!Spec, MCSpec, DuplicatesSuppressed, Dedup!DuplicatesSuppressed

-----------------------------------------------------------------------------
(* The onion. *)

ContextErrors == {"canceled", "deadline"}
Reasons == {"none"} \union ContextErrors
Errors == {"none", "fault", "fallback failed"} \union ContextErrors
Headings == {"idle", "down", "up", "busy", "asleep"}
Statuses == {"none", "ok", "rejected", "unavailable", "timeout", "shed", "degraded"}
Outcomes == [status : Statuses, fresh : BOOLEAN]
BreakerStates == {"closed", "open", "half-open"}
Breakers == [state : BreakerStates, failures : Int, requests : Int, successes : Int]

OnionTypes ==
  /\ app \in Apps
  /\ pos \in [Client -> Int] /\ heading \in [Client -> Headings]
  /\ err \in [Client -> Errors] /\ result \in [Client -> Outcomes]
  /\ parent \in [Client -> Reasons] /\ fired \in [Client -> BOOLEAN]
  /\ counted \in [Client -> BOOLEAN] /\ breaker \in Breakers

\* A Timeout whose deadline has passed is still above c.
Overdue(c) == fired[c] /\ \E j \in 1..pos[c] : Onion!chain[j] = "timeout"

\* On the way up: an outcome without an error is a fresh result, a context's error is the
\* caller's or that of a Timeout above, and a fallback at the top has done its work.
Upward(c) ==
  /\ heading[c] = "up" =>
       /\ err[c] = "none" => result[c].fresh
       /\ err[c] \in ContextErrors => parent[c] # "none" \/ Overdue(c)
       /\ err[c] = "canceled" => parent[c] = "canceled"
       /\ pos[c] = 0 /\ Onion!chain # <<>> /\ Head(Onion!chain) = "fallback" /\ parent[c] = "none" =>
            IF err[c] = "none" THEN Onion!Successful(result[c]) ELSE err[c] = "fallback failed"
  /\ heading[c] = "busy" => pos[c] = Onion!Handler

UpwardHolds == \A c \in Client : Upward(c)

CountedCalls == {c \in Client : counted[c]}

\* Half-open, the calls counted are among those let in, and those are bounded.
CountIsBounded ==
  breaker.state = "half-open" =>
    /\ Cardinality(CountedCalls) <= breaker.requests
    /\ breaker.requests <= Probes

OnionInv == OnionTypes /\ UpwardHolds /\ CountIsBounded

LEMMA FiniteCallers ==
  ASSUME NEW S \in SUBSET Client
  PROVE  IsFiniteSet(S) /\ Cardinality(S) \in Nat
BY MiddlewareAssumption, FS_Subset, FS_CardinalityType

LEMMA FiniteCounted ==
  /\ IsFiniteSet(CountedCalls) /\ Cardinality(CountedCalls) \in Nat
  /\ Cardinality(CountedCalls') \in Nat
<1>1. CountedCalls \in SUBSET Client /\ CountedCalls' \in SUBSET Client
  BY DEF CountedCalls
<1> QED
  BY <1>1, FiniteCallers

LEMMA NotOverdue == \A c \in Client : pos[c] = 0 => ~Overdue(c)
BY DEF Overdue

LEMMA Values ==
  /\ ContextErrors \subseteq Errors /\ Reasons \subseteq Errors
  /\ "none" \in Errors /\ "fault" \in Errors /\ "fallback failed" \in Errors
  /\ "none" \in Reasons /\ "canceled" \in Reasons /\ "deadline" \in Reasons
  /\ "idle" \in Headings /\ "down" \in Headings /\ "up" \in Headings
  /\ "busy" \in Headings /\ "asleep" \in Headings
  /\ Onion!NoResult \in Outcomes
  /\ \A status \in Statuses : [status |-> status, fresh |-> TRUE] \in Outcomes
  /\ \A answer \in Outcomes : [answer EXCEPT !.fresh = FALSE] \in Outcomes
  /\ \A state \in BreakerStates : Onion!Fresh(state) \in Breakers
  /\ Onion!NobodyCounted \in [Client -> BOOLEAN]
<1>1. Onion!NoResult \in Outcomes
  BY DEF Onion!NoResult, Outcomes, Statuses
<1>2. ASSUME NEW status \in Statuses PROVE [status |-> status, fresh |-> TRUE] \in Outcomes
  BY DEF Outcomes
<1>3. ASSUME NEW answer \in Outcomes PROVE [answer EXCEPT !.fresh = FALSE] \in Outcomes
  BY DEF Outcomes
<1>4. ASSUME NEW state \in BreakerStates PROVE Onion!Fresh(state) \in Breakers
  BY DEF Onion!Fresh, Breakers
<1>5. Onion!NobodyCounted \in [Client -> BOOLEAN]
  BY DEF Onion!NobodyCounted
<1> QED
  BY <1>1, <1>2, <1>3, <1>4, <1>5 DEF ContextErrors, Reasons, Errors, Headings

LEMMA OnionStarts == Onion!Init => OnionInv
<1> SUFFICES ASSUME Onion!Init PROVE OnionInv
  OBVIOUS
<1> USE DEF Onion!Init
<1>1. OnionTypes
  <2>1. breaker \in Breakers
    BY DEF Breakers, BreakerStates
  <2>2. pos \in [Client -> Int]
    OBVIOUS
  <2> QED
    BY <2>1, <2>2, Values DEF OnionTypes
<1>2. UpwardHolds /\ CountIsBounded
  BY DEF UpwardHolds, Upward, CountIsBounded
<1> QED
  BY <1>1, <1>2 DEF OnionInv

LEMMA BreakerUpdates ==
  ASSUME NEW b \in Breakers, NEW n \in Int
  PROVE  /\ [b EXCEPT !.failures = n] \in Breakers
         /\ [b EXCEPT !.failures = 0, !.successes = n] \in Breakers
<1>1. [b EXCEPT !.failures = n] \in Breakers
  BY DEF Breakers
<1>2. [b EXCEPT !.failures = 0, !.successes = n] \in Breakers
  <2>1. b \in [state : BreakerStates, failures : Int, requests : Int, successes : Int]
    BY DEF Breakers
  <2>2. [b EXCEPT !.failures = 0] \in Breakers
    BY <2>1 DEF Breakers
  <2>3. [b EXCEPT !.failures = 0, !.successes = n] = [[b EXCEPT !.failures = 0] EXCEPT !.successes = n]
    BY <2>1
  <2> QED
    BY <2>2, <2>3 DEF Breakers
<1> QED
  BY <1>1, <1>2

\* What the parts of an action do to the types.
LEMMA Moves ==
  ASSUME OnionTypes, NEW c \in Client, Onion!Up(c) \/ Onion!Down(c) \/ Onion!TurnBack(c)
  PROVE  pos' \in [Client -> Int] /\ heading' \in [Client -> Headings]
<1>1. pos' \in [Client -> Int]
  BY DEF OnionTypes, Onion!Up, Onion!Down, Onion!TurnBack
<1>2. heading' \in [Client -> Headings]
  BY DEF OnionTypes, Onion!Up, Onion!Down, Onion!TurnBack, Headings
<1> QED
  BY <1>1, <1>2

LEMMA Raises ==
  ASSUME OnionTypes, NEW c \in Client, NEW e \in Errors, Onion!Raise(c, e)
  PROVE  err' \in [Client -> Errors]
BY DEF OnionTypes, Onion!Raise

LEMMA Puts ==
  ASSUME OnionTypes, NEW c \in Client, NEW status \in Statuses, Onion!Put(c, status)
  PROVE  result' \in [Client -> Outcomes]
BY Values DEF OnionTypes, Onion!Put

LEMMA ContextReason ==
  ASSUME OnionTypes, NEW c \in Client, NEW i
  PROVE  Onion!CtxErr(c, i) \in Reasons
BY Values DEF OnionTypes, Onion!CtxErr

\* The steps leave the types as they are.
LEMMA CallerTypes ==
  ASSUME OnionTypes, NEW c \in Client,
         Onion!Call(c) \/ Onion!Step(c) \/ Onion!GiveUp(c) \/ Onion!Fire(c)
  PROVE  OnionTypes'
<1>1. CASE Onion!Call(c)
  <2>1. pos' \in [Client -> Int]
    BY <1>1 DEF Onion!Call, OnionTypes
  <2> QED
    BY Values, <1>1, <2>1 DEF Onion!Call, OnionTypes
<1>2. CASE Onion!Return(c)
  BY Values, <1>2 DEF Onion!Return, OnionTypes
<1>3. CASE Onion!GiveUp(c)
  <2>1. parent' \in [Client -> Reasons]
    BY <1>3 DEF Onion!GiveUp, OnionTypes, Reasons, ContextErrors
  <2> QED
    BY <1>3, <2>1 DEF Onion!GiveUp, OnionTypes, Onion!frame
<1>4. CASE Onion!Fire(c)
  BY <1>4 DEF Onion!Fire, OnionTypes, Onion!frame
<1>5. CASE Onion!EnterHandler(c)
  BY Values, <1>5 DEF Onion!EnterHandler, OnionTypes
<1>6. CASE Onion!EnterTimeout(c)
  BY Values, <1>6, Moves DEF Onion!EnterTimeout, OnionTypes
<1>7. CASE Onion!EnterRetry(c) \/ Onion!EnterFallback(c)
  BY Values, <1>7, Moves DEF Onion!EnterRetry, Onion!EnterFallback, OnionTypes
<1>8. CASE Onion!LeaveHandler(c)
  <2>1. pos' \in [Client -> Int] /\ heading' \in [Client -> Headings]
    BY <1>8, Moves DEF Onion!LeaveHandler
  <2>2. {"ok", "rejected", "unavailable"} \subseteq Statuses
    BY DEF Statuses
  <2>3. Onion!CtxErr(c, pos[c]) \in Errors
    BY ContextReason, Values
  <2>4. err' \in [Client -> Errors]
    BY Values, <1>8, <2>3, Raises DEF Onion!LeaveHandler
  <2>5. result' \in [Client -> Outcomes]
    <3>1. UNCHANGED result \/ \E status \in Statuses : Onion!Put(c, status)
      BY <1>8, <2>2 DEF Onion!LeaveHandler
    <3> QED
      BY <3>1, Puts DEF OnionTypes
  <2> QED
    BY Values, <1>8, <2>1, <2>4, <2>5 DEF Onion!LeaveHandler, OnionTypes
<1>9. CASE Onion!LeaveTimeout(c)
  <2>1. pos' \in [Client -> Int] /\ heading' \in [Client -> Headings]
    BY <1>9, Moves DEF Onion!LeaveTimeout
  <2>2. UNCHANGED err \/ Onion!Raise(c, "none")
    BY <1>9 DEF Onion!LeaveTimeout
  <2>3. UNCHANGED result \/ Onion!Put(c, "timeout")
    BY <1>9 DEF Onion!LeaveTimeout
  <2>4. err' \in [Client -> Errors]
    BY <2>2, Raises, Values DEF OnionTypes
  <2>5. result' \in [Client -> Outcomes]
    BY <2>3, Puts DEF OnionTypes, Statuses
  <2> QED
    BY Values, <1>9, <2>1, <2>4, <2>5 DEF Onion!LeaveTimeout, OnionTypes
<1>10. CASE Onion!AfterAttempt(c)
  <2>1. pos' \in [Client -> Int] /\ heading' \in [Client -> Headings]
    <3>1. Onion!Up(c) \/ (UNCHANGED pos /\ heading' = [heading EXCEPT ![c] = "asleep"])
      BY <1>10 DEF Onion!AfterAttempt
    <3> QED
      BY <3>1, Moves, Values DEF OnionTypes
  <2> QED
    BY Values, <1>10, <2>1 DEF Onion!AfterAttempt, OnionTypes
<1>11. CASE Onion!Wake(c)
  <2>1. err' \in [Client -> Errors]
    BY <1>11, Raises, Values DEF Onion!Wake
  <2>2. pos' \in [Client -> Int]
    BY <1>11 DEF Onion!Wake, OnionTypes
  <2> QED
    BY Values, <1>11, <2>1, <2>2 DEF Onion!Wake, OnionTypes
<1>12. CASE Onion!Interrupted(c)
  <2>1. Onion!CtxErr(c, pos[c]) \in Errors
    BY ContextReason, Values
  <2>2. err' \in [Client -> Errors]
    BY <1>12, <2>1, Raises DEF Onion!Interrupted
  <2> QED
    BY Values, <1>12, <2>2, Moves DEF Onion!Interrupted, OnionTypes
<1>13. CASE Onion!LeaveFallback(c)
  <2>1. UNCHANGED err \/ Onion!Raise(c, "none") \/ Onion!Raise(c, "fallback failed")
    BY <1>13 DEF Onion!LeaveFallback
  <2>2. UNCHANGED result \/ Onion!Put(c, "degraded")
    BY <1>13 DEF Onion!LeaveFallback
  <2>3. err' \in [Client -> Errors]
    BY <2>1, Raises, Values DEF OnionTypes
  <2>4. result' \in [Client -> Outcomes]
    BY <2>2, Puts DEF OnionTypes, Statuses
  <2> QED
    BY Values, <1>13, <2>3, <2>4, Moves DEF Onion!LeaveFallback, OnionTypes
<1>14. CASE Onion!Shed(c)
  <2>1. err' \in [Client -> Errors]
    BY <1>14, Raises, Values DEF Onion!Shed
  <2>2. result' \in [Client -> Outcomes]
    BY <1>14, Puts DEF Onion!Shed, Statuses
  <2> QED
    BY Values, <1>14, <2>1, <2>2, Moves DEF Onion!Shed, OnionTypes
<1>15. CASE Onion!EnterBreaker(c)
  <2>1. counted' \in [Client -> BOOLEAN]
    BY <1>15 DEF Onion!EnterBreaker, OnionTypes
  <2>2. breaker' \in Breakers
    <3>1. breaker \in Breakers /\ \E n \in {breaker.requests, breaker.requests + 1} :
            breaker' = [breaker EXCEPT !.requests = n]
      BY <1>15 DEF Onion!EnterBreaker, OnionTypes
    <3>2. breaker.requests \in Int
      BY <3>1 DEF Breakers
    <3> QED
      BY <3>1, <3>2 DEF Breakers
  <2> QED
    BY Values, <1>15, <2>1, <2>2, Moves DEF Onion!EnterBreaker, OnionTypes
<1>16. CASE Onion!LeaveBreaker(c)
  <2>1. counted' \in [Client -> BOOLEAN]
    <3>1. counted' \in {counted, Onion!NobodyCounted, [counted EXCEPT ![c] = FALSE]}
      BY <1>16 DEF Onion!LeaveBreaker
    <3> QED
      BY <3>1, Values DEF OnionTypes
  <2>2. breaker' \in Breakers
    <3>1. breaker \in Breakers /\ breaker.failures + 1 \in Int /\ breaker.successes + 1 \in Int
          /\ breaker.successes \in Int
      BY DEF OnionTypes, Breakers
    <3>2. \/ breaker' = breaker
          \/ \E state \in BreakerStates : breaker' = Onion!Fresh(state)
          \/ \E n \in Int : breaker' = [breaker EXCEPT !.failures = n]
          \/ \E n \in Int : breaker' = [breaker EXCEPT !.failures = 0, !.successes = n]
      BY <1>16, <3>1 DEF Onion!LeaveBreaker, BreakerStates
    <3>3. ASSUME NEW n \in Int
          PROVE  [breaker EXCEPT !.failures = n] \in Breakers
                 /\ [breaker EXCEPT !.failures = 0, !.successes = n] \in Breakers
      BY <3>1, BreakerUpdates
    <3> QED
      BY <3>1, <3>2, <3>3, Values
  <2> QED
    BY Values, <1>16, <2>1, <2>2, Moves DEF Onion!LeaveBreaker, OnionTypes
<1> QED
  BY <1>1, <1>2, <1>3, <1>4, <1>5, <1>6, <1>7, <1>8, <1>9, <1>10, <1>11, <1>12, <1>13, <1>14,
     <1>15, <1>16 DEF Onion!Step

\* A caller's step is about its own invocation.
LEMMA OwnInvocation ==
  ASSUME OnionTypes, NEW c \in Client,
         Onion!Call(c) \/ Onion!Step(c) \/ Onion!GiveUp(c) \/ Onion!Fire(c),
         NEW e \in Client, e # c
  PROVE  app' = app /\ UNCHANGED <<pos[e], heading[e], err[e], result[e], parent[e], fired[e]>>
<1> USE DEF OnionTypes, Onion!Up, Onion!Down, Onion!TurnBack, Onion!Raise, Onion!Put, Onion!frame
<1>1. CASE Onion!Call(c) \/ Onion!GiveUp(c) \/ Onion!Fire(c) \/ Onion!Return(c)
  BY <1>1 DEF Onion!Call, Onion!GiveUp, Onion!Fire, Onion!Return
<1>2. CASE Onion!EnterHandler(c) \/ Onion!EnterTimeout(c) \/ Onion!EnterRetry(c) \/ Onion!EnterFallback(c)
           \/ Onion!EnterBreaker(c)
  BY <1>2 DEF Onion!EnterHandler, Onion!EnterTimeout, Onion!EnterRetry, Onion!EnterFallback,
              Onion!EnterBreaker
<1>3. CASE Onion!LeaveHandler(c)
  BY <1>3 DEF Onion!LeaveHandler
<1>4. CASE Onion!LeaveTimeout(c)
  BY <1>4 DEF Onion!LeaveTimeout
<1>5. CASE Onion!AfterAttempt(c) \/ Onion!Wake(c) \/ Onion!Interrupted(c)
  BY <1>5 DEF Onion!AfterAttempt, Onion!Wake, Onion!Interrupted
<1>6. CASE Onion!LeaveFallback(c) \/ Onion!Shed(c)
  BY <1>6 DEF Onion!LeaveFallback, Onion!Shed
<1>7. CASE Onion!LeaveBreaker(c)
  <2>1. Onion!Up(c) /\ UNCHANGED <<app, err, result, parent, fired, attempt, healthy>>
    BY <1>7 DEF Onion!LeaveBreaker
  <2> QED
    BY <2>1
<1> QED
  BY <1>1, <1>2, <1>3, <1>4, <1>5, <1>6, <1>7 DEF Onion!Step

\* What the steps of an invocation leave on the way up.
LEMMA UpwardKept ==
  ASSUME OnionTypes, NEW c \in Client, Upward(c),
         Onion!Call(c) \/ Onion!Step(c) \/ Onion!GiveUp(c) \/ Onion!Fire(c)
  PROVE  Upward(c)'
<1> USE DEF OnionTypes
<1>0. /\ app.chain \in Seq(Onion!Middleware) /\ Onion!chain = app.chain /\ app' = app
      /\ Len(app.chain) \in Nat /\ pos[c] \in Int
  <2>1. app \in Apps
    OBVIOUS
  <2>2. app.chain \in Seq(Onion!Middleware)
    BY <2>1, MiddlewareAssumption
  <2>3. app' = app
    BY DEF Onion!Call, Onion!Step, Onion!GiveUp, Onion!Fire, Onion!Return, Onion!EnterHandler,
           Onion!LeaveHandler, Onion!EnterTimeout, Onion!LeaveTimeout, Onion!EnterRetry,
           Onion!AfterAttempt, Onion!Wake, Onion!Interrupted, Onion!EnterFallback,
           Onion!LeaveFallback, Onion!Shed, Onion!EnterBreaker, Onion!LeaveBreaker
  <2> QED
    BY <2>2, <2>3 DEF Onion!chain
<1>1. CASE \/ Onion!Call(c) \/ Onion!Return(c) \/ Onion!EnterTimeout(c) \/ Onion!EnterRetry(c)
           \/ Onion!EnterFallback(c) \/ Onion!EnterBreaker(c) \/ Onion!Wake(c)
  <2>1. heading'[c] \in {"idle", "down"}
    BY <1>1 DEF Onion!Call, Onion!Return, Onion!EnterTimeout, Onion!EnterRetry, Onion!EnterFallback,
                Onion!EnterBreaker, Onion!Wake, Onion!In, Onion!Down
  <2> QED
    BY <2>1 DEF Upward
<1>2. CASE Onion!EnterHandler(c)
  <2>1. heading'[c] = "busy" /\ pos'[c] = Onion!Handler
    BY <1>2 DEF Onion!EnterHandler
  <2> QED
    BY <1>0, <2>1 DEF Upward, Onion!Handler, Onion!chain
<1>3. CASE Onion!GiveUp(c)
  <2>1. /\ parent[c] = "none" /\ parent'[c] # "none"
        /\ UNCHANGED <<pos, heading, err, result>>
    BY <1>3 DEF Onion!GiveUp, Onion!frame
  <2> QED
    BY <1>0, <2>1 DEF Upward, Onion!Handler, Onion!chain
<1>4. CASE Onion!Fire(c)
  <2>1. UNCHANGED <<pos, heading, err, result, parent>> /\ fired'[c] = TRUE
    BY <1>4 DEF Onion!Fire, Onion!frame
  <2>2. Overdue(c) => Overdue(c)'
    BY <1>0, <2>1 DEF Overdue, Onion!chain
  <2> QED
    BY <1>0, <2>1, <2>2 DEF Upward, Onion!Handler, Onion!chain
<1>5. CASE Onion!LeaveHandler(c)
  <2> DEFINE reason == Onion!CtxErr(c, pos[c])
  <2>1. /\ heading[c] = "busy" /\ heading'[c] = "up" /\ pos'[c] = pos[c] - 1
        /\ parent' = parent /\ fired' = fired
    BY <1>5 DEF Onion!LeaveHandler, Onion!TurnBack
  <2>2. \/ err'[c] = "none" /\ result'[c].fresh
        \/ err'[c] = "fault"
        \/ err'[c] = reason /\ reason # "none"
    BY <1>5 DEF Onion!LeaveHandler, Onion!Put, Onion!Raise
  <2>3. pos'[c] = Len(app.chain)
    BY <1>0, <2>1 DEF Upward, Onion!Handler, Onion!chain
  <2>4. reason = IF fired[c] /\ \E j \in 1..(pos[c] - 1) : app.chain[j] = "timeout"
                 THEN "deadline" ELSE parent[c]
    BY <1>0 DEF Onion!CtxErr, Onion!chain
  <2>5. (reason = "deadline" /\ Overdue(c)') \/ reason = parent[c]
    BY <1>0, <2>1, <2>4 DEF Overdue, Onion!chain
  <2>6. pos'[c] = 0 => app.chain = <<>>
    BY <1>0, <2>3, EmptySeq
  <2> HIDE DEF reason
  <2> QED
    BY <1>0, <2>1, <2>2, <2>5, <2>6 DEF Upward, Onion!chain, ContextErrors
<1>6. ASSUME NEW m \in Onion!Middleware, Onion!In(c, m, "up") \/ Onion!In(c, m, "down")
      PROVE  /\ pos[c] \in 1..Len(app.chain) /\ app.chain[pos[c]] = m
             /\ pos[c] - 1 = 0 => Head(app.chain) = m
  BY <1>0, <1>6 DEF Onion!In, Onion!chain
<1>7. CASE Onion!LeaveTimeout(c)
  <2>1. /\ heading[c] = "up" /\ heading'[c] = "up" /\ pos'[c] = pos[c] - 1
        /\ parent' = parent /\ fired' = fired
    BY <1>7 DEF Onion!LeaveTimeout, Onion!Up, Onion!In
  <2>2. pos'[c] = 0 => Head(app.chain) = "timeout"
    BY <1>6, <1>7, <2>1 DEF Onion!LeaveTimeout, Onion!Middleware
  <2>3. CASE fired[c] /\ parent[c] = "none"
    <3>1. err'[c] = "none" /\ ((result'[c] = result[c] /\ err[c] = "none") \/ result'[c].fresh)
      BY <1>7, <2>3 DEF Onion!LeaveTimeout, Onion!Raise, Onion!Put
    <3> QED
      BY <1>0, <2>1, <2>2, <3>1 DEF Upward, Onion!chain, ContextErrors
  <2>4. CASE ~(fired[c] /\ parent[c] = "none")
    <3>1. err' = err /\ result' = result
      BY <1>7, <2>4 DEF Onion!LeaveTimeout
    <3>2. err[c] \in ContextErrors => parent[c] # "none"
      BY <2>1, <2>4 DEF Upward, Overdue
    <3> QED
      BY <1>0, <2>1, <2>2, <3>1, <3>2 DEF Upward, Onion!chain
  <2> QED
    BY <2>3, <2>4
<1>8. ASSUME NEW m \in Onion!Middleware \ {"timeout", "fallback"}, Onion!In(c, m, "up"),
             pos'[c] = pos[c] - 1, UNCHANGED <<heading, err, result, parent, fired>>
      PROVE  Upward(c)'
  <2>1. heading[c] = "up"
    BY <1>8 DEF Onion!In
  <2>2. Overdue(c) => Overdue(c)'
    BY <1>0, <1>6, <1>8 DEF Overdue, Onion!chain
  <2>3. pos'[c] = 0 => Head(app.chain) # "fallback"
    BY <1>6, <1>8
  <2> QED
    BY <1>0, <1>8, <2>1, <2>2, <2>3 DEF Upward, Onion!chain
<1>9. CASE Onion!AfterAttempt(c)
  <2>1. CASE heading'[c] = "asleep"
    BY <2>1 DEF Upward
  <2>2. CASE Onion!Up(c)
    BY <1>8, <1>9, <2>2 DEF Onion!AfterAttempt, Onion!Up, Onion!Middleware
  <2> QED
    BY <1>9, <2>1, <2>2 DEF Onion!AfterAttempt, Onion!Up
<1>10. CASE Onion!LeaveBreaker(c)
  <2>1. Onion!In(c, "breaker", "up") /\ Onion!Up(c) /\ UNCHANGED <<err, result, parent, fired>>
    BY <1>10 DEF Onion!LeaveBreaker
  <2> QED
    BY <1>8, <2>1 DEF Onion!Up, Onion!Middleware
<1>11. CASE Onion!Interrupted(c)
  <2> DEFINE reason == Onion!CtxErr(c, pos[c])
  <2>1. /\ heading'[c] = "up" /\ pos'[c] = pos[c] - 1 /\ parent' = parent /\ fired' = fired
        /\ err'[c] = reason /\ reason # "none"
    BY <1>11 DEF Onion!Interrupted, Onion!TurnBack, Onion!Raise
  <2>2. reason = IF fired[c] /\ \E j \in 1..(pos[c] - 1) : app.chain[j] = "timeout"
                 THEN "deadline" ELSE parent[c]
    BY <1>0 DEF Onion!CtxErr, Onion!chain
  <2>3. (reason = "deadline" /\ Overdue(c)') \/ reason = parent[c]
    BY <1>0, <2>1, <2>2 DEF Overdue, Onion!chain
  <2>4. pos'[c] = 0 => Head(app.chain) = "retry"
    <3>1. Onion!In(c, "retry", "asleep")
      BY <1>11 DEF Onion!Interrupted
    <3> QED
      BY <1>0, <2>1, <3>1 DEF Onion!In, Onion!chain
  <2> HIDE DEF reason
  <2> QED
    BY <1>0, <2>1, <2>3, <2>4 DEF Upward, Onion!chain, ContextErrors
<1>12. CASE Onion!LeaveFallback(c)
  <2>1. /\ heading[c] = "up" /\ heading'[c] = "up" /\ pos'[c] = pos[c] - 1
        /\ parent' = parent /\ fired' = fired /\ Onion!In(c, "fallback", "up")
    BY <1>12 DEF Onion!LeaveFallback, Onion!Up, Onion!In
  <2>2. Overdue(c) => Overdue(c)'
    BY <1>0, <1>6, <2>1 DEF Overdue, Onion!chain, Onion!Middleware
  <2>3. pos'[c] = 0 => ~Overdue(c)
    BY <1>0, <1>6, <2>1 DEF Overdue, Onion!chain, Onion!Middleware
  <2>4. CASE Onion!FallsBack(c)
    <3>1. \/ err'[c] = "none" /\ result'[c].fresh /\ Onion!Successful(result[c])'
          \/ err'[c] = "fallback failed"
      <4>1. \/ Onion!Put(c, "degraded") /\ Onion!Raise(c, "none")
            \/ Onion!Raise(c, "fallback failed")
        BY <1>12, <2>4 DEF Onion!LeaveFallback
      <4>2. Onion!Put(c, "degraded") => result'[c].fresh /\ Onion!Successful(result[c])'
        <5>1. Onion!Put(c, "degraded") => result'[c] = [status |-> "degraded", fresh |-> TRUE]
          BY DEF Onion!Put
        <5> QED
          BY <5>1 DEF Onion!Successful
      <4>3. \A e : Onion!Raise(c, e) => err'[c] = e
        BY DEF Onion!Raise
      <4> QED
        BY <4>1, <4>2, <4>3
    <3> QED
      BY <1>0, <2>1, <3>1 DEF Upward, Onion!chain, ContextErrors, Onion!Successful
  <2>5. CASE ~Onion!FallsBack(c)
    <3>1. err' = err /\ result' = result
      BY <1>12, <2>5 DEF Onion!LeaveFallback
    <3>2. IF err[c] = "none" THEN Onion!Successful(result[c]) ELSE err[c] \in ContextErrors
      BY <2>5 DEF Onion!FallsBack, Onion!RetryOnError, ContextErrors
    <3> QED
      BY <1>0, <2>1, <2>2, <2>3, <3>1, <3>2 DEF Upward, Onion!chain, ContextErrors, Onion!Successful
  <2> QED
    BY <2>4, <2>5
<1>13. CASE Onion!Shed(c)
  <2>1. /\ heading'[c] = "up" /\ pos'[c] = pos[c] - 1 /\ err'[c] = "none" /\ result'[c].fresh
        /\ Onion!In(c, "breaker", "down")
    BY <1>13 DEF Onion!Shed, Onion!TurnBack, Onion!Put, Onion!Raise
  <2>2. pos'[c] = 0 => Head(app.chain) = "breaker"
    BY <1>6, <2>1 DEF Onion!Middleware
  <2> QED
    BY <1>0, <2>1, <2>2 DEF Upward, Onion!chain, ContextErrors
<1> QED
  BY <1>1, <1>2, <1>3, <1>4, <1>5, <1>7, <1>9, <1>10, <1>11, <1>12, <1>13 DEF Onion!Step
\* How a call ends for the breaker.
LEMMA Results ==
  ASSUME breaker \in Breakers, NEW c \in Client, Onion!LeaveBreaker(c)
  PROVE  \/ UNCHANGED <<breaker, counted>>
         \/ breaker' = Onion!Fresh("open") /\ breaker'.state = "open" /\ Onion!Failed(c)
         \/ breaker' = Onion!Fresh("closed") /\ breaker'.state = "closed" /\ ~Onion!Failed(c)
         \/ /\ counted' = [counted EXCEPT ![c] = FALSE]
            /\ breaker'.state = breaker.state /\ breaker'.requests = breaker.requests
<1>1. \/ UNCHANGED <<breaker, counted>>
      \/ breaker' = Onion!Fresh("open") /\ Onion!Failed(c)
      \/ breaker' = Onion!Fresh("closed") /\ ~Onion!Failed(c)
      \/ /\ counted' = [counted EXCEPT ![c] = FALSE]
         /\ \/ breaker' = [breaker EXCEPT !.failures = @ + 1]
            \/ breaker' = [breaker EXCEPT !.failures = 0,
                  !.successes = IF breaker.state = "half-open" THEN @ + 1 ELSE @]
  BY DEF Onion!LeaveBreaker
<1>2. breaker' = [breaker EXCEPT !.failures = @ + 1] =>
        breaker'.state = breaker.state /\ breaker'.requests = breaker.requests
  BY DEF Breakers
<1>3. ASSUME NEW n \in Int, breaker' = [breaker EXCEPT !.failures = 0, !.successes = n]
      PROVE  breaker'.state = breaker.state /\ breaker'.requests = breaker.requests
  BY <1>3 DEF Breakers
<1>4. (IF breaker.state = "half-open" THEN breaker.successes + 1 ELSE breaker.successes) \in Int
  BY DEF Breakers
<1>5. \A state : Onion!Fresh(state).state = state
  BY DEF Onion!Fresh
<1> QED
  BY <1>1, <1>2, <1>3, <1>4, <1>5

\* A caller more is one counted more, at most.
LEMMA CountedGrows ==
  ASSUME OnionTypes, NEW c \in Client, counted' = [counted EXCEPT ![c] = TRUE]
  PROVE  IsFiniteSet(CountedCalls) /\ Cardinality(CountedCalls') <= Cardinality(CountedCalls) + 1
<1>1. CountedCalls' = CountedCalls \union {c}
  BY DEF CountedCalls, OnionTypes
<1>2. Cardinality(CountedCalls \union {c}) =
        IF c \in CountedCalls THEN Cardinality(CountedCalls) ELSE Cardinality(CountedCalls) + 1
  BY FiniteCounted, FS_AddElement
<1> QED
  BY <1>1, <1>2, FiniteCounted

\* A call fewer is none counted more.
LEMMA CountedShrinks ==
  ASSUME OnionTypes, NEW c \in Client, counted' = [counted EXCEPT ![c] = FALSE]
  PROVE  Cardinality(CountedCalls') <= Cardinality(CountedCalls)
<1>1. CountedCalls' \subseteq CountedCalls
  BY DEF CountedCalls, OnionTypes
<1> QED
  BY <1>1, FiniteCounted, FS_Subset

LEMMA NobodyIsNone ==
  ASSUME counted' = Onion!NobodyCounted
  PROVE  Cardinality(CountedCalls') = 0
<1>1. CountedCalls' = {}
  BY DEF CountedCalls, Onion!NobodyCounted
<1> QED
  BY <1>1, FS_EmptySet

LEMMA CountKept ==
  ASSUME OnionTypes, CountIsBounded, NEW c \in Client, Onion!EnterBreaker(c) \/ Onion!LeaveBreaker(c)
  PROVE  CountIsBounded'
<1>0. /\ breaker \in Breakers /\ breaker.requests \in Int /\ Probes \in Nat
      /\ Cardinality(CountedCalls) \in Nat
  BY FiniteCounted, MiddlewareAssumption DEF OnionTypes, Breakers
<1>1. CASE Onion!EnterBreaker(c)
  <2>1. /\ Cardinality(CountedCalls') <= Cardinality(CountedCalls) + 1
    BY <1>1, CountedGrows DEF Onion!EnterBreaker
  <2>2. breaker'.state = breaker.state
        /\ breaker'.requests = IF breaker.state = "half-open" THEN breaker.requests + 1 ELSE breaker.requests
    BY <1>0, <1>1 DEF Onion!EnterBreaker, Breakers
  <2>3. breaker.state = "half-open" => breaker.requests < Probes
    BY <1>0, <1>1 DEF Onion!EnterBreaker, Onion!Rejects
  <2>4. Cardinality(CountedCalls') \in Nat
    BY FiniteCounted
  <2> QED
    BY <1>0, <2>1, <2>2, <2>3, <2>4 DEF CountIsBounded
<1>2. CASE Onion!LeaveBreaker(c)
  <2>1. \/ breaker' = breaker /\ counted' = counted
        \/ breaker'.state \in {"open", "closed"}
        \/ /\ counted' = [counted EXCEPT ![c] = FALSE]
           /\ breaker'.state = breaker.state /\ breaker'.requests = breaker.requests
    BY <1>0, <1>2, Results
  <2>2. CASE counted' = counted /\ breaker' = breaker
    BY <2>2 DEF CountIsBounded, CountedCalls
  <2>3. CASE counted' = [counted EXCEPT ![c] = FALSE]
             /\ breaker'.state = breaker.state /\ breaker'.requests = breaker.requests
    <3>1. Cardinality(CountedCalls') <= Cardinality(CountedCalls)
      BY <2>3, CountedShrinks
    <3>2. Cardinality(CountedCalls') \in Nat
      BY FiniteCounted
    <3> QED
      BY <1>0, <2>3, <3>1, <3>2 DEF CountIsBounded
  <2> QED
    BY <2>1, <2>2, <2>3 DEF CountIsBounded
<1> QED
  BY <1>1, <1>2

\* Every step of the onion keeps the invariant.
LEMMA OnionInductive == OnionInv /\ [Onion!Next]_Onion!vars => OnionInv'
<1> SUFFICES ASSUME OnionInv, [Onion!Next]_Onion!vars PROVE OnionInv'
  OBVIOUS
<1> USE DEF OnionInv
<1>1. CASE UNCHANGED Onion!vars
  <2> USE <1>1 DEF Onion!vars, Onion!frame
  <2>1. OnionTypes' /\ CountIsBounded'
    BY DEF OnionTypes, CountIsBounded, CountedCalls
  <2>2. UpwardHolds'
    BY DEF UpwardHolds, Upward, Overdue, Onion!chain, Onion!Handler, Onion!Successful
  <2> QED
    BY <2>1, <2>2
<1>2. CASE Onion!Recover \/ Onion!HalfOpen
  <2>1. UNCHANGED <<app, pos, heading, err, result, parent, fired>>
    BY <1>2 DEF Onion!Recover, Onion!HalfOpen, Onion!frame
  <2>2. UpwardHolds'
    BY <2>1 DEF UpwardHolds, Upward, Overdue, Onion!chain, Onion!Handler, Onion!Successful
  <2>3. CASE Onion!Recover
    <3>1. UNCHANGED <<breaker, counted>>
      BY <2>3 DEF Onion!Recover
    <3> QED
      BY <2>1, <2>2, <3>1 DEF OnionTypes, CountIsBounded, CountedCalls
  <2>4. CASE Onion!HalfOpen
    <3>1. breaker' = Onion!Fresh("half-open") /\ counted' = Onion!NobodyCounted
      BY <2>4 DEF Onion!HalfOpen
    <3>2. breaker' \in Breakers /\ counted' \in [Client -> BOOLEAN]
      BY <3>1, Values DEF BreakerStates
    <3>3. OnionTypes'
      BY <2>1, <3>2 DEF OnionTypes
    <3>4. Cardinality(CountedCalls') = 0
      BY <3>1, NobodyIsNone
    <3>5. CountIsBounded'
      BY <3>1, <3>4, MiddlewareAssumption DEF CountIsBounded, Onion!Fresh
    <3> QED
      BY <2>2, <3>3, <3>5
  <2> QED
    BY <1>2, <2>3, <2>4
<1>3. ASSUME NEW c \in Client, Onion!Call(c) \/ Onion!Step(c) \/ Onion!GiveUp(c) \/ Onion!Fire(c)
      PROVE  OnionInv'
  <2>1. OnionTypes'
    BY <1>3, CallerTypes
  <2>2. ASSUME NEW e \in Client PROVE Upward(e)'
    <3>1. CASE e = c
      BY <1>3, <3>1, UpwardKept DEF UpwardHolds
    <3>2. CASE e # c
      <4>1. app' = app /\ UNCHANGED <<pos[e], heading[e], err[e], result[e], parent[e], fired[e]>>
        BY <1>3, <3>2, OwnInvocation
      <4> QED
        <5>1. Upward(e)
          BY DEF UpwardHolds
        <5> QED
          BY <4>1, <5>1 DEF Upward, Overdue, Onion!chain, Onion!Handler, Onion!Successful
    <3> QED
      BY <3>1, <3>2
  <2>3. CountIsBounded'
    <3>1. CASE Onion!EnterBreaker(c) \/ Onion!LeaveBreaker(c)
      BY <3>1, CountKept
    <3>2. CASE ~(Onion!EnterBreaker(c) \/ Onion!LeaveBreaker(c))
      <4>1. UNCHANGED <<breaker, counted>>
        BY <1>3, <3>2 DEF Onion!Step, Onion!Call, Onion!GiveUp, Onion!Fire, Onion!Return,
           Onion!EnterHandler, Onion!LeaveHandler, Onion!EnterTimeout, Onion!LeaveTimeout,
           Onion!EnterRetry, Onion!AfterAttempt, Onion!Wake, Onion!Interrupted,
           Onion!EnterFallback, Onion!LeaveFallback, Onion!Shed
      <4> QED
        BY <4>1 DEF CountIsBounded, CountedCalls
    <3> QED
      BY <3>1, <3>2
  <2> QED
    BY <2>1, <2>2, <2>3 DEF UpwardHolds
<1> QED
  BY <1>1, <1>2, <1>3 DEF Onion!Next

\* The composition's steps are the onion's.
LEMMA OnionSteps ==
  /\ MCInit => Onion!Init
  /\ [MCNext]_all => [Onion!Next]_Onion!vars
BY DEF MCInit, MCNext, all, onionVars, Onion!vars, Onion!frame

\* Whatever the chain, the number of callers and the breaker's settings: an
\* invocation that ends without an error carries the last attempt's result or a middleware's
\* verdict on it; below a Timeout a context's error that reaches the transport is the caller's
\* own; with a fallback outermost a patient caller gets a success, a substitute or the fallback's
\* own error; and half-open the breaker lets no more than its probes through.
THEOREM OnionAnswersTruly == Onion!Spec \/ MCSpec => []AnswersAreTrue
<1>1. OnionInv => Onion!ProbesAreBounded
  <2> SUFFICES ASSUME OnionTypes, CountIsBounded, breaker.state = "half-open"
               PROVE  Cardinality(CountedCalls) <= Probes
    BY InstanceCardinality DEF OnionInv, Onion!ProbesAreBounded, CountedCalls
  <2>1. breaker.requests \in Int
    BY DEF OnionTypes, Breakers
  <2> QED
    BY <2>1, FiniteCounted, MiddlewareAssumption DEF CountIsBounded
<1>2. OnionInv => AnswersAreTrue
  <2> SUFFICES ASSUME OnionInv PROVE AnswersAreTrue
    OBVIOUS
  <2> USE DEF OnionInv, UpwardHolds, Upward, OnionTypes
  <2>1. Onion!AnswerIsTheLastAttempts
    BY DEF Onion!AnswerIsTheLastAttempts, Onion!Answered
  <2>2. Onion!ContextErrorsAreTheCallers
    <3> SUFFICES ASSUME NEW c \in Client, Onion!Answered(c)
                 PROVE  /\ err[c] \in {"canceled", "deadline"} => parent[c] # "none"
                        /\ err[c] = "canceled" => parent[c] = "canceled"
      BY DEF Onion!ContextErrorsAreTheCallers
    <3>1. ~Overdue(c)
      BY NotOverdue DEF Onion!Answered
    <3> QED
      BY <3>1 DEF Onion!Answered, ContextErrors
  <2>3. Onion!DegradesGracefully
    BY DEF Onion!DegradesGracefully, Onion!Answered
  <2> QED
    BY <1>1, <2>1, <2>2, <2>3 DEF AnswersAreTrue
<1> QED
  BY <1>2, OnionStarts, OnionInductive, OnionSteps, PTL DEF Onion!Spec, MCSpec

\* The breaker changes its state on a sign of the dependency's health and on nothing else, by a
\* call it let in since it last changed it.
THEOREM BreakerActsOnlyOnEvidence == Onion!Spec \/ MCSpec => BreakerActsOnEvidence
<1>1. ASSUME OnionInv, [Onion!Next]_Onion!vars PROVE Onion!OnEvidence \/ UNCHANGED Onion!vars
  <2> SUFFICES ASSUME breaker'.state # breaker.state, breaker.state # "open", Onion!Next
               PROVE  \E c \in Client :
                        /\ Onion!In(c, "breaker", "up") /\ counted[c]
                        /\ breaker'.state = "open" <=>
                             (err[c] # "none" \/ result[c].status \in {"unavailable", "timeout", "shed"})
    BY <1>1 DEF Onion!OnEvidence
  <2>1. breaker \in Breakers
    BY <1>1 DEF OnionInv, OnionTypes
  <2>2. \E c \in Client : Onion!LeaveBreaker(c)
    <3>1. ASSUME NEW c \in Client, Onion!Call(c) \/ Onion!Step(c) \/ Onion!GiveUp(c) \/ Onion!Fire(c)
          PROVE  Onion!LeaveBreaker(c)
      <4>1. Onion!EnterBreaker(c) => breaker'.state = breaker.state
        BY <2>1 DEF Onion!EnterBreaker, Breakers
      <4> QED
        BY <2>1, <3>1, <4>1 DEF Onion!Step, Onion!Call, Onion!GiveUp, Onion!Fire, Onion!Return,
           Onion!EnterHandler, Onion!LeaveHandler, Onion!EnterTimeout, Onion!LeaveTimeout,
           Onion!EnterRetry, Onion!AfterAttempt, Onion!Wake, Onion!Interrupted,
           Onion!EnterFallback, Onion!LeaveFallback, Onion!Shed
    <3> QED
      BY <3>1 DEF Onion!Next, Onion!Recover, Onion!HalfOpen
  <2>3. PICK c \in Client : Onion!LeaveBreaker(c)
    BY <2>2
  <2>4. Onion!In(c, "breaker", "up") /\ counted[c]
    BY <2>3 DEF Onion!LeaveBreaker, Onion!AfterRequest
  <2>5. breaker'.state = "open" <=> Onion!Failed(c)
    BY <2>1, <2>3, Results
  <2> QED
    BY <2>4, <2>5 DEF Onion!Failed, Onion!TripOnServerError
<1>2. [Onion!Next]_Onion!vars /\ OnionInv => [Onion!OnEvidence]_Onion!vars
  BY <1>1
<1> QED
  BY <1>2, OnionStarts, OnionInductive, OnionSteps, PTL
     DEF Onion!Spec, MCSpec, BreakerActsOnEvidence, Onion!BreakerActsOnEvidence
=============================================================================
