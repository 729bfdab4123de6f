------------------------------ MODULE Bulkhead ------------------------------
(***************************************************************************)
(* The bulkhead middleware (resilience/bulkhead.go): two buffered channels *)
(* used as semaphores.  A caller takes an admission permit without         *)
(* blocking, or is rejected; then it waits for an execution permit or for  *)
(* its context; on the way out the deferred receives give back first the   *)
(* execution permit, then the admission permit.                            *)
(***************************************************************************)
EXTENDS Integers, FiniteSets

CONSTANTS
  Caller,          \* goroutines that call the pipeline, again and again
  MaxConcurrency,  \* Bulkhead's maxConcurrency, cap(exec)
  MaxQueue         \* WithMaxQueue

\* What Bulkhead checks, with a panic, when it is wired.
ASSUME BulkheadAssumption ==
  /\ IsFiniteSet(Caller)
  /\ MaxConcurrency \in Nat \ {0}
  /\ MaxQueue \in Nat

VARIABLES
  pc,       \* where each caller is in the middleware
  exec,     \* len(exec)
  admit,    \* len(admit)
  done,     \* whether each caller's ctx.Done() is closed
  outcome   \* how each caller's last call ended

vars == <<pc, exec, admit, done, outcome>>

Ceiling == MaxConcurrency + MaxQueue

At(where) == {c \in Caller : pc[c] \in where}

Init ==
  /\ pc = [c \in Caller |-> "idle"]
  /\ exec = 0
  /\ admit = 0
  /\ done = [c \in Caller |-> FALSE]
  /\ outcome = [c \in Caller |-> "none"]

\* A message arrives, with a context that may already be over.
Arrive(c) ==
  /\ pc[c] = "idle"
  /\ pc' = [pc EXCEPT ![c] = "arrived"]
  /\ \E d \in BOOLEAN : done' = [done EXCEPT ![c] = d]
  /\ UNCHANGED <<exec, admit, outcome>>

\* Wrong variant: the admission channel is one permit too large.
AdmitOneTooMany(c) ==
  /\ pc[c] = "arrived"
  /\ admit <= Ceiling
  /\ admit' = admit + 1
  /\ pc' = [pc EXCEPT ![c] = "waiting"]
  /\ UNCHANGED <<exec, done, outcome>>

\* The first select: room in the admission channel.
Admit(c) ==
  /\ pc[c] = "arrived"
  /\ admit < Ceiling
  /\ admit' = admit + 1
  /\ pc' = [pc EXCEPT ![c] = "waiting"]
  /\ UNCHANGED <<exec, done, outcome>>

\* Wrong variant: rejects as soon as the execution permits are taken.
RejectIgnoresQueue(c) ==
  /\ pc[c] = "arrived"
  /\ exec >= MaxConcurrency
  /\ pc' = [pc EXCEPT ![c] = "idle"]
  /\ outcome' = [outcome EXCEPT ![c] = "rejected"]
  /\ UNCHANGED <<exec, admit, done>>

\* The first select's default: fail fast, downstream not called.
Reject(c) ==
  /\ pc[c] = "arrived"
  /\ admit >= Ceiling
  /\ pc' = [pc EXCEPT ![c] = "idle"]
  /\ outcome' = [outcome EXCEPT ![c] = "rejected"]
  /\ UNCHANGED <<exec, admit, done>>

\* The context is cancelled or its deadline passes, at any time.
Cancel(c) ==
  /\ pc[c] # "idle"
  /\ ~done[c]
  /\ done' = [done EXCEPT ![c] = TRUE]
  /\ UNCHANGED <<pc, exec, admit, outcome>>

\* The second select, exec ready: the downstream pipeline runs.
TakeSlot(c) ==
  /\ pc[c] = "waiting"
  /\ exec < MaxConcurrency
  /\ exec' = exec + 1
  /\ pc' = [pc EXCEPT ![c] = "running"]
  /\ UNCHANGED <<admit, done, outcome>>

\* Wrong variant: the receive from exec is deferred before the select.
GiveUpReleasesSlot(c) ==
  /\ pc[c] = "waiting"
  /\ done[c]
  /\ exec' = exec - 1
  /\ pc' = [pc EXCEPT ![c] = "leaving"]
  /\ outcome' = [outcome EXCEPT ![c] = "cancelled"]
  /\ UNCHANGED <<admit, done>>

\* The second select, ctx.Done() ready.  When both cases are ready the select
\* picks either, so the execution channel need not be full.
GiveUp(c) ==
  /\ pc[c] = "waiting"
  /\ done[c]
  /\ pc' = [pc EXCEPT ![c] = "leaving"]
  /\ outcome' = [outcome EXCEPT ![c] = "cancelled"]
  /\ UNCHANGED <<exec, admit, done>>

\* next returned, or panicked: the later defer runs first and receives from exec.
Finish(c) ==
  /\ pc[c] = "running"
  /\ exec' = exec - 1
  /\ pc' = [pc EXCEPT ![c] = "leaving"]
  /\ outcome' = [outcome EXCEPT ![c] = "ran"]
  /\ UNCHANGED <<admit, done>>

\* Wrong variant: a caller that gave up keeps its admission permit.
LeaveLeaks(c) ==
  /\ pc[c] = "leaving"
  /\ admit' = IF outcome[c] = "cancelled" THEN admit ELSE admit - 1
  /\ pc' = [pc EXCEPT ![c] = "idle"]
  /\ UNCHANGED <<exec, done, outcome>>

\* The first defer runs last and receives from admit.
Leave(c) ==
  /\ pc[c] = "leaving"
  /\ admit' = admit - 1
  /\ pc' = [pc EXCEPT ![c] = "idle"]
  /\ UNCHANGED <<exec, done, outcome>>

Next ==
  \E c \in Caller :
    \/ Arrive(c) \/ Admit(c) \/ Reject(c) \/ Cancel(c)
    \/ TakeSlot(c) \/ GiveUp(c) \/ Finish(c) \/ Leave(c)

Spec == Init /\ [][Next]_vars

\* The downstream pipeline returns and deferred calls run (weak fairness); a
\* goroutine blocked on a channel is served in the order it blocked, so one
\* that waits for a permit others keep taking gets it (strong fairness).
Fairness ==
  \A c \in Caller :
    /\ WF_vars(Admit(c) \/ Reject(c))
    /\ WF_vars(Finish(c))
    /\ WF_vars(Leave(c))
    /\ SF_vars(TakeSlot(c))

FairSpec == Spec /\ Fairness

-----------------------------------------------------------------------------
\* The values each variable can hold.
TypeOK ==
  /\ pc \in [Caller -> {"idle", "arrived", "waiting", "running", "leaving"}]
  /\ exec \in 0..MaxConcurrency
  /\ admit \in 0..Ceiling
  /\ done \in [Caller -> BOOLEAN]
  /\ outcome \in [Caller -> {"none", "rejected", "cancelled", "ran"}]

\* The cap itself: never more than maxConcurrency callers in the downstream
\* pipeline, and never more than maxConcurrency + maxQueue running or waiting.
Isolation ==
  /\ Cardinality(At({"running"})) <= MaxConcurrency
  /\ Cardinality(At({"running", "waiting"})) <= Ceiling

\* No permit is lost or made up, whatever mix of rejections, cancellations and
\* completed calls: each channel holds one permit per caller that owns one.
PermitsConserved ==
  /\ exec = Cardinality(At({"running"}))
  /\ admit = Cardinality(At({"waiting", "running", "leaving"}))

\* The bulkhead is bounded at every moment, and stays so because no permit is lost.
SlotsAreBounded == Isolation /\ PermitsConserved

\* A caller is turned away only when no admission permit is left for it: at
\* that moment the bulkhead is full of other callers.
RejectOnlyWhenFull ==
  [][\A c \in Caller :
       outcome'[c] = "rejected" /\ pc[c] = "arrived" /\ pc'[c] = "idle" =>
         Cardinality(At({"waiting", "running", "leaving"})) = Ceiling]_vars
=============================================================================
