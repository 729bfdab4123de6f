----------------------------- MODULE AtomicSaga -----------------------------
(***************************************************************************)
(* What a saga promises its caller (saga/context.go's package doc): each   *)
(* attempt takes effect at once and either in full, or not at all, or, if  *)
(* a compensation failed, with every leftover effect reported; only an     *)
(* attempt that left nothing to report is tried again.  A step whose       *)
(* forward may fail half way is outside the promise.                       *)
(***************************************************************************)
EXTENDS Integers

CONSTANTS Step, HasCompensation, DirtyFailure, MaxAttempts

VARIABLES
  world,    \* effects in place, per step
  outcome,  \* "none", "running" or the Outcome of the last attempt
  attempt,  \* the attempt of the current call
  orphans   \* steps reported as possibly left behind

vars == <<world, outcome, attempt, orphans>>

Limit == IF MaxAttempts < 1 THEN 1 ELSE MaxAttempts

MayRetry == outcome = "rolled-back" /\ attempt # Limit

Init ==
  /\ world = [s \in Step |-> 0]
  /\ outcome = "none"
  /\ attempt = 0
  /\ orphans = {}

Begin ==
  /\ outcome' = "running"
  /\ orphans' = {}
  /\ UNCHANGED world

Call == outcome # "running" /\ ~MayRetry /\ attempt' = 1 /\ Begin

Retry == outcome # "running" /\ MayRetry /\ attempt' = attempt + 1 /\ Begin

\* The world after the steps in S took effect.
With(S) == [s \in Step |-> IF s \in S THEN world[s] + 1 ELSE world[s]]

Commit ==
  /\ outcome = "running"
  /\ outcome' = "succeeded"
  /\ world' = With(HasCompensation)
  /\ UNCHANGED <<attempt, orphans>>

Abort ==
  /\ outcome = "running"
  /\ outcome' = "rolled-back"
  /\ \E left \in SUBSET DirtyFailure : world' = With(left)
  /\ UNCHANGED <<attempt, orphans>>

Orphan ==
  /\ outcome = "running"
  /\ outcome' = "partially-rolled-back"
  /\ orphans' \in (SUBSET HasCompensation) \ {{}}
  /\ \E left \in SUBSET (orphans' \union DirtyFailure) : world' = With(left)
  /\ UNCHANGED attempt

Next == Call \/ Retry \/ Commit \/ Abort \/ Orphan

Spec == Init /\ [][Next]_vars
=============================================================================
