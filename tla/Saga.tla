-------------------------------- MODULE Saga --------------------------------
(***************************************************************************)
(* The saga engine (saga/saga.go, saga/step.go): an ordered list of        *)
(* stages, each a group of steps run concurrently.  A stage whose steps    *)
(* all succeed publishes its results and the next stage starts; the first  *)
(* stage that fails is rolled back together with every completed stage,    *)
(* newest first.  RunWith re-runs a cleanly rolled back saga.              *)
(*                                                                         *)
(* "effects" is the outside world the steps act on: how many effects of    *)
(* each step are in place.  The engine never reads it.                     *)
(***************************************************************************)
EXTENDS Integers, Sequences

CONSTANTS
  Step,            \* the saga's step instances
  NStages,         \* len(s.stages)
  StageOf,         \* the stage (1..NStages) a step was given to
  HasCompensation, \* steps built with a non-nil Compensate
  DirtyFailure,    \* steps whose forward may fail, or panic, after its effect
  MaxAttempts,     \* RetryPolicy.MaxAttempts (no policy: 1)
  MaxRuns          \* bound: calls of RunWith on the one Saga value

ASSUME SagaAssumption ==
  /\ NStages \in Nat
  /\ StageOf \in [Step -> 1..NStages]
  /\ HasCompensation \subseteq Step
  /\ DirtyFailure \subseteq HasCompensation
  /\ MaxAttempts \in Int
  /\ MaxRuns \in Nat

VARIABLES
  phase,      \* where RunWith / runOnce is
  runs,       \* calls of RunWith so far
  attempt,    \* RunWith's loop variable
  completed,  \* len(completed): stages finished in this attempt
  rolling,    \* the stage rollBack is compensating
  running,    \* steps of the current WaitGroup whose goroutine has not ended
  state,      \* StepState of every step instance
  sc,         \* SagaContext: the steps whose result was published
  clean,      \* rollBack's result so far
  result,     \* the Result of the last finished attempt
  log,        \* what the StateStore was told, oldest first
  effects,    \* outside world: effects in place, per step
  base        \* history: "effects" when this attempt started

engine == <<phase, runs, attempt, completed, rolling, running, state, sc, clean, result, log>>
vars == <<engine, effects, base>>

Phases == {"idle", "forward", "rollback", "delay", "returned"}
StepStates == {"pending", "succeeded", "failed", "rolled-back", "compensation-failed"}
Outcomes == {"succeeded", "rolled-back", "partially-rolled-back"}

\* Result: which stage failed and why, and the compensations that failed.
Result == [outcome : Outcomes \union {"none"}, failedStage : Nat,
           failure : SUBSET Step, compensationFailures : SUBSET Step]

\* StateEvent: what a StateStore is told.
StateEvent == [attempt : Nat, kind : {"started", "stage-completed", "finished"},
               stage : Nat, result : Result]

\* The zero Result, before any attempt has finished.
NoResult == [outcome |-> "none", failedStage |-> 0, failure |-> {}, compensationFailures |-> {}]

StepsOf(i) == {s \in Step : StageOf[s] = i}

\* RetryPolicy.maxAttempts: a value below 1 is treated as 1.
maxAttempts == IF MaxAttempts < 1 THEN 1 ELSE MaxAttempts

\* A step with no compensation creates no effect to undo (NewStep).
Effect(s) == IF s \in HasCompensation THEN 1 ELSE 0

Event(kind, i, r) == [attempt |-> attempt, kind |-> kind, stage |-> i, result |-> r]

-----------------------------------------------------------------------------
Init ==
  /\ phase = "idle"
  /\ runs = 0
  /\ attempt = 0
  /\ completed = 0
  /\ rolling = 0
  /\ running = {}
  /\ state = [s \in Step |-> "pending"]
  /\ sc = {}
  /\ clean = TRUE
  /\ result = NoResult
  /\ log = <<>>
  /\ effects = [s \in Step |-> 0]
  /\ base = effects

\* Wrong variant: the SagaContext of the attempt before is reused.
BeginAttemptStaleContext(n) ==
  /\ phase' = "forward"
  /\ attempt' = n
  /\ log' = Append(log, [attempt |-> n, kind |-> "started", stage |-> 0, result |-> NoResult])
  /\ completed' = 0
  /\ rolling' = 0
  /\ clean' = TRUE
  /\ running' = StepsOf(1)
  /\ base' = effects
  /\ UNCHANGED <<sc, state, result, effects>>

\* runOnce up to its first stage.execute: RecordStarted, a fresh SagaContext,
\* and one goroutine per step of the first stage.
BeginAttempt(n) ==
  /\ phase' = "forward"
  /\ attempt' = n
  /\ log' = Append(log, [attempt |-> n, kind |-> "started", stage |-> 0, result |-> NoResult])
  /\ sc' = {}
  /\ completed' = 0
  /\ rolling' = 0
  /\ clean' = TRUE
  /\ running' = StepsOf(1)
  /\ base' = effects
  /\ UNCHANGED <<state, result, effects>>

\* A caller runs the saga; the step instances keep the state of earlier runs.
RunWith ==
  /\ phase \in {"idle", "returned"}
  /\ runs < MaxRuns
  /\ runs' = runs + 1
  /\ BeginAttempt(1)

\* RunWith's loop goes round again once the delay has passed (or the context
\* was cancelled: sleep returns nothing and the loop does not look).
RetryAttempt ==
  /\ phase = "delay"
  /\ BeginAttempt(attempt + 1)
  /\ UNCHANGED runs

\* One goroutine of Stage.execute: step.execute runs the forward action.  A
\* forward that fails or panics leaves no effect, unless the step is dirty.
Execute(s) ==
  /\ phase = "forward"
  /\ s \in running
  /\ running' = running \ {s}
  /\ \/ /\ state' = [state EXCEPT ![s] = "succeeded"]
        /\ effects' = [effects EXCEPT ![s] = @ + Effect(s)]
     \/ /\ state' = [state EXCEPT ![s] = "failed"]
        /\ effects' = effects
     \/ /\ s \in DirtyFailure
        /\ state' = [state EXCEPT ![s] = "failed"]
        /\ effects' = [effects EXCEPT ![s] = @ + Effect(s)]
  /\ UNCHANGED <<phase, runs, attempt, completed, rolling, sc, clean, result, log, base>>

\* Wrong variant: any failed attempt is tried again, a partial rollback too.
AfterAttemptRetriesPartial(outcome) ==
  IF outcome = "succeeded" \/ attempt = maxAttempts THEN "returned" ELSE "delay"

\* What RunWith does with an attempt's Result: only a clean rollback with
\* attempts left goes round again.
AfterAttempt(outcome) ==
  IF outcome # "rolled-back" \/ attempt = maxAttempts THEN "returned" ELSE "delay"

\* wg.Wait() returned and every step of stage i = completed + 1 succeeded:
\* publish, record, and start the next stage.
StageCompleted ==
  /\ phase = "forward"
  /\ completed < NStages
  /\ running = {}
  /\ \A s \in StepsOf(completed + 1) : state[s] = "succeeded"
  /\ sc' = sc \union StepsOf(completed + 1)
  /\ completed' = completed + 1
  /\ log' = Append(log, Event("stage-completed", completed + 1, NoResult))
  /\ running' = StepsOf(completed + 2)
  /\ UNCHANGED <<phase, runs, attempt, rolling, state, clean, result, effects, base>>

\* Wrong variant: success returns before the store hears of it.
SucceedUnrecorded ==
  /\ phase = "forward"
  /\ completed = NStages
  /\ result' = [NoResult EXCEPT !.outcome = "succeeded"]
  /\ phase' = AfterAttempt("succeeded")
  /\ UNCHANGED <<runs, attempt, completed, rolling, running, state, sc, clean, log, effects, base>>

\* Every stage is done: OutcomeSucceeded, recorded and returned.
Succeed ==
  /\ phase = "forward"
  /\ completed = NStages
  /\ result' = [NoResult EXCEPT !.outcome = "succeeded"]
  /\ log' = Append(log, Event("finished", 0, result'))
  /\ phase' = AfterAttempt("succeeded")
  /\ UNCHANGED <<runs, attempt, completed, rolling, running, state, sc, clean, effects, base>>

\* Wrong variant: rollBack forgets the failed stage's own succeeded steps.
StageFailedSkipsSiblings ==
  /\ phase = "forward"
  /\ completed < NStages
  /\ running = {}
  /\ \E s \in StepsOf(completed + 1) : state[s] # "succeeded"
  /\ phase' = "rollback"
  /\ rolling' = completed + 1
  /\ UNCHANGED <<runs, attempt, completed, running, state, sc, clean, result, log, effects, base>>

\* Wrong variant: the loop over the stages never sees the last one fail.
StageFailedMissesLast ==
  /\ phase = "forward"
  /\ completed < NStages - 1
  /\ running = {}
  /\ \E s \in StepsOf(completed + 1) : state[s] # "succeeded"
  /\ phase' = "rollback"
  /\ rolling' = completed + 1
  /\ running' = StepsOf(completed + 1)
  /\ UNCHANGED <<runs, attempt, completed, state, sc, clean, result, log, effects, base>>

\* wg.Wait() returned and some step of the stage did not succeed: rollBack
\* starts with the failed stage itself.
StageFailed ==
  /\ phase = "forward"
  /\ completed < NStages
  /\ running = {}
  /\ \E s \in StepsOf(completed + 1) : state[s] # "succeeded"
  /\ phase' = "rollback"
  /\ rolling' = completed + 1
  /\ running' = StepsOf(completed + 1)
  /\ UNCHANGED <<runs, attempt, completed, state, sc, clean, result, log, effects, base>>

\* One goroutine of Stage.compensate: step.compensate.  A failed compensation
\* may or may not have undone the effect.
Compensate(s) ==
  /\ phase = "rollback"
  /\ s \in running
  /\ running' = running \ {s}
  /\ \/ /\ state[s] # "succeeded"
        /\ UNCHANGED <<state, effects, clean>>
     \/ /\ state[s] = "succeeded"
        /\ s \notin HasCompensation
        /\ state' = [state EXCEPT ![s] = "rolled-back"]
        /\ UNCHANGED <<effects, clean>>
     \/ /\ state[s] = "succeeded"
        /\ s \in HasCompensation
        /\ state' = [state EXCEPT ![s] = "rolled-back"]
        /\ effects' = [effects EXCEPT ![s] = @ - 1]
        /\ UNCHANGED clean
     \/ /\ state[s] = "succeeded"
        /\ s \in HasCompensation
        /\ state' = [state EXCEPT ![s] = "compensation-failed"]
        /\ effects' \in {effects, [effects EXCEPT ![s] = @ - 1]}
        /\ clean' = FALSE
  /\ UNCHANGED <<phase, runs, attempt, completed, rolling, sc, result, log, base>>

\* Wrong variant: does not wait for the compensations of the stage after it.
RollBackNextNoBarrier ==
  /\ phase = "rollback"
  /\ rolling > 1
  /\ rolling' = rolling - 1
  /\ running' = running \union StepsOf(rolling - 1)
  /\ UNCHANGED <<phase, runs, attempt, completed, state, sc, clean, result, log, effects, base>>

\* Wrong variant: the loop over the completed stages runs past the first.
RollBackNextOverruns ==
  /\ phase = "rollback"
  /\ running = {}
  /\ rolling >= 0
  /\ rolling' = rolling - 1
  /\ running' = StepsOf(rolling - 1)
  /\ UNCHANGED <<phase, runs, attempt, completed, state, sc, clean, result, log, effects, base>>

\* The barrier of one stage's compensation: go on with the stage before it.
RollBackNext ==
  /\ phase = "rollback"
  /\ running = {}
  /\ rolling > 1
  /\ rolling' = rolling - 1
  /\ running' = StepsOf(rolling - 1)
  /\ UNCHANGED <<phase, runs, attempt, completed, state, sc, clean, result, log, effects, base>>

\* Wrong variant: the failed stage is left out.
CompensationFailuresCompletedOnly ==
  {s \in Step : StageOf[s] <= completed /\ state[s] = "compensation-failed"}

\* collectCompensationFailures: over the completed stages and the failed one.
CompensationFailures ==
  {s \in Step : StageOf[s] <= completed + 1 /\ state[s] = "compensation-failed"}

\* The candidates for Result.Failure: the code takes the first in slice order.
FailedSteps == {s \in StepsOf(completed + 1) : state[s] = "failed"}

\* rollBack has returned: build the Result, record it, and let RunWith decide.
FinishRollBack ==
  LET outcome == IF clean THEN "rolled-back" ELSE "partially-rolled-back" IN
  /\ phase = "rollback"
  /\ running = {}
  /\ rolling = 1
  /\ \E f \in {{s} : s \in FailedSteps} \union (IF FailedSteps = {} THEN {{}} ELSE {}) :
       result' = [outcome |-> outcome, failedStage |-> completed + 1, failure |-> f,
                  compensationFailures |-> CompensationFailures]
  /\ log' = Append(log, Event("finished", 0, result'))
  /\ phase' = AfterAttempt(outcome)
  /\ UNCHANGED <<runs, attempt, completed, rolling, running, state, sc, clean, effects, base>>

\* The engine's own steps once it was called.
EngineNext ==
  \/ RetryAttempt
  \/ \E s \in Step : Execute(s)
  \/ StageCompleted
  \/ Succeed
  \/ StageFailed
  \/ \E s \in Step : Compensate(s)
  \/ RollBackNext
  \/ FinishRollBack

Next == RunWith \/ EngineNext

Spec == Init /\ [][Next]_vars

\* Every forward and compensation returns, the goroutines and RunWith keep
\* running, and the delay ends: the engine never stops while it has a step.
FairSpec == Spec /\ WF_vars(EngineNext)

-----------------------------------------------------------------------------
\* The values each variable of the engine can hold.
TypeOK ==
  /\ phase \in Phases
  /\ runs \in Nat
  /\ attempt \in Nat
  /\ completed \in 0..NStages
  /\ rolling \in 0..NStages
  /\ running \subseteq Step
  /\ state \in [Step -> StepStates]
  /\ sc \subseteq Step
  /\ clean \in BOOLEAN
  /\ result \in Result
  /\ log \in Seq(StateEvent)
  /\ effects \in [Step -> Int]
  /\ base \in [Step -> Int]

AttemptOver == phase \in {"delay", "returned"}

\* The steps that left the world different from how the attempt found it.
Leftover == {s \in Step : effects[s] # base[s]}

\* The failed steps of the failed stage whose forward may have acted before it
\* failed: the engine does not compensate them.
Dirtied == {s \in DirtyFailure : StageOf[s] = result.failedStage /\ state[s] = "failed"}

\* All-or-nothing: when an attempt is over, a succeeded saga has put exactly
\* one effect of every step in place, a rolled back one left the world as it
\* found it, and in a partial rollback every effect still in place belongs to
\* a step the Result lists in CompensationFailures; the only exception is a
\* step whose own forward failed half way.
AllOrNothing ==
  AttemptOver =>
    /\ result.outcome = "succeeded" => \A s \in Step : effects[s] = base[s] + Effect(s)
    /\ result.outcome = "rolled-back" => Leftover \subseteq Dirtied
    /\ result.outcome = "partially-rolled-back" =>
         /\ result.compensationFailures # {}
         /\ Leftover \subseteq result.compensationFailures \union Dirtied

\* What the doc of OutcomeRolledBack says: the system is back at its starting
\* state.  It holds only if a failed forward left no effect.
CleanRollbackRestores ==
  AttemptOver /\ result.outcome = "rolled-back" => effects = base

\* The context a forward reads holds the results of exactly the earlier stages
\* of this attempt: nothing of a sibling, of a failed stage or of the attempt
\* before.
InputsReady ==
  phase = "forward" => \A s \in running : sc = {t \in Step : StageOf[t] < StageOf[s]}

\* The store hears, for each attempt, "started", then the completed stages in
\* order, then "finished" with the stage counts its outcome implies.
StoreOrder ==
  \A n \in 1..Len(log) :
    /\ log[n].kind = "started" => (n = 1 \/ log[n - 1].kind = "finished")
    /\ log[n].kind = "stage-completed" =>
         /\ n > log[n].stage
         /\ log[n - log[n].stage].kind = "started"
         /\ log[n - log[n].stage].attempt = log[n].attempt
    /\ log[n].kind = "finished" =>
         LET k == IF log[n].result.outcome = "succeeded" THEN NStages
                  ELSE log[n].result.failedStage - 1
         IN  /\ n > k + 1
             /\ log[n - k - 1].kind = "started"
             /\ log[n - k - 1].attempt = log[n].attempt

\* The bookkeeping of a run: the variables keep their types, forwards read what
\* was published before their stage, and the store hears it in order.
RunsAreInOrder == TypeOK /\ InputsReady /\ StoreOrder

\* Effects are undone in the reverse of the order they were made: a step is
\* compensated only when no forward of the attempt is still running and no
\* effect of a later stage of this attempt is still waiting to be undone.
ReverseOrder ==
  [][\A s \in Step :
       (phase = "rollback" /\ state[s] = "succeeded" /\ state'[s] # "succeeded") =>
         \A t \in Step : StageOf[s] < StageOf[t] /\ StageOf[t] <= completed + 1
                            => state[t] # "succeeded"]_vars

\* Nothing is done twice: a new attempt starts only from a world with no
\* effect of a step that the attempt before it saw succeed.
RetryOnlyFromClean ==
  [][attempt' > attempt /\ phase = "delay" => Leftover \subseteq Dirtied]_vars

\* Every call returns.
Terminates == phase = "forward" ~> phase = "returned"

\* The engine, seen from outside, is the atomic saga: the effects of an attempt
\* in progress are not yet part of the world its caller can rely on.
InAttempt == phase \in {"forward", "rollback"}
absWorld == IF InAttempt THEN base ELSE effects
absOutcome == IF InAttempt THEN "running" ELSE result.outcome
absOrphans == IF InAttempt THEN {} ELSE result.compensationFailures

Atomic == INSTANCE AtomicSaga WITH
            world <- absWorld, outcome <- absOutcome, orphans <- absOrphans

\* Every attempt of the engine is one atomic Commit, Abort or Orphan step.
ImplementsAtomicSaga == Atomic!Spec
=============================================================================
