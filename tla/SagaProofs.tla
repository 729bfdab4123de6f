----------------------------- MODULE SagaProofs -----------------------------
(***************************************************************************)
(* Proofs about the saga engine, for any set of steps laid out in any      *)
(* number of stages, any retry limit and any number of calls.              *)
(***************************************************************************)
EXTENDS Saga, TLAPS

\* Where the engine is, in terms of its stage counters.
Shape ==
  /\ phase = "forward" => clean /\ running \subseteq StepsOf(completed + 1)
  /\ phase = "rollback" =>
       /\ completed < NStages
       /\ rolling \in 1..(completed + 1)
       /\ running \subseteq StepsOf(rolling)

\* What a failed forward may have left behind.
HalfWay(s) ==
  \/ effects[s] = base[s]
  \/ /\ s \in DirtyFailure /\ StageOf[s] = completed + 1
     /\ effects[s] = base[s] + 1

\* The step ran in this attempt and its effect is as its state says.
Ran(s) ==
  \/ state[s] = "succeeded" /\ effects[s] = base[s] + Effect(s)
  \/ state[s] = "failed" /\ HalfWay(s)

\* The step has been through rollback in this attempt.
Undone(s) ==
  \/ state[s] = "failed" /\ HalfWay(s)
  \/ state[s] = "rolled-back" /\ effects[s] = base[s]
  \/ /\ state[s] = "compensation-failed" /\ ~clean
     /\ s \in HasCompensation /\ effects[s] \in {base[s], base[s] + 1}

ForwardAccount(s) ==
  /\ StageOf[s] <= completed => state[s] = "succeeded" /\ effects[s] = base[s] + Effect(s)
  /\ StageOf[s] = completed + 1 /\ s \notin running => Ran(s)
  /\ StageOf[s] = completed + 1 /\ s \in running => effects[s] = base[s]
  /\ StageOf[s] > completed + 1 => effects[s] = base[s]

RollbackAccount(s) ==
  /\ StageOf[s] < rolling => Ran(s)
  /\ StageOf[s] = rolling /\ s \in running => Ran(s)
  /\ StageOf[s] = rolling /\ s \notin running => Undone(s)
  /\ StageOf[s] > rolling /\ StageOf[s] <= completed + 1 => Undone(s)
  /\ StageOf[s] > completed + 1 => effects[s] = base[s]

\* Every step's effect is accounted for, wherever the attempt is.
Accounting ==
  /\ phase = "forward" => \A s \in Step : ForwardAccount(s)
  /\ phase = "rollback" =>
       /\ \A s \in Step : RollbackAccount(s)
       /\ ~clean => CompensationFailures # {}

IInv == TypeOK /\ Shape /\ Accounting /\ AllOrNothing

-----------------------------------------------------------------------------
\* A stage number the engine uses is a number, and the steps of a stage are steps.
LEMMA StepsOfFacts ==
  /\ NStages \in Nat
  /\ \A s \in Step : StageOf[s] \in 1..NStages
  /\ \A i : StepsOf(i) \subseteq Step
BY SagaAssumption DEF StepsOf

LEMMA NoResultType == NoResult \in Result
BY SagaAssumption DEF NoResult, Result

\* The type invariant is inductive.
LEMMA TypeInductive == TypeOK /\ [Next]_vars => TypeOK'
<1> SUFFICES ASSUME TypeOK, [Next]_vars PROVE TypeOK'
  OBVIOUS
<1> USE SagaAssumption, StepsOfFacts, NoResultType
<1>1. ASSUME NEW n \in Nat, BeginAttempt(n), runs' \in Nat
      PROVE  TypeOK'
  <2>1. log' \in Seq(StateEvent)
    <3>1. [attempt |-> n, kind |-> "started", stage |-> 0, result |-> NoResult] \in StateEvent
      BY DEF StateEvent
    <3> QED
      BY <1>1, <3>1 DEF BeginAttempt, TypeOK
  <2> QED
    BY <1>1, <2>1 DEF TypeOK, BeginAttempt, Phases
<1>2. CASE RunWith
  <2>1. runs' \in Nat
    BY <1>2 DEF RunWith, TypeOK
  <2> QED
    BY <1>1, <1>2, <2>1 DEF RunWith
<1>3. CASE RetryAttempt
  <2>1. attempt + 1 \in Nat /\ runs' \in Nat
    BY <1>3 DEF RetryAttempt, TypeOK
  <2> QED
    BY <1>1, <1>3, <2>1 DEF RetryAttempt
<1>4. ASSUME NEW s \in Step, Execute(s)
      PROVE  TypeOK'
  <2>1. state' \in [Step -> StepStates]
    BY <1>4 DEF TypeOK, Execute, StepStates
  <2>2. effects' \in [Step -> Int]
    BY <1>4 DEF TypeOK, Execute, Effect
  <2> QED
    BY <1>4, <2>1, <2>2 DEF TypeOK, Execute
<1>5. CASE StageCompleted
  <2>1. log' \in Seq(StateEvent)
    <3>1. Event("stage-completed", completed + 1, NoResult) \in StateEvent
      BY DEF TypeOK, Event, StateEvent
    <3> QED
      BY <1>5, <3>1 DEF StageCompleted, TypeOK
  <2> QED
    BY <1>5, <2>1 DEF TypeOK, StageCompleted
<1>6. ASSUME result' \in Result, log' = Append(log, Event("finished", 0, result'))
      PROVE  log' \in Seq(StateEvent)
  <2>1. Event("finished", 0, result') \in StateEvent
    BY <1>6 DEF TypeOK, Event, StateEvent
  <2> QED
    BY <1>6, <2>1 DEF TypeOK
<1>7. CASE Succeed
  <2>1. result' \in Result
    BY <1>7 DEF Succeed, Result, NoResult, Outcomes
  <2>2. log' \in Seq(StateEvent)
    BY <1>6, <1>7, <2>1 DEF Succeed
  <2> QED
    BY <1>7, <2>1, <2>2 DEF TypeOK, Succeed, AfterAttempt, Phases
<1>8. CASE StageFailed
  BY <1>8 DEF TypeOK, StageFailed, Phases
<1>9. ASSUME NEW s \in Step, Compensate(s)
      PROVE  TypeOK'
  <2>1. state' \in [Step -> StepStates]
    BY <1>9 DEF TypeOK, Compensate, StepStates
  <2>2. effects' \in [Step -> Int]
    BY <1>9 DEF TypeOK, Compensate
  <2>3. clean' \in BOOLEAN
    BY <1>9 DEF TypeOK, Compensate
  <2> QED
    BY <1>9, <2>1, <2>2, <2>3 DEF TypeOK, Compensate
<1>10. CASE RollBackNext
  BY <1>10 DEF TypeOK, RollBackNext
<1>11. CASE FinishRollBack
  <2>1. result' \in Result
    BY <1>11 DEF FinishRollBack, Result, Outcomes, CompensationFailures, FailedSteps, TypeOK
  <2>2. log' \in Seq(StateEvent)
    BY <1>6, <1>11, <2>1 DEF FinishRollBack
  <2> QED
    BY <1>11, <2>1, <2>2 DEF TypeOK, FinishRollBack, AfterAttempt, Phases
<1>12. CASE UNCHANGED vars
  BY <1>12 DEF TypeOK, vars, engine
<1> QED
  BY <1>2, <1>3, <1>4, <1>5, <1>7, <1>8, <1>9, <1>10, <1>11, <1>12 DEF Next, EngineNext

LEMMA TypeInit == Init => TypeOK
BY SagaAssumption, NoResultType DEF Init, TypeOK, Phases, StepStates

\* The engine's variables keep their types on every run of every saga.
THEOREM SagaTypes == Spec => []TypeOK
BY TypeInit, TypeInductive, PTL DEF Spec

-----------------------------------------------------------------------------
\* The stage counters and the set of running goroutines stay in step.
LEMMA ShapeInductive == TypeOK /\ Shape /\ [Next]_vars => Shape'
<1> SUFFICES ASSUME TypeOK, Shape, [Next]_vars PROVE Shape'
  OBVIOUS
<1> USE StepsOfFacts
<1>1. ASSUME NEW n, BeginAttempt(n) PROVE Shape'
  BY <1>1 DEF BeginAttempt, Shape, StepsOf
<1>2. CASE RunWith
  BY <1>1, <1>2 DEF RunWith
<1>3. CASE RetryAttempt
  BY <1>1, <1>3 DEF RetryAttempt
<1>4. ASSUME NEW s \in Step, Execute(s) PROVE Shape'
  BY <1>4 DEF Execute, Shape, StepsOf
<1>5. CASE StageCompleted
  BY <1>5 DEF StageCompleted, Shape, StepsOf, TypeOK
<1>6. CASE Succeed
  BY <1>6 DEF Succeed, AfterAttempt, Shape
<1>7. CASE StageFailed
  BY <1>7 DEF StageFailed, Shape, StepsOf, TypeOK
<1>8. ASSUME NEW s \in Step, Compensate(s) PROVE Shape'
  BY <1>8 DEF Compensate, Shape, StepsOf
<1>9. CASE RollBackNext
  BY <1>9 DEF RollBackNext, Shape, StepsOf, TypeOK
<1>10. CASE FinishRollBack
  BY <1>10 DEF FinishRollBack, AfterAttempt, Shape
<1>11. CASE UNCHANGED vars
  BY <1>11 DEF vars, engine, Shape, StepsOf
<1> QED
  BY <1>2, <1>3, <1>4, <1>5, <1>6, <1>7, <1>8, <1>9, <1>10, <1>11 DEF Next, EngineNext

\* A new attempt starts with the world as it is for its base.
LEMMA BeginAccounts ==
  ASSUME TypeOK, NEW n, BeginAttempt(n)
  PROVE  Accounting' /\ AllOrNothing'
<1>1. ASSUME NEW s \in Step PROVE ForwardAccount(s)'
  <2>1. completed' = 0 /\ running' = StepsOf(1) /\ effects'[s] = base'[s]
    BY DEF BeginAttempt
  <2> QED
    BY <2>1, StepsOfFacts DEF ForwardAccount, StepsOf
<1> QED
  BY <1>1 DEF BeginAttempt, Accounting, AllOrNothing, AttemptOver

\* One forward: its step becomes accounted for, the others are not touched.
LEMMA ExecuteAccounts ==
  ASSUME TypeOK, Shape, Accounting, NEW s \in Step, Execute(s)
  PROVE  Accounting' /\ AllOrNothing'
<1>1. phase = "forward" /\ phase' = "forward" /\ completed' = completed
  BY DEF Execute
<1>2. StageOf[s] = completed + 1 /\ s \in running /\ running' = running \ {s}
  BY DEF Execute, Shape, StepsOf
<1>3. effects[s] = base[s]
  BY <1>1, <1>2 DEF Accounting, ForwardAccount
<1>4. Ran(s)'
  BY <1>1, <1>2, <1>3, SMTT(30) DEF Execute, Ran, HalfWay, TypeOK, Effect
<1>5. ASSUME NEW t \in Step PROVE ForwardAccount(t)'
  <2>1. CASE t = s
    BY <1>1, <1>2, <1>4, <2>1, StepsOfFacts DEF ForwardAccount, TypeOK
  <2>2. CASE t # s
    <3>1. state'[t] = state[t] /\ effects'[t] = effects[t] /\ base'[t] = base[t]
      BY <2>2 DEF Execute, TypeOK
    <3>2. ForwardAccount(t)
      BY <1>1 DEF Accounting
    <3> QED
      BY <1>1, <1>2, <2>2, <3>1, <3>2 DEF ForwardAccount, Ran, HalfWay, Effect
  <2> QED
    BY <2>1, <2>2
<1> QED
  BY <1>1, <1>5 DEF Accounting, AllOrNothing, AttemptOver

\* One compensation: its step is undone, or reported by ~clean.
LEMMA CompensateAccounts ==
  ASSUME TypeOK, Shape, Accounting, NEW s \in Step, Compensate(s)
  PROVE  Accounting' /\ AllOrNothing'
<1>1. phase = "rollback" /\ phase' = "rollback" /\ completed' = completed /\ rolling' = rolling
      /\ base' = base
  BY DEF Compensate
<1>2. StageOf[s] = rolling /\ s \in running /\ running' = running \ {s}
  BY DEF Compensate, Shape, StepsOf
<1>3. Ran(s)
  BY <1>1, <1>2 DEF Accounting, RollbackAccount
<1>4. /\ \/ state'[s] = "failed" /\ HalfWay(s)' /\ clean' = clean
         \/ state'[s] = "rolled-back" /\ effects'[s] = base'[s] /\ clean' = clean
         \/ /\ state'[s] = "compensation-failed" /\ clean' = FALSE
            /\ s \in HasCompensation /\ effects'[s] \in {base'[s], base'[s] + 1}
      /\ \A t \in Step \ {s} : state'[t] = state[t] /\ effects'[t] = effects[t]
  BY <1>1, <1>3, SMTT(30) DEF Compensate, Ran, HalfWay, TypeOK, Effect
<1>5. ASSUME NEW t \in Step PROVE RollbackAccount(t)'
  <2>1. CASE t = s
    BY <1>1, <1>2, <1>4, <2>1, StepsOfFacts DEF RollbackAccount, Undone, TypeOK, Shape
  <2>2. CASE t # s
    <3>1. RollbackAccount(t)
      BY <1>1 DEF Accounting
    <3>2. Ran(t)' = Ran(t)
      BY <1>1, <1>4, <2>2 DEF Ran, HalfWay, Effect
    <3>3. Undone(t) => Undone(t)'
      BY <1>1, <1>4, <2>2 DEF Undone, HalfWay
    <3> QED
      BY <1>1, <1>2, <1>4, <2>2, <3>1, <3>2, <3>3 DEF RollbackAccount
  <2> QED
    BY <2>1, <2>2
<1>6. ~clean' => CompensationFailures' # {}
  <2>1. CASE state'[s] = "compensation-failed"
    <3>1. StageOf[s] <= completed' + 1
      BY <1>1, <1>2, StepsOfFacts DEF Shape, TypeOK
    <3> QED
      BY <2>1, <3>1 DEF CompensationFailures
  <2>2. CASE state'[s] # "compensation-failed"
    <3>1. SUFFICES ASSUME ~clean PROVE CompensationFailures' # {}
      BY <1>4, <2>2
    <3>2. PICK t \in Step : StageOf[t] <= completed + 1 /\ state[t] = "compensation-failed"
      BY <1>1, <3>1 DEF Accounting, CompensationFailures
    <3>3. t # s
      BY <1>3, <3>2 DEF Ran
    <3> QED
      BY <1>1, <1>4, <3>2, <3>3 DEF CompensationFailures
  <2> QED
    BY <2>1, <2>2
<1> QED
  BY <1>1, <1>5, <1>6 DEF Accounting, AllOrNothing, AttemptOver

\* The end of an attempt: what was accounted for is what the Result says.
LEMMA FinishAccounts ==
  ASSUME TypeOK, Shape, Accounting, Succeed \/ FinishRollBack
  PROVE  Accounting' /\ AllOrNothing'
<1>1. phase' \in {"delay", "returned"} /\ effects' = effects /\ base' = base
  BY DEF Succeed, FinishRollBack, AfterAttempt
<1>2. CASE Succeed
  <2>1. \A s \in Step : effects[s] = base[s] + Effect(s)
    BY <1>2, StepsOfFacts DEF Succeed, Accounting, ForwardAccount
  <2>2. result'.outcome = "succeeded"
    BY <1>2 DEF Succeed, NoResult
  <2> QED
    BY <1>1, <2>1, <2>2 DEF Accounting, AllOrNothing, Effect
<1>3. CASE FinishRollBack
  <2>1. /\ phase = "rollback" /\ running = {} /\ rolling = 1
        /\ result'.outcome = IF clean THEN "rolled-back" ELSE "partially-rolled-back"
        /\ result'.compensationFailures = CompensationFailures
        /\ result'.failedStage = completed + 1
        /\ state' = state
    BY <1>3 DEF FinishRollBack
  <2>2. \A s \in Step : StageOf[s] <= completed + 1 => Undone(s)
    BY <2>1, StepsOfFacts DEF Accounting, RollbackAccount, TypeOK
  <2>3. \A s \in Step : ~(StageOf[s] <= completed + 1) => effects[s] = base[s]
    BY <2>1, StepsOfFacts DEF Accounting, RollbackAccount, TypeOK
  <2>4. \A s \in Step : effects[s] # base[s] =>
          (s \in CompensationFailures /\ ~clean) \/ s \in Dirtied'
    BY <2>1, <2>2, <2>3 DEF Undone, HalfWay, CompensationFailures, Dirtied
  <2>5. Leftover' = Leftover
    BY <1>1 DEF Leftover
  <2>6. ~clean => CompensationFailures # {}
    BY <2>1 DEF Accounting
  <2> QED
    BY <1>1, <2>1, <2>4, <2>5, <2>6 DEF Accounting, AllOrNothing, Leftover
<1> QED
  BY <1>2, <1>3

\* The inductive invariant: every step of the engine keeps the effects
\* accounted for.
LEMMA AccountingInductive == IInv /\ [Next]_vars => IInv'
<1> SUFFICES ASSUME IInv, [Next]_vars PROVE IInv'
  OBVIOUS
<1> USE StepsOfFacts
<1>0. TypeOK /\ Shape /\ Accounting /\ AllOrNothing
  BY DEF IInv
<1>t. TypeOK' /\ Shape'
  BY <1>0, TypeInductive, ShapeInductive
<1> SUFFICES Accounting' /\ AllOrNothing'
  BY <1>t DEF IInv
<1>1. CASE RunWith
  BY <1>0, <1>1, BeginAccounts DEF RunWith
<1>2. CASE RetryAttempt
  BY <1>0, <1>2, BeginAccounts DEF RetryAttempt
<1>3. ASSUME NEW s \in Step, Execute(s) PROVE Accounting' /\ AllOrNothing'
  BY <1>0, <1>3, ExecuteAccounts
<1>4. CASE StageCompleted
  <2>1. ASSUME NEW s \in Step PROVE ForwardAccount(s)'
    BY <1>0, <1>4, <2>1 DEF StageCompleted, Accounting, ForwardAccount, Ran, HalfWay, Effect, TypeOK, StepsOf
  <2> QED
    BY <1>4, <2>1 DEF StageCompleted, Accounting, AllOrNothing, AttemptOver
<1>5. CASE Succeed \/ FinishRollBack
  BY <1>0, <1>5, FinishAccounts
<1>6. CASE StageFailed
  <2>1. ASSUME NEW s \in Step PROVE RollbackAccount(s)'
    BY <1>0, <1>6, <2>1
    DEF StageFailed, Accounting, ForwardAccount, RollbackAccount, Ran, HalfWay, Effect, TypeOK,
        StepsOf
  <2>2. clean' = clean
    BY <1>6 DEF StageFailed
  <2> QED
    BY <1>0, <1>6, <2>1, <2>2 DEF StageFailed, Shape, Accounting, AllOrNothing, AttemptOver
<1>7. ASSUME NEW s \in Step, Compensate(s) PROVE Accounting' /\ AllOrNothing'
  BY <1>0, <1>7, CompensateAccounts
<1>8. CASE RollBackNext
  <2>1. ASSUME NEW s \in Step PROVE RollbackAccount(s)'
    BY <1>0, <1>8, <2>1
    DEF RollBackNext, Accounting, RollbackAccount, Ran, Undone, HalfWay, Effect, TypeOK, StepsOf
  <2> QED
    BY <1>0, <1>8, <2>1
    DEF RollBackNext, Accounting, AllOrNothing, AttemptOver, CompensationFailures
<1>9. CASE UNCHANGED vars
  BY <1>0, <1>9
  DEF vars, engine, Accounting, AllOrNothing, AttemptOver, ForwardAccount, RollbackAccount,
      Ran, Undone, HalfWay, CompensationFailures, Effect, Leftover, Dirtied
<1> QED
  BY <1>1, <1>2, <1>3, <1>4, <1>5, <1>6, <1>7, <1>8, <1>9 DEF Next, EngineNext

\* All-or-nothing, for every saga: whatever the stages, the failures and the
\* interleaving of the steps of a stage, an attempt that is over has left
\* exactly the effects its Result says.
THEOREM SagaAllOrNothing == Spec => []AllOrNothing
<1>1. Init => IInv
  BY TypeInit DEF Init, IInv, Shape, Accounting, AllOrNothing, AttemptOver
<1>2. IInv /\ [Next]_vars => IInv'
  BY AccountingInductive
<1>3. IInv => AllOrNothing
  BY DEF IInv
<1> QED
  BY <1>1, <1>2, <1>3, PTL DEF Spec

\* RunWith waits for another attempt only after a clean rollback.
DelayAfterRollback == phase = "delay" => result.outcome = "rolled-back"

\* Nothing is done twice, for every saga and retry policy: RunWith goes round
\* again only from a world with nothing left of the attempt before.
THEOREM SagaRetriesFromClean == Spec => RetryOnlyFromClean
<1>1. Init => DelayAfterRollback
  BY DEF Init, DelayAfterRollback
<1>2. DelayAfterRollback /\ [Next]_vars => DelayAfterRollback'
  <2> SUFFICES ASSUME DelayAfterRollback, [Next]_vars PROVE DelayAfterRollback'
    OBVIOUS
  <2>1. CASE Succeed
    BY <2>1 DEF Succeed, AfterAttempt, DelayAfterRollback
  <2>2. CASE FinishRollBack
    BY <2>2 DEF FinishRollBack, AfterAttempt, DelayAfterRollback
  <2>3. CASE RunWith \/ RetryAttempt
    BY <2>3 DEF RunWith, RetryAttempt, BeginAttempt, DelayAfterRollback
  <2>4. CASE StageCompleted \/ StageFailed \/ RollBackNext
    BY <2>4 DEF StageCompleted, StageFailed, RollBackNext, DelayAfterRollback
  <2>5. CASE \E s \in Step : Execute(s) \/ Compensate(s)
    BY <2>5 DEF Execute, Compensate, DelayAfterRollback
  <2>6. CASE UNCHANGED vars
    BY <2>6 DEF vars, engine, DelayAfterRollback
  <2> QED
    BY <2>1, <2>2, <2>3, <2>4, <2>5, <2>6 DEF Next, EngineNext
<1>3. AllOrNothing /\ DelayAfterRollback /\ [Next]_vars
        => [attempt' > attempt /\ phase = "delay" => Leftover \subseteq Dirtied]_vars
  BY DEF AllOrNothing, AttemptOver, DelayAfterRollback
<1> QED
  BY <1>1, <1>2, <1>3, SagaAllOrNothing, PTL DEF Spec, RetryOnlyFromClean
-----------------------------------------------------------------------------
LEMMA AccountingStarts == Init => IInv
BY TypeInit DEF Init, IInv, Shape, Accounting, AllOrNothing, AttemptOver

LEMMA AccountingHolds == Spec => []IInv
BY AccountingStarts, AccountingInductive, PTL DEF Spec

\* Effects are undone in the reverse of the order they were made, for every saga and however
\* the compensations of a stage interleave: rollBack reaches a stage when every later one has
\* nothing left that could be undone.
THEOREM SagaUndoesInReverse == Spec => ReverseOrder
<1> DEFINE Reverse ==
      \A s \in Step :
        (phase = "rollback" /\ state[s] = "succeeded" /\ state'[s] # "succeeded") =>
          \A t \in Step : StageOf[s] < StageOf[t] /\ StageOf[t] <= completed + 1
                             => state[t] # "succeeded"
<1>1. ASSUME IInv, Next, NEW s \in Step,
             phase = "rollback", state[s] = "succeeded", state'[s] # "succeeded",
             NEW t \in Step, StageOf[s] < StageOf[t], StageOf[t] <= completed + 1
      PROVE  state[t] # "succeeded"
  <2>1. Compensate(s)
    <3>1. PICK r \in Step : Compensate(r)
      BY <1>1 DEF Next, EngineNext, RunWith, RetryAttempt, Execute, StageCompleted, Succeed,
                  StageFailed, RollBackNext, FinishRollBack
    <3> QED
      BY <1>1, <3>1 DEF Compensate, IInv, TypeOK
  <2>2. StageOf[s] = rolling
    BY <1>1, <2>1 DEF Compensate, IInv, Shape, StepsOf
  <2>3. Undone(t)
    BY <1>1, <2>2, StepsOfFacts DEF IInv, TypeOK, Accounting, RollbackAccount
  <2> QED
    BY <2>3 DEF Undone
<1>2. IInv /\ [Next]_vars => [Reverse]_vars
  BY <1>1
<1> QED
  BY <1>2, AccountingHolds, PTL DEF Spec, ReverseOrder

-----------------------------------------------------------------------------
\* What has been published is what the completed stages produced.
Published == phase = "forward" => sc = {t \in Step : StageOf[t] <= completed}

\* Where an attempt stands in the log: its "started" is as many events ago as it has
\* completed stages.
LogShape ==
  /\ phase = "idle" => log = <<>>
  /\ AttemptOver => Len(log) > 0 /\ log[Len(log)].kind = "finished"
  /\ phase \in {"forward", "rollback"} =>
       /\ Len(log) > completed
       /\ log[Len(log) - completed].kind = "started"
       /\ log[Len(log) - completed].attempt = attempt

\* How many events an attempt had been in the log before this one of it.
Behind(x) ==
  IF x.kind = "stage-completed" THEN x.stage
  ELSE IF x.result.outcome = "succeeded" THEN NStages + 1 ELSE x.result.failedStage

\* What StoreOrder says of the n-th event.
InPlace(l, n) ==
  /\ l[n].kind = "started" => (n = 1 \/ l[n - 1].kind = "finished")
  /\ l[n].kind \in {"stage-completed", "finished"} =>
       /\ n > Behind(l[n])
       /\ l[n - Behind(l[n])].kind = "started"
       /\ l[n - Behind(l[n])].attempt = l[n].attempt

LogInv == Published /\ LogShape /\ StoreOrder

\* What the store was told stays as it was told.
LEMMA Appended ==
  ASSUME log \in Seq(StateEvent), NEW e, log' = Append(log, e)
  PROVE  /\ Len(log') = Len(log) + 1 /\ log'[Len(log')] = e /\ Len(log) \in Nat
         /\ \A n \in 1..Len(log) : log'[n] = log[n]
BY DEF StateEvent

LEMMA EventTypes ==
  ASSUME NEW l \in Seq(StateEvent), NEW n \in 1..Len(l)
  PROVE  /\ l[n] \in StateEvent /\ l[n].stage \in Nat /\ l[n].result.failedStage \in Nat
         /\ l[n].kind \in {"started", "stage-completed", "finished"}
         /\ Behind(l[n]) \in Nat
<1>1. l[n] \in StateEvent
  OBVIOUS
<1>2. l[n].result \in Result /\ l[n].stage \in Nat /\ l[n].kind \in {"started", "stage-completed", "finished"}
  BY <1>1 DEF StateEvent
<1>3. l[n].result.failedStage \in Nat
  BY <1>2 DEF Result
<1> QED
  BY <1>1, <1>2, <1>3, SagaAssumption DEF Behind

LEMMA OrderIsInPlace ==
  /\ log \in Seq(StateEvent) => (StoreOrder <=> \A n \in 1..Len(log) : InPlace(log, n))
  /\ log' \in Seq(StateEvent) => (StoreOrder' <=> \A n \in 1..Len(log') : InPlace(log', n))
<1>1. ASSUME NEW l \in Seq(StateEvent), NEW n \in 1..Len(l)
      PROVE  InPlace(l, n) <=>
               /\ l[n].kind = "started" => (n = 1 \/ l[n - 1].kind = "finished")
               /\ l[n].kind = "stage-completed" =>
                    /\ n > l[n].stage
                    /\ l[n - l[n].stage].kind = "started"
                    /\ l[n - l[n].stage].attempt = l[n].attempt
               /\ l[n].kind = "finished" =>
                    LET k == IF l[n].result.outcome = "succeeded" THEN NStages
                             ELSE l[n].result.failedStage - 1
                    IN  /\ n > k + 1
                        /\ l[n - k - 1].kind = "started"
                        /\ l[n - k - 1].attempt = l[n].attempt
  <2> DEFINE k == IF l[n].result.outcome = "succeeded" THEN NStages
                  ELSE l[n].result.failedStage - 1
  <2>1. l[n].kind = "finished" => k \in Int /\ Behind(l[n]) = k + 1 /\ n - Behind(l[n]) = n - k - 1
    <3>1. n \in Int /\ NStages \in Nat /\ l[n].result.failedStage \in Nat
      BY EventTypes, SagaAssumption
    <3>2. k \in Int /\ (l[n].kind = "finished" => Behind(l[n]) = k + 1)
      BY <3>1 DEF Behind
    <3> HIDE DEF k
    <3> QED
      BY <3>1, <3>2
  <2>2. l[n].kind = "stage-completed" => Behind(l[n]) = l[n].stage
    BY DEF Behind
  <2> HIDE DEF k
  <2>3. InPlace(l, n) <=>
               /\ l[n].kind = "started" => (n = 1 \/ l[n - 1].kind = "finished")
               /\ l[n].kind = "stage-completed" =>
                    /\ n > l[n].stage
                    /\ l[n - l[n].stage].kind = "started"
                    /\ l[n - l[n].stage].attempt = l[n].attempt
               /\ l[n].kind = "finished" =>
                    /\ n > k + 1
                    /\ l[n - k - 1].kind = "started"
                    /\ l[n - k - 1].attempt = l[n].attempt
    BY <2>1, <2>2 DEF InPlace
  <2> QED
    BY <2>3 DEF k
<1> QED
  BY <1>1 DEF StoreOrder

\* One event more keeps the order, if it is in its place.
LEMMA OrderExtended ==
  ASSUME TypeOK, StoreOrder, NEW e \in StateEvent, log' = Append(log, e),
         InPlace(log', Len(log) + 1)
  PROVE  StoreOrder'
<1>1. /\ Len(log) \in Nat /\ log \in Seq(StateEvent) /\ log' \in Seq(StateEvent)
      /\ Len(log') = Len(log) + 1 /\ \A n \in 1..Len(log) : log'[n] = log[n]
  BY Appended DEF TypeOK
<1>2. ASSUME NEW n \in 1..Len(log) PROVE InPlace(log', n)
  <2>1. InPlace(log, n)
    BY <1>1, OrderIsInPlace
  <2>2. Behind(log[n]) \in Nat /\ log'[n] = log[n]
    BY <1>1, EventTypes
  <2>3. n > Behind(log[n]) => log'[n - Behind(log[n])] = log[n - Behind(log[n])]
    BY <1>1, <2>2
  <2>4. n # 1 => log'[n - 1] = log[n - 1]
    BY <1>1
  <2> QED
    BY <2>1, <2>2, <2>3, <2>4 DEF InPlace
<1> QED
  BY <1>1, <1>2, OrderIsInPlace
\* A new attempt is the next event the store hears of.
LEMMA BeginInOrder ==
  ASSUME TypeOK, LogInv, phase \notin {"forward", "rollback"}, NEW n \in Nat, BeginAttempt(n)
  PROVE  LogInv'
<1> DEFINE e == [attempt |-> n, kind |-> "started", stage |-> 0, result |-> NoResult]
<1>1. e \in StateEvent /\ log \in Seq(StateEvent) /\ log' = Append(log, e) /\ e.kind = "started"
      /\ e.attempt = n
  BY NoResultType DEF StateEvent, BeginAttempt, TypeOK
<1>2. /\ Len(log) \in Nat /\ Len(log') = Len(log) + 1 /\ log'[Len(log')] = e
      /\ \A i \in 1..Len(log) : log'[i] = log[i]
  BY <1>1, Appended
<1> HIDE DEF e
<1>3. Len(log) = 0 \/ log[Len(log)].kind = "finished"
  BY <1>1 DEF LogInv, LogShape, AttemptOver, TypeOK, Phases
<1>4. InPlace(log', Len(log) + 1)
  BY <1>1, <1>2, <1>3 DEF InPlace
<1>5. StoreOrder'
  BY <1>1, <1>4, OrderExtended DEF LogInv
<1>6. LogShape'
  BY <1>1, <1>2 DEF BeginAttempt, LogShape, AttemptOver
<1>7. Published'
  BY StepsOfFacts DEF BeginAttempt, Published
<1> QED
  BY <1>5, <1>6, <1>7 DEF LogInv

\* So is the end of one.
LEMMA FinishInOrder ==
  ASSUME TypeOK, TypeOK', Shape, LogInv, Succeed \/ FinishRollBack
  PROVE  LogInv'
<1> DEFINE e == Event("finished", 0, result')
<1>1. /\ phase \in {"forward", "rollback"} /\ phase' \in {"delay", "returned"}
      /\ log' = Append(log, e) /\ completed' = completed /\ attempt' = attempt
  BY DEF Succeed, FinishRollBack, AfterAttempt
<1>2. e \in StateEvent /\ log \in Seq(StateEvent) /\ e.kind = "finished" /\ e.attempt = attempt
  BY DEF Event, StateEvent, TypeOK
<1>3. Behind(e) = completed + 1
  <2>1. CASE Succeed
    BY <2>1 DEF Succeed, Behind, Event, NoResult
  <2>2. CASE FinishRollBack
    BY <2>2 DEF FinishRollBack, Behind, Event
  <2> QED
    BY <2>1, <2>2
<1>4. /\ Len(log) \in Nat /\ Len(log') = Len(log) + 1 /\ log'[Len(log')] = e
      /\ \A i \in 1..Len(log) : log'[i] = log[i]
  BY <1>1, <1>2, Appended
<1> HIDE DEF e
<1>5. completed \in Nat /\ Len(log) > completed
      /\ log[Len(log) - completed].kind = "started"
      /\ log[Len(log) - completed].attempt = attempt
  BY <1>1, SagaAssumption DEF LogInv, LogShape, TypeOK
<1>6. log'[Len(log) + 1 - (completed + 1)] = log[Len(log) - completed]
  BY <1>4, <1>5
<1>7. InPlace(log', Len(log) + 1)
  BY <1>2, <1>3, <1>4, <1>5, <1>6 DEF InPlace
<1>8. StoreOrder'
  BY <1>1, <1>2, <1>7, OrderExtended DEF LogInv
<1>9. LogShape' /\ Published'
  BY <1>1, <1>2, <1>4 DEF LogShape, AttemptOver, Published
<1> QED
  BY <1>8, <1>9 DEF LogInv

\* And a completed stage.
LEMMA StageInOrder ==
  ASSUME TypeOK, LogInv, StageCompleted
  PROVE  LogInv'
<1> DEFINE e == Event("stage-completed", completed + 1, NoResult)
<1>1. /\ phase = "forward" /\ phase' = "forward" /\ log' = Append(log, e)
      /\ completed \in Nat /\ completed' = completed + 1 /\ attempt' = attempt
  BY SagaAssumption DEF StageCompleted, TypeOK
<1>2. /\ e \in StateEvent /\ log \in Seq(StateEvent) /\ e.kind = "stage-completed"
      /\ e.attempt = attempt /\ Behind(e) = completed + 1
  BY NoResultType, SagaAssumption DEF Event, StateEvent, TypeOK, Behind
<1>3. /\ Len(log) \in Nat /\ Len(log') = Len(log) + 1 /\ log'[Len(log')] = e
      /\ \A i \in 1..Len(log) : log'[i] = log[i]
  BY <1>1, <1>2, Appended
<1> HIDE DEF e
<1>4. Len(log) > completed /\ log[Len(log) - completed].kind = "started"
      /\ log[Len(log) - completed].attempt = attempt
  BY <1>1 DEF LogInv, LogShape
<1>5. log'[Len(log) + 1 - (completed + 1)] = log[Len(log) - completed]
      /\ Len(log') - completed' = Len(log) + 1 - (completed + 1)
  BY <1>1, <1>3, <1>4
<1>6. InPlace(log', Len(log) + 1)
  BY <1>1, <1>2, <1>3, <1>4, <1>5 DEF InPlace
<1>7. StoreOrder'
  BY <1>1, <1>2, <1>6, OrderExtended DEF LogInv
<1>8. LogShape'
  BY <1>1, <1>3, <1>4, <1>5 DEF LogShape, AttemptOver
<1>9. Published'
  <2>1. sc = {t \in Step : StageOf[t] <= completed} /\ sc' = sc \union StepsOf(completed + 1)
    BY <1>1 DEF LogInv, Published, StageCompleted
  <2> QED
    BY <1>1, <2>1, StepsOfFacts DEF Published, StepsOf
<1> QED
  BY <1>7, <1>8, <1>9 DEF LogInv

\* Every other step leaves the log, and what the next stage reads, as it is.
LEMMA LogInductive == TypeOK /\ Shape /\ LogInv /\ [Next]_vars => LogInv'
<1> SUFFICES ASSUME TypeOK, Shape, LogInv, [Next]_vars PROVE LogInv'
  OBVIOUS
<1>0. TypeOK'
  BY TypeInductive
<1>1. CASE RunWith \/ RetryAttempt
  <2>1. attempt + 1 \in Nat /\ 1 \in Nat
    BY DEF TypeOK
  <2> QED
    BY <1>1, <2>1, BeginInOrder DEF RunWith, RetryAttempt
<1>2. CASE Succeed \/ FinishRollBack
  BY <1>0, <1>2, FinishInOrder
<1>3. CASE StageCompleted
  BY <1>3, StageInOrder
<1>4. CASE \/ StageFailed \/ RollBackNext \/ UNCHANGED vars
           \/ \E s \in Step : Execute(s) \/ Compensate(s)
  <2>1. /\ UNCHANGED <<log, sc, completed, attempt>>
        /\ phase' = phase \/ (phase = "forward" /\ phase' = "rollback")
    BY <1>4 DEF StageFailed, RollBackNext, vars, engine, Execute, Compensate
  <2> QED
    BY <2>1 DEF LogInv, Published, LogShape, AttemptOver, StoreOrder
<1> QED
  BY <1>1, <1>2, <1>3, <1>4 DEF Next, EngineNext

\* For every saga and however often it is run: a forward reads exactly what the stages before
\* its own published in its attempt, and the store hears of each attempt from its start to its
\* end, stage by stage (runOnce and RunWith in saga.go).
THEOREM SagaRunsInOrder == Spec => []RunsAreInOrder
<1>1. Init => Shape /\ LogInv
  BY DEF Init, Shape, LogInv, Published, LogShape, AttemptOver, StoreOrder
<1>2. TypeOK /\ Shape /\ LogInv => RunsAreInOrder
  BY StepsOfFacts DEF TypeOK, Shape, LogInv, Published, RunsAreInOrder, InputsReady, StepsOf
<1> QED
  BY <1>1, <1>2, TypeInit, TypeInductive, ShapeInductive, LogInductive, PTL DEF Spec

-----------------------------------------------------------------------------
\* What RunWith's loop has decided: what it waits for it may retry, and a clean rollback it
\* returned was the last attempt.
Decided ==
  /\ phase = "idle" => result.outcome = "none"
  /\ phase = "delay" => result.outcome = "rolled-back" /\ attempt # maxAttempts
  /\ phase = "returned" /\ result.outcome = "rolled-back" => attempt = maxAttempts

LEMMA DecidedInductive == Decided /\ [Next]_vars => Decided'
<1> SUFFICES ASSUME Decided, [Next]_vars PROVE Decided'
  OBVIOUS
<1> USE DEF Decided, maxAttempts
<1>1. CASE Succeed
  BY <1>1 DEF Succeed, AfterAttempt
<1>2. CASE FinishRollBack
  BY <1>2 DEF FinishRollBack, AfterAttempt
<1>3. CASE \/ RunWith \/ RetryAttempt \/ StageCompleted \/ StageFailed \/ RollBackNext
           \/ UNCHANGED vars \/ \E s \in Step : Execute(s) \/ Compensate(s)
  BY <1>3 DEF RunWith, RetryAttempt, BeginAttempt, StageCompleted, StageFailed, RollBackNext,
              Execute, Compensate, vars, engine
<1> QED
  BY <1>1, <1>2, <1>3 DEF Next, EngineNext

\* The end of an attempt is one step of the atomic saga.
LEMMA EndsAtomically ==
  ASSUME IInv, Succeed \/ FinishRollBack
  PROVE  Atomic!Commit \/ Atomic!Abort \/ Atomic!Orphan
<1>0. /\ TypeOK /\ Shape /\ Accounting
      /\ phase \in {"forward", "rollback"} /\ phase' \in {"delay", "returned"}
      /\ effects' = effects /\ base' = base /\ attempt' = attempt
  BY DEF IInv, Succeed, FinishRollBack, AfterAttempt
<1>1. /\ absWorld = base /\ absWorld' = effects
      /\ absOutcome = "running" /\ absOutcome' = result'.outcome
      /\ absOrphans = {} /\ absOrphans' = result'.compensationFailures
  BY <1>0 DEF absWorld, absOutcome, absOrphans, InAttempt
<1>2. CASE Succeed
  <2>1. \A s \in Step : effects[s] = base[s] + Effect(s)
    BY <1>0, <1>2, StepsOfFacts DEF Succeed, Accounting, ForwardAccount
  <2>2. effects = Atomic!With(HasCompensation)
    BY <1>0, <1>1, <2>1 DEF Atomic!With, Effect, TypeOK
  <2>3. result'.outcome = "succeeded" /\ result'.compensationFailures = {}
    BY <1>2 DEF Succeed, NoResult
  <2> QED
    BY <1>0, <1>1, <2>2, <2>3 DEF Atomic!Commit
<1>3. CASE FinishRollBack
  <2> DEFINE left == {s \in Step : effects[s] # base[s]}
  <2>1. /\ phase = "rollback" /\ running = {} /\ rolling = 1
        /\ result'.outcome = IF clean THEN "rolled-back" ELSE "partially-rolled-back"
        /\ result'.compensationFailures = CompensationFailures
    BY <1>3 DEF FinishRollBack
  <2>2. \A s \in Step : StageOf[s] <= completed + 1 => Undone(s)
    BY <1>0, <2>1, StepsOfFacts DEF Accounting, RollbackAccount, TypeOK
  <2>3. \A s \in Step : ~(StageOf[s] <= completed + 1) => effects[s] = base[s]
    BY <1>0, <2>1, StepsOfFacts DEF Accounting, RollbackAccount, TypeOK
  <2>4. \A s \in left : effects[s] = base[s] + 1
    BY <2>2, <2>3 DEF Undone, HalfWay
  <2>5. effects = Atomic!With(left)
    BY <1>0, <1>1, <2>4 DEF Atomic!With, TypeOK
  <2>6. left \subseteq DirtyFailure \union CompensationFailures
    BY <2>2, <2>3 DEF Undone, HalfWay, CompensationFailures
  <2>7. CASE clean
    <3>1. CompensationFailures = {}
      BY <2>2, <2>7 DEF Undone, CompensationFailures
    <3> QED
      BY <1>0, <1>1, <2>1, <2>5, <2>6, <2>7, <3>1 DEF Atomic!Abort
  <2>8. CASE ~clean
    <3>1. CompensationFailures # {} /\ CompensationFailures \subseteq HasCompensation
      BY <1>0, <2>1, <2>2, <2>8 DEF Undone, CompensationFailures, Accounting
    <3>2. left \in SUBSET (CompensationFailures \union DirtyFailure)
      BY <2>6
    <3> HIDE DEF left
    <3> QED
      BY <1>0, <1>1, <2>1, <2>5, <2>8, <3>1, <3>2 DEF Atomic!Orphan
  <2> QED
    BY <2>7, <2>8
<1> QED
  BY <1>2, <1>3

\* A call and a retry are too; nothing else is seen from outside.
LEMMA StepsAtomically == IInv /\ Decided /\ [Next]_vars => [Atomic!Next]_Atomic!vars
<1> SUFFICES ASSUME IInv, Decided, [Next]_vars PROVE [Atomic!Next]_Atomic!vars
  OBVIOUS
<1> USE DEF absWorld, absOutcome, absOrphans, InAttempt
<1>1. CASE RunWith
  <2>1. /\ phase \in {"idle", "returned"} /\ phase' = "forward" /\ base' = effects /\ attempt' = 1
    BY <1>1 DEF RunWith, BeginAttempt
  <2>2. result.outcome # "running"
    BY DEF IInv, TypeOK, Result, Outcomes
  <2>3. Atomic!Call
    BY <2>1, <2>2 DEF Atomic!Call, Atomic!Begin, Atomic!MayRetry, Atomic!Limit, Decided, maxAttempts
  <2> QED
    BY <2>3 DEF Atomic!Next
<1>2. CASE RetryAttempt
  <2>1. /\ phase = "delay" /\ phase' = "forward" /\ base' = effects /\ attempt' = attempt + 1
    BY <1>2 DEF RetryAttempt, BeginAttempt
  <2>2. Atomic!Retry
    BY <2>1 DEF Atomic!Retry, Atomic!Begin, Atomic!MayRetry, Atomic!Limit, Decided, maxAttempts
  <2> QED
    BY <2>2 DEF Atomic!Next
<1>3. CASE Succeed \/ FinishRollBack
  BY <1>3, EndsAtomically DEF Atomic!Next
<1>4. CASE StageCompleted \/ StageFailed \/ RollBackNext \/ \E s \in Step : Execute(s) \/ Compensate(s)
  <2>1. /\ phase \in {"forward", "rollback"} /\ phase' \in {"forward", "rollback"}
        /\ UNCHANGED <<base, attempt>>
    BY <1>4 DEF StageCompleted, StageFailed, RollBackNext, Execute, Compensate
  <2> QED
    BY <2>1 DEF Atomic!vars
<1>5. CASE UNCHANGED vars
  BY <1>5 DEF vars, engine, Atomic!vars
<1> QED
  BY <1>1, <1>2, <1>3, <1>4, <1>5 DEF Next, EngineNext

\* The engine implements the atomic saga: whatever its stages and the order in which their
\* goroutines run, its caller sees each attempt take effect at once, and either in full, or not at
\* all, or with every leftover reported; and only what left nothing to report tried again.
THEOREM SagaIsAtomic == Spec => ImplementsAtomicSaga
<1>1. Init => Atomic!Init /\ Decided
  BY DEF Init, Atomic!Init, Decided, NoResult, absWorld, absOutcome, absOrphans, InAttempt
<1> QED
  BY <1>1, AccountingHolds, DecidedInductive, StepsAtomically, PTL
     DEF Spec, ImplementsAtomicSaga, Atomic!Spec
=============================================================================
