----------------------------- MODULE Container ------------------------------
(***************************************************************************)
(* The dependency container (scope.go): registrations made at start-up,    *)
(* then invocations that resolve services from their scopes, some of them  *)
(* from several goroutines at once.  A factory runs with no lock held,     *)
(* because it may resolve other services itself, so that two resolutions   *)
(* of one key can both find it absent and both run its factory.            *)
(***************************************************************************)
EXTENDS Integers, Sequences

CONSTANTS
  Key,
  Scope,
  Thread,        \* goroutines that resolve
  ScopeOf,       \* per thread, the scope of its invocation
  DependsOn,     \* per key, the set (at most one) of keys its factory resolves
  MaxCalls,      \* bound: registration calls at start-up
  MaxResolves    \* bound: GetService calls per thread

Lifetime == {"singleton", "scoped", "transient"}

VARIABLES
  phase,          \* "startup", then "running"
  calls,          \* registration calls made
  registrations,  \* per key, its lifetime, or "none"
  singletons,     \* Container.singletons: per key an instance, 0 when absent
  scoped,         \* Scope.scoped: per scope and key an instance, 0 when absent
  stack,          \* per thread, the resolutions in progress, innermost first
  resolves,       \* per thread, GetService calls made
  made,           \* how many instances factories have made
  got             \* history: <<scope, key, instance, thread>> returned

vars == <<phase, calls, registrations, singletons, scoped, stack,
          resolves, made, got>>

\* A resolution in progress: value is 0 until the factory has run.
Frame(key) == [key |-> key, pc |-> "check", value |-> 0]

Init ==
  /\ phase = "startup"
  /\ calls = 0
  /\ registrations = [k \in Key |-> "none"]
  /\ singletons = [k \in Key |-> 0]
  /\ scoped = [s \in Scope |-> [k \in Key |-> 0]]
  /\ stack = [t \in Thread |-> <<>>]
  /\ resolves = [t \in Thread |-> 0]
  /\ made = 0
  /\ got = {}

\* AddSingleton, AddScoped, AddTransient.
Add(k, lifetime) ==
  /\ phase = "startup"
  /\ calls < MaxCalls
  /\ calls' = calls + 1
  /\ registrations' = [registrations EXCEPT ![k] = lifetime]
  /\ UNCHANGED <<phase, singletons, scoped, stack, resolves, made, got>>

\* TryAddSingleton, TryAddScoped, TryAddTransient.
TryAdd(k, lifetime) ==
  /\ phase = "startup"
  /\ calls < MaxCalls
  /\ calls' = calls + 1
  /\ registrations' = [registrations EXCEPT ![k] = IF @ = "none" THEN lifetime ELSE @]
  /\ UNCHANGED <<phase, singletons, scoped, stack, resolves, made, got>>

Start ==
  /\ phase = "startup"
  /\ phase' = "running"
  /\ UNCHANGED <<calls, registrations, singletons, scoped, stack, resolves, made, got>>

\* A handler calls GetService.
GetService(t, k) ==
  /\ phase = "running"
  /\ stack[t] = <<>>
  /\ resolves[t] < MaxResolves
  /\ resolves' = [resolves EXCEPT ![t] = @ + 1]
  /\ stack' = [stack EXCEPT ![t] = <<Frame(k)>>]
  /\ UNCHANGED <<phase, calls, registrations, singletons, scoped, made, got>>

Top(t) == Head(stack[t])

\* The instance kept for a key, as a thread's scope sees it: 0 when there is none.
Existing(t, k) ==
  CASE registrations[k] = "singleton" -> singletons[k]
    [] registrations[k] = "scoped" -> scoped[ScopeOf[t]][k]
    [] OTHER -> 0

\* The innermost resolution returns an instance to its caller.
Answer(t, value) ==
  /\ stack' = [stack EXCEPT ![t] = Tail(@)]
  /\ got' = got \union {<<ScopeOf[t], Top(t).key, value, t>>}

\* No registration: GetService panics and the invocation unwinds.
NotRegistered(t) ==
  /\ stack[t] # <<>> /\ Top(t).pc = "check"
  /\ registrations[Top(t).key] = "none"
  /\ stack' = [stack EXCEPT ![t] = <<>>]
  /\ UNCHANGED <<phase, calls, registrations, singletons, scoped, resolves, made, got>>

\* The first check under the lock finds the instance.
Found(t) ==
  /\ stack[t] # <<>> /\ Top(t).pc = "check"
  /\ Existing(t, Top(t).key) # 0
  /\ Answer(t, Existing(t, Top(t).key))
  /\ UNCHANGED <<phase, calls, registrations, singletons, scoped, resolves, made>>

\* Wrong variant: the lock is held while the factory runs.
CallFactoryLocked(t) ==
  LET k == Top(t).key IN
  /\ stack[t] # <<>> /\ Top(t).pc = "check"
  /\ registrations[k] # "none"
  /\ Existing(t, k) = 0
  /\ DependsOn[k] = {} \/ registrations[k] # "singleton"
  /\ \A u \in Thread : \A i \in DOMAIN stack[u] : stack[u][i].pc # "factory"
  /\ LET called == <<[Top(t) EXCEPT !.pc = "factory"]>> \o Tail(stack[t])
     IN  IF DependsOn[k] = {}
         THEN stack' = [stack EXCEPT ![t] = called]
         ELSE \E d \in DependsOn[k] : stack' = [stack EXCEPT ![t] = <<Frame(d)>> \o called]
  /\ UNCHANGED <<phase, calls, registrations, singletons, scoped, resolves, made, got>>

\* It does not: the factory is called, and resolves what it depends on through
\* the scope it is given.
CallFactory(t) ==
  LET k == Top(t).key IN
  /\ stack[t] # <<>> /\ Top(t).pc = "check"
  /\ registrations[k] # "none"
  /\ Existing(t, k) = 0
  /\ DependsOn[k] = {} \/ registrations[k] # "singleton"
  /\ LET called == <<[Top(t) EXCEPT !.pc = "factory"]>> \o Tail(stack[t])
     IN  IF DependsOn[k] = {}
         THEN stack' = [stack EXCEPT ![t] = called]
         ELSE \E d \in DependsOn[k] : stack' = [stack EXCEPT ![t] = <<Frame(d)>> \o called]
  /\ UNCHANGED <<phase, calls, registrations, singletons, scoped, resolves, made, got>>

\* A singleton's factory is given no scope: one that resolves through it panics.
FactoryPanics(t) ==
  /\ stack[t] # <<>> /\ Top(t).pc = "check"
  /\ registrations[Top(t).key] = "singleton"
  /\ Existing(t, Top(t).key) = 0
  /\ DependsOn[Top(t).key] # {}
  /\ stack' = [stack EXCEPT ![t] = <<>>]
  /\ UNCHANGED <<phase, calls, registrations, singletons, scoped, resolves, made, got>>

\* The factory returns a new instance; a transient one is the answer.
FactoryReturns(t) ==
  /\ stack[t] # <<>> /\ Top(t).pc = "factory"
  /\ made' = made + 1
  /\ IF registrations[Top(t).key] = "transient"
     THEN Answer(t, made')
     ELSE /\ stack' = [stack EXCEPT ![t] =
                         <<[Top(t) EXCEPT !.pc = "store", !.value = made']>> \o Tail(@)]
          /\ UNCHANGED got
  /\ UNCHANGED <<phase, calls, registrations, singletons, scoped, resolves>>

\* Wrong variant: stores without looking again.
StoreOverwrites(t) ==
  LET k == Top(t).key
      kept == Top(t).value
  IN  /\ stack[t] # <<>> /\ Top(t).pc = "store"
      /\ IF registrations[k] = "singleton"
         THEN singletons' = [singletons EXCEPT ![k] = kept] /\ UNCHANGED scoped
         ELSE scoped' = [scoped EXCEPT ![ScopeOf[t]][k] = kept] /\ UNCHANGED singletons
      /\ Answer(t, kept)
      /\ UNCHANGED <<phase, calls, registrations, resolves, made>>

\* Wrong variant: a scoped instance is stored for every scope.
StoreShared(t) ==
  LET k == Top(t).key
      kept == IF Existing(t, k) = 0 THEN Top(t).value ELSE Existing(t, k)
  IN  /\ stack[t] # <<>> /\ Top(t).pc = "store"
      /\ IF registrations[k] = "singleton"
         THEN singletons' = [singletons EXCEPT ![k] = kept] /\ UNCHANGED scoped
         ELSE scoped' = [s \in Scope |-> [scoped[s] EXCEPT ![k] = kept]] /\ UNCHANGED singletons
      /\ Answer(t, kept)
      /\ UNCHANGED <<phase, calls, registrations, resolves, made>>

\* Under the lock again: the instance somebody else stored in the meantime wins.
Store(t) ==
  LET k == Top(t).key
      kept == IF Existing(t, k) = 0 THEN Top(t).value ELSE Existing(t, k)
  IN  /\ stack[t] # <<>> /\ Top(t).pc = "store"
      /\ IF registrations[k] = "singleton"
         THEN singletons' = [singletons EXCEPT ![k] = kept] /\ UNCHANGED scoped
         ELSE scoped' = [scoped EXCEPT ![ScopeOf[t]][k] = kept] /\ UNCHANGED singletons
      /\ Answer(t, kept)
      /\ UNCHANGED <<phase, calls, registrations, resolves, made>>

Resolution(t) ==
  \/ NotRegistered(t) \/ Found(t) \/ CallFactory(t) \/ FactoryPanics(t)
  \/ FactoryReturns(t) \/ Store(t)

Next ==
  \/ \E k \in Key, lifetime \in Lifetime : Add(k, lifetime) \/ TryAdd(k, lifetime)
  \/ Start
  \/ \E t \in Thread : Resolution(t) \/ \E k \in Key : GetService(t, k)

Spec == Init /\ [][Next]_vars

\* A goroutine that resolves is scheduled.
Fairness == \A t \in Thread : WF_vars(Resolution(t))

FairSpec == Spec /\ Fairness

-----------------------------------------------------------------------------
\* The values each variable can hold.
TypeOK ==
  /\ phase \in {"startup", "running"}
  /\ calls \in 0..MaxCalls
  /\ registrations \in [Key -> Lifetime \union {"none"}]
  /\ singletons \in [Key -> Nat]
  /\ scoped \in [Scope -> [Key -> Nat]]
  /\ stack \in [Thread -> Seq([key : Key, pc : {"check", "factory", "store"}, value : Nat])]
  /\ resolves \in [Thread -> 0..MaxResolves]
  /\ made \in Nat
  /\ got \subseteq Scope \X Key \X Nat \X Thread

\* "only one result is kept": every caller of a singleton, in every scope and
\* however resolutions race, is given the same instance.
OneSingleton ==
  \A g, h \in got : g[2] = h[2] /\ registrations[g[2]] = "singleton" => g[3] = h[3]

\* "the same instance is reused for the lifetime of that scope": the callers of
\* one scope share a scoped instance, and no other scope ever sees it.
OnePerScope ==
  \A g, h \in got :
    g[2] = h[2] /\ registrations[g[2]] = "scoped" => (g[1] = h[1] <=> g[3] = h[3])

\* No resolution waits for ever, nested and racing ones included.
ResolutionEnds == \A t \in Thread : stack[t] # <<>> ~> stack[t] = <<>>
=============================================================================
