----------------------------- MODULE Announcer -----------------------------
(***************************************************************************)
(* The service side of the mesh (mesh/announce.go) against a collector     *)
(* (meshd/store.go) that keeps everything in memory.  Several instances of *)
(* one service, perhaps of different deploys, each run an Announcer: they  *)
(* register their Contract Document, with a bounded number of attempts     *)
(* first and before every heartbeat after that, and heartbeat until their  *)
(* context ends.  A send may be lost, or be handled with its answer lost;  *)
(* the collector starts late and may restart with nothing.                 *)
(***************************************************************************)
EXTENDS Integers

CONSTANTS
  Instance,          \* processes that run an Announcer
  Doc,               \* Contract Documents (registration hashes)
  DocOf,             \* the document each instance was built with
  NoDoc,
  RegisterAttempts,  \* AnnouncerOptions.RegisterAttempts
  MaxRestarts        \* bound: how often the collector restarts

VARIABLES
  pc,          \* where each instance's Run is
  attempt,     \* Run's loop variable
  registered,  \* Announcer.registered
  cancelled,   \* whether Run's context is over
  up,          \* whether the collector answers
  contract,    \* the registration the collector holds for the service
  health,      \* the document hash in the latest heartbeat of each instance
  restarts     \* how often the collector restarted

vars == <<pc, attempt, registered, cancelled, up, contract, health, restarts>>

\* How one Sender.Send can go.  "unanswered": handled, but the answer is lost.
Sending == {"accepted", "unanswered", "lost"}

Handled(how) == how \in {"accepted", "unanswered"}

Init ==
  /\ pc = [i \in Instance |-> "registering"]
  /\ attempt = [i \in Instance |-> 1]
  /\ registered = [i \in Instance |-> FALSE]
  /\ cancelled = [i \in Instance |-> FALSE]
  /\ up = FALSE
  /\ contract = NoDoc
  /\ health = [i \in Instance |-> NoDoc]
  /\ restarts = 0

\* Wrong variant: a send that did not fail outright counts as accepted.
RegisterOptimistic(i, how) ==
  /\ Handled(how) => up
  /\ contract' = IF Handled(how) THEN DocOf[i] ELSE contract
  /\ registered' = [registered EXCEPT ![i] = TRUE]
  /\ UNCHANGED <<cancelled, up, health, restarts>>

\* Announcer.Register: the collector replaces whatever it held for the service.
Register(i, how) ==
  /\ Handled(how) => up
  /\ contract' = IF Handled(how) THEN DocOf[i] ELSE contract
  /\ registered' = [registered EXCEPT ![i] = @ \/ how = "accepted"]
  /\ UNCHANGED <<cancelled, up, health, restarts>>

\* Run's first loop: give the collector RegisterAttempts chances.
FirstRegister(i, how) ==
  /\ pc[i] = "registering"
  /\ Register(i, how)
  /\ pc' = [pc EXCEPT ![i] =
              IF how = "accepted" \/ attempt[i] >= RegisterAttempts THEN "loop" ELSE "retrying"]
  /\ UNCHANGED attempt

\* sleep: the timer fires.  When the context is over too, either case is taken.
RetryTimer(i) ==
  /\ pc[i] = "retrying"
  /\ pc' = [pc EXCEPT ![i] = "registering"]
  /\ attempt' = [attempt EXCEPT ![i] = @ + 1]
  /\ UNCHANGED <<registered, cancelled, up, contract, health, restarts>>

\* sleep: the context is over, and Run returns.
RetryCancelled(i) ==
  /\ pc[i] = "retrying" /\ cancelled[i]
  /\ pc' = [pc EXCEPT ![i] = "done"]
  /\ UNCHANGED <<attempt, registered, cancelled, up, contract, health, restarts>>

\* Wrong variant: only the first loop registers.
LateRegisterNever(i, how) ==
  /\ pc[i] = "loop"
  /\ how = "lost"
  /\ pc' = [pc EXCEPT ![i] = "heartbeat"]
  /\ UNCHANGED <<attempt, registered, cancelled, up, contract, health, restarts>>

\* "A registration that never landed is retried before each heartbeat".
LateRegister(i, how) ==
  /\ pc[i] = "loop" /\ ~registered[i]
  /\ Register(i, how)
  /\ pc' = [pc EXCEPT ![i] = "heartbeat"]
  /\ UNCHANGED attempt

AlreadyRegistered(i) ==
  /\ pc[i] = "loop" /\ registered[i]
  /\ pc' = [pc EXCEPT ![i] = "heartbeat"]
  /\ UNCHANGED <<attempt, registered, cancelled, up, contract, health, restarts>>

\* Announcer.Heartbeat: the checks run and the result is sent once.
Heartbeat(i, how) ==
  /\ pc[i] = "heartbeat"
  /\ Handled(how) => up
  /\ health' = [health EXCEPT ![i] = IF Handled(how) THEN DocOf[i] ELSE @]
  /\ pc' = [pc EXCEPT ![i] = "waiting"]
  /\ UNCHANGED <<attempt, registered, cancelled, up, contract, restarts>>

\* The last select of Run, the ticker's case.
Tick(i) ==
  /\ pc[i] = "waiting"
  /\ pc' = [pc EXCEPT ![i] = "loop"]
  /\ UNCHANGED <<attempt, registered, cancelled, up, contract, health, restarts>>

\* Wrong variant: the context is looked at only after a heartbeat that got through.
StopOnceHeard(i) ==
  /\ pc[i] = "waiting" /\ cancelled[i] /\ health[i] # NoDoc
  /\ pc' = [pc EXCEPT ![i] = "done"]
  /\ UNCHANGED <<attempt, registered, cancelled, up, contract, health, restarts>>

\* The last select of Run, the context's case.
Stop(i) ==
  /\ pc[i] = "waiting" /\ cancelled[i]
  /\ pc' = [pc EXCEPT ![i] = "done"]
  /\ UNCHANGED <<attempt, registered, cancelled, up, contract, health, restarts>>

Cancel(i) ==
  /\ ~cancelled[i]
  /\ cancelled' = [cancelled EXCEPT ![i] = TRUE]
  /\ UNCHANGED <<pc, attempt, registered, up, contract, health, restarts>>

CollectorStart ==
  /\ ~up
  /\ up' = TRUE
  /\ UNCHANGED <<pc, attempt, registered, cancelled, contract, health, restarts>>

\* The collector stops, and with it its store: newStore starts empty.
CollectorStop ==
  /\ up /\ restarts < MaxRestarts
  /\ up' = FALSE
  /\ contract' = NoDoc
  /\ health' = [i \in Instance |-> NoDoc]
  /\ restarts' = restarts + 1
  /\ UNCHANGED <<pc, attempt, registered, cancelled>>

Run(i) ==
  \/ \E how \in Sending : FirstRegister(i, how) \/ LateRegister(i, how) \/ Heartbeat(i, how)
  \/ RetryTimer(i) \/ RetryCancelled(i) \/ AlreadyRegistered(i) \/ Tick(i) \/ Stop(i)

Next ==
  \/ \E i \in Instance : Run(i) \/ Cancel(i)
  \/ CollectorStart
  \/ CollectorStop

Spec == Init /\ [][Next]_vars

\* The goroutine runs on; a select whose context is over takes that case in the
\* end; a collector that is down comes back; and a network that is tried for
\* ever delivers now and then.
Fairness ==
  /\ WF_vars(CollectorStart)
  /\ \A i \in Instance :
       /\ WF_vars(Run(i))
       /\ SF_vars(RetryCancelled(i) \/ Stop(i))
       /\ SF_vars(LateRegister(i, "accepted"))

FairSpec == Spec /\ Fairness

-----------------------------------------------------------------------------
\* The values each variable can hold; Run makes RegisterAttempts attempts at most.
TypeOK ==
  /\ pc \in [Instance -> {"registering", "retrying", "loop", "heartbeat", "waiting", "done"}]
  /\ attempt \in [Instance -> 1..RegisterAttempts]
  /\ registered \in [Instance -> BOOLEAN]
  /\ cancelled \in [Instance -> BOOLEAN]
  /\ up \in BOOLEAN
  /\ contract \in Doc \cup {NoDoc}
  /\ health \in [Instance -> Doc \cup {NoDoc}]
  /\ restarts \in 0..MaxRestarts

\* An announcer that has stopped registering did so because the collector has
\* the contract, or had it and restarted since: lost answers and other
\* instances' registrations never make one stop early.
RegisteredMeansKnown ==
  (\E i \in Instance : registered[i]) => contract # NoDoc \/ restarts > 0

\* An instance is announced in the end, however late the collector comes up and
\* however many sends are lost, unless it is shut down.
EventuallyRegistered ==
  \A i \in Instance : <>(registered[i] \/ cancelled[i])

\* Run returns once its context is over, from the first loop or the second.
CancelStops ==
  \A i \in Instance : cancelled[i] ~> pc[i] = "done"

\* The comment on Run: "a collector that comes up late (or restarts and forgets
\* the fleet) still learns the contract".
CollectorRelearns ==
  (up /\ contract = NoDoc) ~> (contract # NoDoc \/ \A i \in Instance : cancelled[i])
=============================================================================
