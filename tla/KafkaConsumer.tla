--------------------------- MODULE KafkaConsumer ----------------------------
(***************************************************************************)
(* The self-hosted Kafka consumer (kafka/kafka.go): Run fetches one        *)
(* message at a time from a consumer group's partitions, re-dispatches it  *)
(* in place until its settlement acknowledges it, and commits it.  The     *)
(* source (a kafka.Reader, external) moves on with every fetch and goes    *)
(* back to the committed offsets only when a new one is opened.            *)
(***************************************************************************)
EXTENDS Settlement

CONSTANTS
  Partition,    \* the partitions assigned to this consumer
  NMessages,    \* bound: every partition holds messages 1..NMessages
  Unmatched,    \* messages <<partition, offset>> whose topic nobody serves
  SameSource    \* whether an owner may call Run again on the same Source

Offset == 1..NMessages
Message == Partition \X Offset

VARIABLES
  pc,         \* where Run is
  cancelled,  \* ctx.Err() # nil
  cursor,     \* the source: per partition, the last offset fetched
  msg,        \* the message in hand
  committed,  \* per partition, the committed offset
  settled,    \* history: messages acknowledged by the settlement
  handled     \* outside world: messages whose handler has succeeded

vars == <<pc, cancelled, cursor, msg, committed, settled, handled>>

NoMessage == <<>>

\* The settlement Run works with: a zero Delivery is DefaultDelivery.
delivery == IF Delivery = "BindingDefault" THEN "AtMostOnce" ELSE Delivery

Init ==
  /\ pc = "fetch"
  /\ cancelled = FALSE
  /\ cursor = [p \in Partition |-> 0]
  /\ msg = NoMessage
  /\ committed = [p \in Partition |-> 0]
  /\ settled = {}
  /\ handled = {}

\* Shutdown is requested, at any time.
Cancel ==
  /\ ~cancelled
  /\ pc # "returned"
  /\ cancelled' = TRUE
  /\ UNCHANGED <<pc, cursor, msg, committed, settled, handled>>

\* FetchMessage returns the next message of some partition; it may still do so
\* when the context has just been cancelled.
FetchMessage(p) ==
  /\ pc = "fetch"
  /\ cursor[p] < NMessages
  /\ cursor' = [cursor EXCEPT ![p] = @ + 1]
  /\ msg' = <<p, cursor[p] + 1>>
  /\ pc' = "dispatch"
  /\ UNCHANGED <<cancelled, committed, settled, handled>>

\* FetchMessage fails: Run returns, with nil if its context is over.
FetchError ==
  /\ pc = "fetch"
  /\ pc' = "returned"
  /\ UNCHANGED <<cancelled, cursor, msg, committed, settled, handled>>

\* Wrong variant: a failed message is committed past whatever the settlement.
DispatchAlwaysCommits(m, ending) ==
  /\ pc = "dispatch"
  /\ m = msg
  /\ ending \in EndingsOf(m \in Unmatched)
  /\ handled' = IF ending = "success" THEN handled \union {m} ELSE handled
  /\ settled' = settled \union {m}
  /\ pc' = "commit"
  /\ UNCHANGED <<cancelled, cursor, msg, committed>>

\* One dispatch of the message in hand.
Dispatch(m, ending) ==
  /\ pc = "dispatch"
  /\ m = msg
  /\ ending \in EndingsOf(m \in Unmatched)
  /\ handled' = IF ending = "success" THEN handled \union {m} ELSE handled
  /\ IF Acknowledge(delivery, ending)
     THEN pc' = "commit" /\ settled' = settled \union {m}
     ELSE pc' = "backoff" /\ UNCHANGED settled
  /\ UNCHANGED <<cancelled, cursor, msg, committed>>

\* Wrong variant: gives the message up after its first failure.
BackoffGivesUp ==
  /\ pc = "backoff"
  /\ pc' = IF cancelled THEN "returned" ELSE "fetch"
  /\ msg' = NoMessage
  /\ UNCHANGED <<cancelled, cursor, committed, settled, handled>>

\* At-least-once: sleep and dispatch the same message again, unless the
\* context is over by then.
Backoff ==
  /\ pc = "backoff"
  /\ pc' = IF cancelled THEN "returned" ELSE "dispatch"
  /\ UNCHANGED <<cancelled, cursor, msg, committed, settled, handled>>

\* CommitMessages stores the message's offset.
CommitMessages(m) ==
  /\ pc = "commit"
  /\ m = msg
  /\ committed' = [committed EXCEPT ![m[1]] = m[2]]
  /\ msg' = NoMessage
  /\ pc' = "fetch"
  /\ UNCHANGED <<cancelled, cursor, settled, handled>>

\* CommitMessages fails, for one because it is given the cancelled context, and
\* the offset may have been stored all the same: Run returns.
CommitError(m) ==
  /\ pc = "commit"
  /\ m = msg
  /\ committed' \in {committed, [committed EXCEPT ![m[1]] = m[2]]}
  /\ msg' = NoMessage
  /\ pc' = "returned"
  /\ UNCHANGED <<cancelled, cursor, settled, handled>>

\* Wrong variant: the new source starts at the beginning.
RestartFromBeginning ==
  /\ pc' = "fetch"
  /\ cancelled' = FALSE
  /\ cursor' = [p \in Partition |-> 0]
  /\ msg' = NoMessage
  /\ UNCHANGED <<committed, settled, handled>>

\* The owner opens a new source, in this process or in a new one: it resumes
\* from the committed offsets.
Restart ==
  /\ pc' = "fetch"
  /\ cancelled' = FALSE
  /\ cursor' = committed
  /\ msg' = NoMessage
  /\ UNCHANGED <<committed, settled, handled>>

\* The owner calls Run again on the source it has: the source goes on from
\* where it was.
Rerun ==
  /\ SameSource
  /\ pc = "returned"
  /\ pc' = "fetch"
  /\ cancelled' = FALSE
  /\ msg' = NoMessage
  /\ UNCHANGED <<cursor, committed, settled, handled>>

RunStep ==
  \/ \E p \in Partition : FetchMessage(p)
  \/ FetchError \/ Backoff
  \/ \E m \in Message :
       CommitMessages(m) \/ CommitError(m) \/ \E ending \in Endings : Dispatch(m, ending)

Next == RunStep \/ Cancel \/ Restart \/ Rerun

Spec == Init /\ [][Next]_vars

\* Run keeps running and an owner restarts a consumer that returned; a fetch, a
\* handler and a commit tried again and again succeed in the end.
Fairness ==
  /\ WF_vars(RunStep)
  /\ WF_vars(pc = "returned" /\ Restart)
  /\ \A p \in Partition : SF_vars(FetchMessage(p))
  /\ \A m \in Message :
       /\ SF_vars(CommitMessages(m))
       /\ SF_vars(\E ending \in Endings : Acknowledge(delivery, ending) /\ Dispatch(m, ending))

FairSpec == Spec /\ Fairness

-----------------------------------------------------------------------------
\* The values each variable can hold.
TypeOK ==
  /\ pc \in {"fetch", "dispatch", "backoff", "commit", "returned"}
  /\ cancelled \in BOOLEAN
  /\ cursor \in [Partition -> 0..NMessages]
  /\ msg \in Message \union {NoMessage}
  /\ committed \in [Partition -> 0..NMessages]
  /\ settled \subseteq Message
  /\ handled \subseteq Message

\* A committed offset covers no message that its handler never succeeded with,
\* unless the settlement accepts the failure: a failed message is "re-dispatched
\* in place after ErrorBackoff until it succeeds, so it is never skipped".
CommittedCovers ==
  \A p \in Partition : \A o \in 1..committed[p] :
    <<p, o>> \in handled \/ Waived(delivery, <<p, o>> \in Unmatched)

\* Offsets are never committed backwards.
CommitForward == \A p \in Partition : committed'[p] >= committed[p]
CommitsMonotone == [][CommitForward]_vars

\* Every message of every partition is settled in the end: one partition's
\* failing message only delays the others, and does not even do that to a
\* consumer that skips and continues.
EventuallySettled == <>(Message \subseteq settled)

Stream(p) == INSTANCE OrderedStream WITH
               Last <- NMessages, Empty <- {},
               settled <- {o \in Offset : <<p, o>> \in settled},
               position <- committed[p]

\* Every partition is an ordered stream.
StreamsStart == \A p \in Partition : Stream(p)!Init
StreamsStep == \A p \in Partition : [Stream(p)!Next]_(Stream(p)!vars)
ImplementsOrderedStreams == StreamsStart /\ [][StreamsStep]_vars
=============================================================================
