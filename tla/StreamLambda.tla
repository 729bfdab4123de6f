---------------------------- MODULE StreamLambda ----------------------------
(***************************************************************************)
(* The Lambda handlers of ordered streams: awskafka (a batch holds records *)
(* of several partitions), awskinesis and awsdynamodb (of one shard, here  *)
(* a single partition).  Each partition's records are dispatched in order  *)
(* up to the first one that is not acknowledged, whose identifier goes     *)
(* into the partial-batch-failure report.  The event source mapping        *)
(* (external) keeps a position per partition, moves it as the report says, *)
(* and sends the whole batch again when the invocation gives no report.    *)
(***************************************************************************)
EXTENDS Settlement

CONSTANTS
  Partition,   \* topic-partitions, or the one shard
  NRecords,    \* bound: every partition holds records 1..NRecords
  Unmatched,   \* records <<partition, offset>> whose topic nobody serves
  Poison       \* records that cannot be decoded

Offset == 1..NRecords
Record == Partition \X Offset

VARIABLES
  pc,         \* whether an invocation is running
  todo,       \* partitions of the event the handler has not come to yet
  current,    \* the partition in hand, as a set of at most one
  remaining,  \* per partition, the offsets of the event not dealt with
  last,       \* per partition, the last offset of the event
  report,     \* batchItemFailures: per partition the offset, or 0
  position,   \* the mapping: per partition, the last offset done
  settled,    \* history: records acknowledged by the settlement
  handled     \* outside world: records whose handler has succeeded

vars == <<pc, todo, current, remaining, last, report, position, settled, handled>>

Init ==
  /\ pc = "idle"
  /\ todo = {}
  /\ current = {}
  /\ remaining = [p \in Partition |-> {}]
  /\ last = [p \in Partition |-> 0]
  /\ report = [p \in Partition |-> 0]
  /\ position = [p \in Partition |-> 0]
  /\ settled = {}
  /\ handled = {}

\* The mapping invokes the function with the next records of some partitions.
Invoke(end) ==
  /\ pc = "idle"
  /\ \A p \in Partition : end[p] >= position[p]
  /\ end # position
  /\ pc' = "running"
  /\ last' = end
  /\ remaining' = [p \in Partition |-> (position[p] + 1)..end[p]]
  /\ todo' = {p \in Partition : end[p] > position[p]}
  /\ report' = [p \in Partition |-> 0]
  /\ UNCHANGED <<current, position, settled, handled>>

\* The range over evt.Records takes up a partition, in any order.
TakePartition(p) ==
  /\ pc = "running"
  /\ current = {}
  /\ p \in todo
  /\ current' = {p}
  /\ todo' = todo \ {p}
  /\ UNCHANGED <<pc, remaining, last, report, position, settled, handled>>

\* Wrong variant: records are dispatched in the order the map gives them.
NextAny(p, o) == o \in remaining[p]

\* The next record of a partition: the stable sort puts offsets in order.
Next1(p, o) == o \in remaining[p] /\ \A next \in remaining[p] : o <= next

\* The partition's loop ends: its records are used up, or it broke off.
LeavePartition(p) ==
  /\ current = {p}
  /\ remaining[p] = {}
  /\ current' = {}
  /\ UNCHANGED <<pc, todo, remaining, last, report, position, settled, handled>>

\* Wrong variant: the record after the failed one is reported.
FailAtNext(p, o) ==
  /\ report' = [report EXCEPT ![p] = o + 1]
  /\ remaining' = [remaining EXCEPT ![p] = {}]

\* failAt, and the break out of the partition's loop.
FailAt(p, o) ==
  /\ report' = [report EXCEPT ![p] = o]
  /\ remaining' = [remaining EXCEPT ![p] = {}]

\* On to the next record.
Skip(p, o) ==
  /\ remaining' = [remaining EXCEPT ![p] = @ \ {o}]
  /\ UNCHANGED report

\* Wrong variant: an undecodable record is passed over.
PoisonSkipped(p, o) ==
  /\ current = {p}
  /\ Next1(p, o)
  /\ <<p, o>> \in Poison
  /\ settled' = settled \union {<<p, o>>}
  /\ Skip(p, o)
  /\ UNCHANGED <<pc, todo, current, last, position, handled>>

\* A record that cannot be decoded is not dispatched: it stops the partition,
\* unless the service chose at-most-once.
PoisonRecord(p, o) ==
  /\ current = {p}
  /\ Next1(p, o)
  /\ <<p, o>> \in Poison
  /\ IF Delivery = "AtMostOnce"
     THEN Skip(p, o) /\ settled' = settled \union {<<p, o>>}
     ELSE FailAt(p, o) /\ UNCHANGED settled
  /\ UNCHANGED <<pc, todo, current, last, position, handled>>

\* One record is dispatched.
Dispatch(p, o, ending) ==
  /\ current = {p}
  /\ Next1(p, o)
  /\ <<p, o>> \notin Poison
  /\ ending \in EndingsOf(<<p, o>> \in Unmatched)
  /\ handled' = IF ending = "success" THEN handled \union {<<p, o>>} ELSE handled
  /\ IF Acknowledge(Delivery, ending)
     THEN Skip(p, o) /\ settled' = settled \union {<<p, o>>}
     ELSE FailAt(p, o) /\ UNCHANGED settled
  /\ UNCHANGED <<pc, todo, current, last, position>>

\* Wrong variant: the handler stops at the first partition that fails.
RespondEarly ==
  /\ pc = "running"
  /\ current = {}
  /\ todo = {} \/ \E p \in Partition : report[p] # 0
  /\ pc' = "idle"
  /\ position' = [p \in Partition |->
                    IF p \in todo THEN position[p]
                    ELSE IF report[p] = 0 THEN last[p] ELSE report[p] - 1]
  /\ todo' = {}
  /\ UNCHANGED <<current, remaining, last, report, settled, handled>>

\* The report is returned, and the mapping acts on it.
Respond ==
  /\ pc = "running"
  /\ current = {}
  /\ todo = {}
  /\ pc' = "idle"
  /\ position' = [p \in Partition |-> IF report[p] = 0 THEN last[p] ELSE report[p] - 1]
  /\ UNCHANGED <<todo, current, remaining, last, report, settled, handled>>

\* The function fails or runs out of time, or its event is malformed: no report.
InvocationLost ==
  /\ pc = "running"
  /\ pc' = "idle"
  /\ todo' = {}
  /\ current' = {}
  /\ remaining' = [p \in Partition |-> {}]
  /\ UNCHANGED <<last, report, position, settled, handled>>

HandlerStep ==
  \/ Respond
  \/ \E p \in Partition :
       \/ TakePartition(p) \/ LeavePartition(p)
       \/ \E o \in Offset :
            PoisonRecord(p, o) \/ \E ending \in Endings : Dispatch(p, o, ending)

Next ==
  \/ HandlerStep
  \/ InvocationLost
  \/ \E end \in [Partition -> 0..NRecords] : Invoke(end)

Spec == Init /\ [][Next]_vars

\* The mapping keeps invoking, and sends every partition's records again and
\* again; the handler runs; an invocation tried again and again gives a report,
\* and a handler that can succeed does in the end.
Fairness ==
  /\ WF_vars(HandlerStep)
  /\ \A p \in Partition :
       SF_vars(\E end \in [Partition -> 0..NRecords] : Invoke(end) /\ end[p] > position[p])
  /\ \A r \in Record :
       SF_vars(\E ending \in Endings :
                 Acknowledge(Delivery, ending) /\ Dispatch(r[1], r[2], ending))
  /\ <>[][~InvocationLost]_vars

FairSpec == Spec /\ Fairness

-----------------------------------------------------------------------------
\* The values each variable can hold.
TypeOK ==
  /\ pc \in {"idle", "running"}
  /\ todo \subseteq Partition
  /\ current \subseteq Partition /\ \A p, q \in current : p = q
  /\ remaining \in [Partition -> SUBSET Offset]
  /\ last \in [Partition -> 0..NRecords]
  /\ report \in [Partition -> 0..NRecords]
  /\ position \in [Partition -> 0..NRecords]
  /\ settled \subseteq Record
  /\ handled \subseteq Record

\* "an ordered stream must not be checkpointed past a record that did not
\* succeed": the position covers only handled records and those whose failure
\* the settlement accepts, poison ones under at-most-once among them.
PositionCovers ==
  \A p \in Partition : \A o \in 1..position[p] :
    \/ <<p, o>> \in handled
    \/ Delivery = "AtMostOnce"
    \/ <<p, o>> \notin Poison /\ Waived(Delivery, <<p, o>> \in Unmatched)

\* A record the settlement can never acknowledge.
Stuck(r) ==
  /\ Delivery # "AtMostOnce"
  /\ r \in Poison \/ (r \in Unmatched /\ ~IgnoreUnmatchedTopics)

\* "a failure in one does not stop the others": every record with no stuck
\* record before it in its own partition is settled in the end, though other
\* partitions of the same batches are stuck for good.
OthersProceed ==
  <>({r \in Record : \A o \in 1..r[2] : ~Stuck(<<r[1], o>>)} \subseteq settled)

Stream(p) == INSTANCE OrderedStream WITH
               Last <- NRecords, Empty <- {},
               settled <- {o \in Offset : <<p, o>> \in settled},
               position <- position[p]

\* Every partition is an ordered stream.
StreamsStart == \A p \in Partition : Stream(p)!Init
StreamsStep == \A p \in Partition : [Stream(p)!Next]_(Stream(p)!vars)
ImplementsOrderedStreams == StreamsStart /\ [][StreamsStep]_vars
=============================================================================
