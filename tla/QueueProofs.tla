---------------------------- MODULE QueueProofs -----------------------------
(***************************************************************************)
(* Proofs about the consumers of queues, for any messages, workers, batch  *)
(* sizes, delivery counts, prefetch counts and settings.  Each consumer's  *)
(* invariant says what its workers hold and what is true of it: what an    *)
(* SQS worker has put down for deletion, the outcome a Service Bus worker  *)
(* is about to settle, the deliveries a RabbitMQ consumer has over an open *)
(* channel.                                                                *)
(***************************************************************************)
EXTENDS MCQueues, TLAPS

-----------------------------------------------------------------------------
(***************************************************************************)
(* The leased queue, as both its consumers drive it.                       *)
(***************************************************************************)

\* A message nobody holds may be received once more.
Receivable == \A m \in Message \ (gone \union dead) : holder[m] = Nobody => receives[m] < MaxReceives

\* A lease, to however many messages.
Leased(w, taken) ==
  /\ taken \subseteq Visible
  /\ holder' = [m \in Message |-> IF m \in taken THEN w ELSE holder[m]]
  /\ receives' = [m \in Message |-> IF m \in taken THEN receives[m] + 1 ELSE receives[m]]
  /\ UNCHANGED <<gone, dead>>

\* What can happen to the queue: a lease, a removal, a message given back or moved aside.
QueueMoves ==
  \/ UNCHANGED queue
  \/ \E w \in Worker, taken \in SUBSET Visible : Leased(w, taken)
  \/ \E removed \in SUBSET Message : Remove(removed)
  \/ \E m \in Message : GiveBack(m) /\ holder[m] # Nobody
  \/ \E m \in Message : MoveAside(m)

LEMMA QueueStaysTyped ==
  ASSUME QueueTypeOK, Receivable, QueueMoves
  PROVE  QueueTypeOK' /\ Receivable'
<1> USE LeasedQueueAssumption DEF QueueTypeOK, Receivable
<1>1. CASE UNCHANGED queue
  BY <1>1 DEF queue
<1>2. ASSUME NEW w \in Worker, NEW taken \in SUBSET Visible, Leased(w, taken)
      PROVE  QueueTypeOK' /\ Receivable'
  <2>1. \A m \in taken : m \in Message \ (gone \union dead) /\ receives[m] \in 0..(MaxReceives - 1)
    BY DEF Visible
  <2>2. holder' \in [Message -> Worker \union {Nobody}]
    BY <1>2 DEF Leased
  <2>3. receives' \in [Message -> 0..MaxReceives]
    BY <1>2, <2>1 DEF Leased
  <2> QED
    BY <1>2, <2>1, <2>2, <2>3 DEF Leased
<1>3. ASSUME NEW removed \in SUBSET Message, Remove(removed) PROVE QueueTypeOK' /\ Receivable'
  BY <1>3 DEF Remove
<1>4. ASSUME NEW m \in Message, GiveBack(m) PROVE QueueTypeOK' /\ Receivable'
  BY <1>4 DEF GiveBack
<1>5. ASSUME NEW m \in Message, MoveAside(m) PROVE QueueTypeOK' /\ Receivable'
  BY <1>5 DEF MoveAside
<1> QED
  BY <1>1, <1>2, <1>3, <1>4, <1>5 DEF QueueMoves

\* A message in the dead-letter queue stays there with the receives it came with.
LEMMA QueueLeavesDead ==
  ASSUME QueueTypeOK, QueueMoves, NEW m \in dead
  PROVE  m \in dead' /\ receives'[m] = receives[m]
BY DEF QueueMoves, QueueTypeOK, queue, Leased, Remove, GiveBack, MoveAside, Visible

-----------------------------------------------------------------------------
(***************************************************************************)
(* SQS.  What a worker has put down for deletion was handled or waived,    *)
(* and it owes the queue no more than that.                                *)
(***************************************************************************)
Deleting(w) ==
  /\ \A m \in toDelete[w] : m \in handled \/ Waived(Delivery, m \in Unmatched)
  /\ owed[w] \subseteq toDelete[w]
  /\ pc[w] # "dispatch" => owed[w] = {}

SQSInv == TypeOK /\ Receivable /\ DeletedIsHandled /\ \A w \in Worker : Deleting(w)

LEMMA SQSStarts == Init => SQSInv
<1> SUFFICES ASSUME Init PROVE SQSInv
  OBVIOUS
<1> USE LeasedQueueAssumption DEF Init, QueueInit
<1>1. QueueTypeOK /\ Receivable
  BY DEF QueueTypeOK, Receivable
<1> QED
  BY <1>1 DEF SQSInv, TypeOK, DeletedIsHandled, Deleting

\* A step of one worker, told by what it does to that worker's state.
LEMMA SQSWorker ==
  ASSUME SQSInv, QueueMoves, NEW w \in Worker,
         pc' \in [Worker -> {"loop", "dispatch", "error", "returned"}],
         cancelled' \in [Worker -> BOOLEAN],
         batch' \in [Worker -> SUBSET Message],
         toDelete' \in [Worker -> SUBSET Message],
         owed' \in [Worker -> SUBSET Message],
         handled \subseteq handled', handled' \subseteq Message,
         \A v \in Worker \ {w} : pc'[v] = pc[v] /\ toDelete'[v] = toDelete[v] /\ owed'[v] = owed[v],
         \A m \in gone' \ gone : m \in toDelete[w],
         Deleting(w)'
  PROVE  SQSInv'
<1>1. QueueTypeOK' /\ Receivable'
  BY QueueStaysTyped DEF SQSInv, TypeOK
<1>2. TypeOK'
  BY <1>1 DEF SQSInv, TypeOK
<1>3. DeletedIsHandled'
  BY DEF SQSInv, DeletedIsHandled, Deleting
<1>4. ASSUME NEW v \in Worker PROVE Deleting(v)'
  BY DEF SQSInv, Deleting
<1> QED
  BY <1>1, <1>2, <1>3, <1>4 DEF SQSInv

LEMMA SQSInductive ==
  ASSUME SQSInv, [Next]_vars
  PROVE  SQSInv'
<1>0. TypeOK /\ Receivable /\ DeletedIsHandled /\ \A w \in Worker : Deleting(w)
  BY DEF SQSInv
<1>1. CASE UNCHANGED vars
  BY <1>0, <1>1 DEF vars, queue, SQSInv, TypeOK, QueueTypeOK, Receivable, DeletedIsHandled, Deleting
<1>2. ASSUME NEW m \in Message, VisibilityTimeout(m) PROVE SQSInv'
  <2>1. QueueMoves /\ gone' = gone /\ UNCHANGED <<pc, cancelled, batch, toDelete, handled, owed>>
    BY <1>2 DEF VisibilityTimeout, QueueMoves, GiveBack
  <2>2. QueueTypeOK' /\ Receivable'
    BY <1>0, <2>1, QueueStaysTyped DEF TypeOK
  <2> QED
    BY <1>0, <2>1, <2>2 DEF SQSInv, TypeOK, DeletedIsHandled, Deleting
<1>3. ASSUME NEW w \in Worker, Return(w) \/ NothingToDelete(w) \/ Backoff(w) \/ Cancel(w) \/ Rerun(w)
      PROVE  SQSInv'
  <2>1. /\ QueueMoves /\ gone' = gone /\ UNCHANGED <<batch, toDelete, handled, owed>>
        /\ pc' \in [Worker -> {"loop", "dispatch", "error", "returned"}]
        /\ cancelled' \in [Worker -> BOOLEAN]
        /\ \A v \in Worker \ {w} : pc'[v] = pc[v]
    BY <1>0, <1>3 DEF TypeOK, QueueMoves, queue, Return, NothingToDelete, Backoff, Cancel, Rerun
  <2>2. owed[w] = {} \/ pc'[w] = pc[w]
    BY <1>0, <1>3 DEF TypeOK, Deleting, Return, NothingToDelete, Backoff, Cancel, Rerun
  <2>3. Deleting(w)'
    BY <1>0, <2>1, <2>2 DEF Deleting
  <2> QED
    BY <1>0, <2>1, <2>3, SQSWorker DEF TypeOK
<1>4. ASSUME NEW w \in Worker, Receive(w) PROVE SQSInv'
  <2>1. PICK received \in SUBSET Visible :
          Lease(w, received) /\ batch' = [batch EXCEPT ![w] = received]
    BY <1>4 DEF Receive
  <2>2. /\ toDelete' = [toDelete EXCEPT ![w] = {}] /\ pc' = [pc EXCEPT ![w] = "dispatch"]
        /\ pc[w] = "loop" /\ UNCHANGED <<cancelled, handled, owed>>
    BY <1>4 DEF Receive
  <2>3. QueueMoves /\ gone' = gone /\ received \subseteq Message
    BY <2>1 DEF QueueMoves, Lease, Leased, Visible
  <2>4. /\ batch' \in [Worker -> SUBSET Message] /\ toDelete' \in [Worker -> SUBSET Message]
        /\ pc' \in [Worker -> {"loop", "dispatch", "error", "returned"}]
        /\ \A v \in Worker \ {w} : pc'[v] = pc[v] /\ toDelete'[v] = toDelete[v]
        /\ toDelete'[w] = {} /\ owed[w] = {}
    BY <1>0, <2>1, <2>2, <2>3 DEF TypeOK, Deleting
  <2> QED
    BY <1>0, <2>2, <2>3, <2>4, SQSWorker DEF TypeOK, Deleting
<1>5. ASSUME NEW w \in Worker, ReceiveError(w) PROVE SQSInv'
  <2>1. PICK lost \in SUBSET Visible : Lease(w, lost)
    BY <1>5 DEF ReceiveError
  <2>2. /\ pc' = [pc EXCEPT ![w] = "error"] /\ pc[w] = "loop"
        /\ UNCHANGED <<cancelled, batch, toDelete, handled, owed>>
    BY <1>5 DEF ReceiveError
  <2>3. QueueMoves /\ gone' = gone
    BY <2>1 DEF QueueMoves, Lease, Leased
  <2>4. Deleting(w)' /\ pc' \in [Worker -> {"loop", "dispatch", "error", "returned"}]
        /\ \A v \in Worker \ {w} : pc'[v] = pc[v]
    BY <1>0, <2>2 DEF TypeOK, Deleting
  <2> QED
    BY <1>0, <2>2, <2>3, <2>4, SQSWorker DEF TypeOK
<1>6. ASSUME NEW w \in Worker, NEW m \in Message, NEW ending \in Endings, Dispatch(w, m, ending)
      PROVE  SQSInv'
  <2>1. /\ pc[w] = "dispatch" /\ QueueMoves /\ UNCHANGED <<gone, pc, cancelled>>
        /\ batch' \in [Worker -> SUBSET Message]
        /\ handled \subseteq handled' /\ handled' \subseteq Message
    BY <1>0, <1>6 DEF Dispatch, QueueMoves, queue, TypeOK
  <2>2. CASE Acknowledge(Delivery, ending)
    <3>1. /\ toDelete' = [toDelete EXCEPT ![w] = @ \union {m}]
          /\ owed' = [owed EXCEPT ![w] = @ \union {m}]
      BY <1>6, <2>2 DEF Dispatch
    <3>2. m \in handled' \/ Waived(Delivery, m \in Unmatched)
      BY <1>6, <2>2 DEF Dispatch, Acknowledge, Waived, EndingsOf
    <3>3. /\ toDelete' \in [Worker -> SUBSET Message] /\ owed' \in [Worker -> SUBSET Message]
          /\ toDelete'[w] = toDelete[w] \union {m} /\ owed'[w] = owed[w] \union {m}
          /\ \A v \in Worker \ {w} : toDelete'[v] = toDelete[v] /\ owed'[v] = owed[v]
      BY <1>0, <3>1 DEF TypeOK
    <3>4. Deleting(w)'
      BY <1>0, <2>1, <3>2, <3>3 DEF Deleting
    <3> QED
      BY <1>0, <2>1, <3>3, <3>4, SQSWorker DEF TypeOK
  <2>3. CASE ~Acknowledge(Delivery, ending)
    <3>1. UNCHANGED <<toDelete, owed>>
      BY <1>6, <2>3 DEF Dispatch
    <3>2. Deleting(w)'
      BY <1>0, <2>1, <3>1 DEF Deleting
    <3> QED
      BY <1>0, <2>1, <3>1, <3>2, SQSWorker DEF TypeOK
  <2> QED
    BY <2>2, <2>3
<1>7. ASSUME NEW w \in Worker, DeleteMessageBatch(w) \/ DeleteError(w) PROVE SQSInv'
  <2>1. PICK removed \in SUBSET toDelete[w] : Remove(removed)
    BY <1>7 DEF DeleteMessageBatch, DeleteError, Deletable
  <2>2. /\ owed' = [owed EXCEPT ![w] = @ \ toDelete[w]] /\ UNCHANGED <<cancelled, batch, toDelete, handled>>
        /\ pc' = [pc EXCEPT ![w] = "loop"] \/ pc' = [pc EXCEPT ![w] = "error"]
    BY <1>7 DEF DeleteMessageBatch, DeleteError
  <2>3. QueueMoves /\ gone' \subseteq gone \union toDelete[w]
    BY <1>0, <2>1 DEF QueueMoves, Remove, TypeOK
  <2>4. /\ pc' \in [Worker -> {"loop", "dispatch", "error", "returned"}]
        /\ owed' \in [Worker -> SUBSET Message] /\ owed'[w] = {}
        /\ \A v \in Worker \ {w} : pc'[v] = pc[v] /\ owed'[v] = owed[v]
    BY <1>0, <2>2 DEF TypeOK, Deleting
  <2>5. Deleting(w)'
    BY <1>0, <2>2, <2>4 DEF Deleting
  <2> QED
    BY <1>0, <2>2, <2>3, <2>4, <2>5, SQSWorker DEF TypeOK
<1>8. ASSUME NEW w \in Worker, Crash(w) PROVE SQSInv'
  <2>1. /\ QueueMoves /\ UNCHANGED <<gone, cancelled, handled>>
        /\ pc' \in [Worker -> {"loop", "dispatch", "error", "returned"}]
        /\ batch' \in [Worker -> SUBSET Message]
    BY <1>0, <1>8 DEF Crash, QueueMoves, queue, TypeOK
  <2>2. /\ toDelete' \in [Worker -> SUBSET Message] /\ toDelete'[w] = {}
        /\ owed' \in [Worker -> SUBSET Message] /\ owed'[w] = {}
        /\ \A v \in Worker \ {w} : pc'[v] = pc[v] /\ toDelete'[v] = toDelete[v] /\ owed'[v] = owed[v]
    BY <1>0, <1>8 DEF Crash, TypeOK
  <2> QED
    BY <1>0, <2>1, <2>2, SQSWorker DEF TypeOK, Deleting
<1> QED
  BY <1>1, <1>2, <1>3, <1>4, <1>5, <1>6, <1>7, <1>8 DEF Next, RunStep

LEMMA SQSSafe ==
  ASSUME SQSInv
  PROVE  TypeOK /\ DeletedIsHandled /\ ShutdownOwesNothing
BY DEF SQSInv, Deleting, ShutdownOwesNothing

-----------------------------------------------------------------------------
(***************************************************************************)
(* Service Bus.  The outcome a worker is about to settle is the outcome    *)
(* its message had; between two polls it holds nothing.                    *)
(***************************************************************************)
Settling(s, w) ==
  /\ \A o \in current[w] :
       /\ o.ending # "success" => o.msg \in failed
       /\ Bus(s)!Acknowledge(Delivery, o.ending) =>
            o.msg \in handled \/ Bus(s)!Waived(Delivery, o.msg \in Unmatched)
  /\ pc[w] # "settle" => owed[w] = {}
  /\ pc[w] \in {"loop", "error", "returned"} => batch[w] = {}

BusInv(s) ==
  /\ Bus(s)!TypeOK /\ Receivable
  /\ Bus(s)!CompletedIsHandled /\ Bus(s)!QuarantineIsEarned
  /\ \A w \in Worker : Settling(s, w)

\* The queue's operators are the same ones.
LEMMA BusQueue ==
  ASSUME NEW s
  PROVE  /\ Bus(s)!QueueTypeOK <=> QueueTypeOK
         /\ Bus(s)!Visible = Visible
         /\ \A w, taken : Bus(s)!Lease(w, taken) => Leased(w, taken)
         /\ \A removed : Bus(s)!Remove(removed) <=> Remove(removed)
         /\ \A m : Bus(s)!GiveBack(m) <=> GiveBack(m)
         /\ \A m : Bus(s)!MoveAside(m) <=> MoveAside(m)
BY DEF Bus!QueueTypeOK, QueueTypeOK, Bus!Visible, Visible, Bus!Lease, Leased,
       Bus!Remove, Remove, Bus!GiveBack, GiveBack, Bus!MoveAside, MoveAside

LEMMA BusStarts ==
  ASSUME NEW s \in Setups, Bus(s)!Init
  PROVE  BusInv(s)
<1> USE LeasedQueueAssumption DEF Bus!Init, Bus!QueueInit
<1>1. QueueTypeOK /\ Receivable
  BY DEF QueueTypeOK, Receivable
<1>2. Bus(s)!TypeOK
  BY <1>1, BusQueue DEF Bus!TypeOK
<1>3. Bus(s)!CompletedIsHandled /\ Bus(s)!QuarantineIsEarned /\ \A w \in Worker : Settling(s, w)
  BY DEF Bus!CompletedIsHandled, Bus!QuarantineIsEarned, Settling
<1> QED
  BY <1>1, <1>2, <1>3 DEF BusInv

BusPlaces == {"loop", "dispatch", "settle", "error", "returned"}

\* A step of one worker, told by what it does to that worker's state.
LEMMA BusWorker ==
  ASSUME NEW s \in Setups, BusInv(s), QueueMoves, NEW w \in Worker,
         pc' \in [Worker -> BusPlaces],
         cancelled' \in [Worker -> BOOLEAN],
         batch' \in [Worker -> SUBSET Message],
         current' \in [Worker -> SUBSET Bus(s)!Outcome],
         owed' \in [Worker -> SUBSET Message],
         handled \subseteq handled', handled' \subseteq Message,
         failed \subseteq failed', failed' \subseteq Message,
         \A v \in Worker \ {w} :
           pc'[v] = pc[v] /\ batch'[v] = batch[v] /\ current'[v] = current[v] /\ owed'[v] = owed[v],
         \A m \in gone' \ gone : m \in handled' \/ Bus(s)!Waived(Delivery, m \in Unmatched),
         \A m \in dead' \ dead : receives'[m] = MaxReceives \/ (s.ackMode = "AckModeDeadLetter" /\ m \in failed'),
         Settling(s, w)'
  PROVE  BusInv(s)'
<1>0. QueueTypeOK /\ Receivable
  BY BusQueue DEF BusInv, Bus!TypeOK
<1>1. QueueTypeOK' /\ Receivable'
  BY <1>0, QueueStaysTyped
<1>2. Bus(s)!TypeOK'
  <2>1. Bus(s)!QueueTypeOK'
    BY <1>1 DEF Bus!QueueTypeOK, QueueTypeOK
  <2> QED
    BY <2>1 DEF Bus!TypeOK, BusPlaces
<1>3. Bus(s)!CompletedIsHandled'
  BY DEF BusInv, Bus!CompletedIsHandled
<1>4. Bus(s)!QuarantineIsEarned'
  <2>1. \A m \in dead : receives'[m] = receives[m]
    BY <1>0, QueueLeavesDead
  <2> QED
    BY <2>1 DEF BusInv, Bus!QuarantineIsEarned
<1>5. ASSUME NEW v \in Worker PROVE Settling(s, v)'
  BY DEF BusInv, Settling
<1> QED
  BY <1>1, <1>2, <1>3, <1>4, <1>5 DEF BusInv

LEMMA BusInductive ==
  ASSUME NEW s \in Of("service bus"), BusInv(s), Bus(s)!Next
  PROVE  BusInv(s)'
<1>0. /\ s \in Setups /\ QueueTypeOK /\ Receivable
      /\ pc \in [Worker -> BusPlaces] /\ cancelled \in [Worker -> BOOLEAN]
      /\ batch \in [Worker -> SUBSET Message] /\ current \in [Worker -> SUBSET Bus(s)!Outcome]
      /\ handled \subseteq Message /\ failed \subseteq Message /\ owed \in [Worker -> SUBSET Message]
      /\ \A w \in Worker : Settling(s, w)
  BY BusQueue DEF BusInv, Bus!TypeOK, BusPlaces, Of
<1>1. ASSUME NEW m \in Message, Bus(s)!LockExpires(m) PROVE BusInv(s)'
  <2>1. QueueMoves /\ gone' = gone /\ UNCHANGED <<pc, cancelled, batch, current, handled, failed, owed>>
    BY <1>1, BusQueue DEF Bus!LockExpires, QueueMoves, GiveBack
  <2>2. ASSUME NEW w \in Worker PROVE Settling(s, w)'
    BY <1>0, <2>1 DEF Settling
  <2>3. \A n \in dead' \ dead : receives'[n] = MaxReceives
    BY <1>0, <1>1, BusQueue DEF Bus!LockExpires, GiveBack, QueueTypeOK
  <2>4. CASE Worker # {}
    <3>1. PICK w \in Worker : TRUE
      BY <2>4
    <3> QED
      BY <1>0, <2>1, <2>2, <2>3, <3>1, BusWorker
  <2>5. CASE Worker = {}
    BY <1>0, <1>1, <2>5, BusQueue DEF Bus!LockExpires, QueueTypeOK
  <2> QED
    BY <2>4, <2>5
<1>2. ASSUME NEW w \in Worker,
             \/ Bus(s)!Return(w) \/ Bus(s)!EndPoll(w) \/ Bus(s)!Backoff(w)
             \/ Bus(s)!Cancel(w) \/ Bus(s)!Rerun(w)
      PROVE  BusInv(s)'
  <2>1. /\ UNCHANGED <<queue, batch, current, handled, failed, owed>>
        /\ pc' \in [Worker -> BusPlaces] /\ cancelled' \in [Worker -> BOOLEAN]
        /\ \A v \in Worker \ {w} : pc'[v] = pc[v]
        /\ pc'[w] = pc[w] \/ (batch[w] = {} /\ owed[w] = {})
    BY <1>0, <1>2
       DEF Bus!queue, queue, Bus!Return, Bus!EndPoll, Bus!Backoff, Bus!Cancel, Bus!Rerun, BusPlaces, Settling
  <2>2. QueueMoves /\ gone' = gone /\ dead' = dead
    BY <2>1 DEF QueueMoves, queue
  <2>3. Settling(s, w)'
    BY <1>0, <2>1 DEF Settling
  <2> QED
    BY <1>0, <2>1, <2>2, <2>3, BusWorker
<1>3. ASSUME NEW w \in Worker, Bus(s)!Receive(w) \/ Bus(s)!ReceiveError(w) PROVE BusInv(s)'
  <2>1. PICK taken \in SUBSET Visible :
          /\ Leased(w, taken)
          /\ \/ batch' = [batch EXCEPT ![w] = taken] /\ pc' = [pc EXCEPT ![w] = "dispatch"]
             \/ batch' = batch /\ pc' = [pc EXCEPT ![w] = "error"]
    BY <1>3, BusQueue DEF Bus!Receive, Bus!ReceiveError
  <2>2. pc[w] = "loop" /\ UNCHANGED <<cancelled, current, handled, failed, owed>>
    BY <1>3 DEF Bus!Receive, Bus!ReceiveError
  <2>3. QueueMoves /\ gone' = gone /\ dead' = dead /\ taken \subseteq Message
    BY <2>1 DEF QueueMoves, Leased, Visible
  <2>4. /\ batch' \in [Worker -> SUBSET Message] /\ pc' \in [Worker -> BusPlaces]
        /\ \A v \in Worker \ {w} : pc'[v] = pc[v] /\ batch'[v] = batch[v]
        /\ pc'[w] = "dispatch" \/ (pc'[w] = "error" /\ batch'[w] = batch[w])
    BY <1>0, <2>1, <2>3 DEF BusPlaces
  <2>5. Settling(s, w)'
    BY <1>0, <2>2, <2>4 DEF Settling
  <2> QED
    BY <1>0, <2>2, <2>3, <2>4, <2>5, BusWorker
<1>4. ASSUME NEW w \in Worker, NEW m \in Message, NEW ending \in Bus(s)!Endings, Bus(s)!Dispatch(w, m, ending)
      PROVE  BusInv(s)'
  <2> DEFINE o == [msg |-> m, ending |-> ending]
  <2>1. /\ UNCHANGED <<queue, cancelled>> /\ pc[w] = "dispatch"
        /\ batch' = [batch EXCEPT ![w] = @ \ {m}] /\ current' = [current EXCEPT ![w] = {o}]
        /\ owed' = [owed EXCEPT ![w] = @ \union {m}] /\ pc' = [pc EXCEPT ![w] = "settle"]
        /\ handled' = IF ending = "success" THEN handled \union {m} ELSE handled
        /\ failed' = IF ending = "success" THEN failed ELSE failed \union {m}
    BY <1>4 DEF Bus!queue, queue, Bus!Dispatch
  <2>2. QueueMoves /\ gone' = gone /\ dead' = dead
    BY <2>1 DEF QueueMoves, queue
  <2>3. o \in Bus(s)!Outcome
    BY DEF Bus!Outcome
  <2>4. /\ batch' \in [Worker -> SUBSET Message] /\ pc' \in [Worker -> BusPlaces]
        /\ current' \in [Worker -> SUBSET Bus(s)!Outcome] /\ owed' \in [Worker -> SUBSET Message]
        /\ \A v \in Worker \ {w} :
             pc'[v] = pc[v] /\ batch'[v] = batch[v] /\ current'[v] = current[v] /\ owed'[v] = owed[v]
        /\ pc'[w] = "settle" /\ current'[w] = {o}
    BY <1>0, <2>1, <2>3 DEF BusPlaces
  <2>5. Bus(s)!Acknowledge(Delivery, ending) =>
          m \in handled' \/ Bus(s)!Waived(Delivery, m \in Unmatched)
    BY <1>4, <2>1 DEF Bus!Dispatch, Bus!Acknowledge, Bus!Waived, Bus!EndingsOf
  <2>6. Settling(s, w)'
    <3>1. o.msg = m /\ o.ending = ending
      OBVIOUS
    <3>2. ending # "success" => m \in failed'
      BY <2>1
    <3> HIDE DEF o
    <3> QED
      BY <2>4, <2>5, <3>1, <3>2 DEF Settling
  <2>7. handled \subseteq handled' /\ handled' \subseteq Message /\ failed \subseteq failed' /\ failed' \subseteq Message
    BY <1>0, <2>1
  <2> QED
    BY <1>0, <2>1, <2>2, <2>4, <2>6, <2>7, BusWorker
<1>5. ASSUME NEW w \in Worker, NEW o \in Bus(s)!Outcome, Bus(s)!SettleMessage(w, o) \/ Bus(s)!SettleError(w, o)
      PROVE  BusInv(s)'
  <2>1. /\ o \in current[w] /\ current' = [current EXCEPT ![w] = {}]
        /\ pc' = [pc EXCEPT ![w] = "dispatch"] /\ owed' = [owed EXCEPT ![w] = {}]
        /\ UNCHANGED <<cancelled, batch, handled, failed>>
    BY <1>5 DEF Bus!SettleMessage, Bus!SettleError, Bus!Settled
  <2>2. o.msg \in Message /\ o.ending \in Bus(s)!Endings
    BY DEF Bus!Outcome
  <2>3. /\ pc' \in [Worker -> BusPlaces]
        /\ current' \in [Worker -> SUBSET Bus(s)!Outcome] /\ owed' \in [Worker -> SUBSET Message]
        /\ \A v \in Worker \ {w} : pc'[v] = pc[v] /\ current'[v] = current[v] /\ owed'[v] = owed[v]
        /\ pc'[w] = "dispatch" /\ current'[w] = {} /\ owed'[w] = {}
    BY <1>0, <2>1 DEF BusPlaces
  <2>4. Settling(s, w)'
    BY <2>3 DEF Settling
  <2>5. Settling(s, w)
    BY <1>0
  <2>6. \/ UNCHANGED queue
        \/ Remove({o.msg}) /\ Bus(s)!Acknowledge(Delivery, o.ending)
        \/ /\ MoveAside(o.msg) /\ s.ackMode = "AckModeDeadLetter"
           /\ ~Bus(s)!Acknowledge(Delivery, o.ending)
        \/ GiveBack(o.msg) /\ holder[o.msg] # Nobody
    BY <1>5, LeasedQueueAssumption, BusQueue DEF Bus!queue, queue, Bus!SettleMessage, Bus!SettleError, Bus!Settle
  <2>7. QueueMoves
    BY <2>2, <2>6 DEF QueueMoves
  <2>8. \A m \in gone' \ gone : m \in handled' \/ Bus(s)!Waived(Delivery, m \in Unmatched)
    BY <2>1, <2>5, <2>6 DEF Settling, queue, Remove, MoveAside, GiveBack
  <2>9. \A m \in dead' \ dead :
          receives'[m] = MaxReceives \/ (s.ackMode = "AckModeDeadLetter" /\ m \in failed')
    <3>1. CASE UNCHANGED queue \/ Remove({o.msg})
      BY <3>1 DEF queue, Remove
    <3>2. CASE MoveAside(o.msg) /\ s.ackMode = "AckModeDeadLetter" /\ ~Bus(s)!Acknowledge(Delivery, o.ending)
      <4>1. o.msg \in failed'
        BY <2>1, <2>5, <3>2 DEF Settling, Bus!Acknowledge
      <4> QED
        BY <3>2, <4>1 DEF MoveAside
    <3>3. CASE GiveBack(o.msg)
      BY <3>3 DEF GiveBack
    <3> QED
      BY <2>6, <3>1, <3>2, <3>3
  <2> QED
    BY <1>0, <2>1, <2>3, <2>4, <2>7, <2>8, <2>9, BusWorker
<1>6. ASSUME NEW w \in Worker, Bus(s)!Crash(w) PROVE BusInv(s)'
  <2>1. /\ UNCHANGED <<queue, cancelled, handled, failed>>
        /\ pc' \in [Worker -> BusPlaces] /\ batch' \in [Worker -> SUBSET Message] /\ batch'[w] = {}
        /\ \A v \in Worker \ {w} : pc'[v] = pc[v] /\ batch'[v] = batch[v]
    BY <1>0, <1>6 DEF Bus!queue, queue, Bus!Crash, BusPlaces
  <2>2. /\ current' \in [Worker -> SUBSET Bus(s)!Outcome] /\ owed' \in [Worker -> SUBSET Message]
        /\ current'[w] = {} /\ owed'[w] = {}
        /\ \A v \in Worker \ {w} : current'[v] = current[v] /\ owed'[v] = owed[v]
    BY <1>0, <1>6 DEF Bus!Crash
  <2>3. QueueMoves /\ gone' = gone /\ dead' = dead
    BY <2>1 DEF QueueMoves, queue
  <2>4. Settling(s, w)'
    BY <2>1, <2>2 DEF Settling
  <2> QED
    BY <1>0, <2>1, <2>2, <2>3, <2>4, BusWorker
<1> QED
  BY <1>1, <1>2, <1>3, <1>4, <1>5, <1>6 DEF Bus!Next, Bus!RunStep

LEMMA BusSafe ==
  ASSUME NEW s \in Setups, BusInv(s)
  PROVE  Bus(s)!ShutdownOwesNothing
BY DEF BusInv, Settling, Bus!ShutdownOwesNothing

-----------------------------------------------------------------------------
(***************************************************************************)
(* RabbitMQ.  A message is in one place at the broker; every delivery a    *)
(* consumer holds over its open channel is one of the broker's unsettled   *)
(* ones, and one sent without the flag has never been requeued.            *)
(***************************************************************************)

\* The broker has a message in the queue, or unsettled at one consumer.
Apart ==
  \A c \in Worker :
    /\ ready \intersect unsettled[c] = {}
    /\ \A d \in Worker \ {c} : unsettled[c] \intersect unsettled[d] = {}

Held(c) == buffer[c] \union rabbitCurrent[c]

\* What a consumer holds over an open channel.
Fresh(c) ==
  /\ rabbitPc[c] # "handle" => rabbitCurrent[c] = {}
  /\ open[c] =>
       /\ buffer[c] \intersect rabbitCurrent[c] = {}
       /\ \A d \in Held(c) :
            /\ d.msg \in unsettled[c]
            /\ ~d.redelivered => requeues[d.msg] = 0
            /\ \A e \in Held(c) : d.msg = e.msg => d = e

\* A requeue leaves its mark, and is the only one.
Marked == \A m \in Message : requeues[m] <= 1 /\ (requeues[m] = 1 => m \in redelivered)

RabbitInv(s) ==
  /\ Rabbit(s)!TypeOK /\ Rabbit(s)!AckedIsHandled
  /\ Apart /\ Marked /\ \A c \in Worker : Fresh(c)

LEMMA RabbitStarts ==
  ASSUME NEW s \in Setups, Rabbit(s)!Init
  PROVE  RabbitInv(s)
<1> USE DEF Rabbit!Init
<1>1. Rabbit(s)!TypeOK
  BY DEF Rabbit!TypeOK
<1>2. Rabbit(s)!AckedIsHandled /\ Apart /\ Marked
  BY DEF Rabbit!AckedIsHandled, Apart, Marked
<1>3. \A c \in Worker : Fresh(c)
  BY DEF Fresh, Held
<1> QED
  BY <1>1, <1>2, <1>3 DEF RabbitInv

RabbitTyped(s) ==
  /\ ready \subseteq Message /\ redelivered \subseteq Message
  /\ unsettled \in [Worker -> SUBSET Message]
  /\ acked \subseteq Message /\ rejected \subseteq Message
  /\ open \in [Worker -> BOOLEAN]
  /\ rabbitPc \in [Worker -> {"select", "handle", "returned"}]
  /\ buffer \in [Worker -> SUBSET Rabbit(s)!Deliver1]
  /\ rabbitCurrent \in [Worker -> SUBSET Rabbit(s)!Deliver1]
  /\ rabbitHandled \subseteq Message
  /\ requeues \in [Message -> 0..2]

\* A delivery carries its message and the mark the message has.
LEMMA RabbitDelivery ==
  ASSUME NEW s, NEW m \in Message
  PROVE  /\ Rabbit(s)!DeliveryOf(m) \in Rabbit(s)!Deliver1
         /\ Rabbit(s)!DeliveryOf(m).msg = m
         /\ Rabbit(s)!DeliveryOf(m).redelivered <=> m \in redelivered
<1> DEFINE mark == m \in redelivered
<1>1. mark \in BOOLEAN /\ Rabbit(s)!DeliveryOf(m) = [msg |-> m, redelivered |-> mark]
  BY DEF Rabbit!DeliveryOf
<1>2. mark <=> m \in redelivered
  OBVIOUS
<1> HIDE DEF mark
<1> QED
  BY <1>1, <1>2 DEF Rabbit!Deliver1

LEMMA RabbitInductive ==
  ASSUME NEW s \in Of("rabbit"), RabbitInv(s), Rabbit(s)!Next
  PROVE  RabbitInv(s)'
<1>0. /\ RabbitTyped(s) /\ Rabbit(s)!AckedIsHandled /\ Apart /\ Marked
      /\ \A c \in Worker : Fresh(c)
  BY DEF RabbitInv, Rabbit!TypeOK, RabbitTyped
<1>t. RabbitTyped(s)' => Rabbit(s)!TypeOK'
  BY DEF RabbitTyped, Rabbit!TypeOK
<1> USE DEF RabbitTyped
<1>1. ASSUME NEW c \in Worker, NEW m \in Message, Rabbit(s)!Push(c, m) PROVE RabbitInv(s)'
  <2> DEFINE d == Rabbit(s)!DeliveryOf(m)
  <2>1. /\ open[c] /\ m \in ready /\ ready' = ready \ {m}
        /\ unsettled' = [unsettled EXCEPT ![c] = @ \union {m}]
        /\ buffer' = [buffer EXCEPT ![c] = @ \union {d}]
        /\ UNCHANGED <<redelivered, acked, rejected, open, rabbitPc, rabbitCurrent, rabbitHandled, requeues>>
    BY <1>1 DEF Rabbit!Push, Rabbit!history
  <2>2. d \in Rabbit(s)!Deliver1 /\ d.msg = m /\ (d.redelivered <=> m \in redelivered)
    BY RabbitDelivery
  <2> HIDE DEF d
  <2>3. RabbitTyped(s)'
    BY <1>0, <2>1, <2>2
  <2>4. Apart'
    BY <1>0, <2>1 DEF Apart
  <2>5. ASSUME NEW e \in Worker PROVE Fresh(e)'
    <3>1. CASE e # c
      BY <1>0, <2>1, <3>1 DEF Fresh, Held
    <3>2. CASE e = c
      <4>1. unsettled'[c] = unsettled[c] \union {m} /\ buffer'[c] = buffer[c] \union {d}
        BY <1>0, <2>1
      <4>2. m \notin unsettled[c] /\ \A held \in Held(c) : held.msg # m
        BY <1>0, <2>1 DEF Apart, Fresh
      <4>3. ~d.redelivered => requeues[m] = 0
        BY <1>0, <2>2 DEF Marked
      <4>4. buffer'[c] \intersect rabbitCurrent'[c] = {} /\ Held(c)' = Held(c) \union {d}
        BY <1>0, <2>1, <2>2, <4>1, <4>2 DEF Fresh, Held
      <4> QED
        BY <1>0, <2>1, <2>2, <3>2, <4>1, <4>2, <4>3, <4>4 DEF Fresh
    <3> QED
      BY <3>1, <3>2
  <2> QED
    BY <1>0, <1>t, <2>1, <2>3, <2>4, <2>5 DEF RabbitInv, Rabbit!AckedIsHandled, Marked
<1>2. ASSUME NEW c \in Worker, NEW d \in Rabbit(s)!Deliver1, Rabbit(s)!Take(c, d) PROVE RabbitInv(s)'
  <2>1. /\ rabbitPc[c] = "select" /\ d \in buffer[c]
        /\ buffer' = [buffer EXCEPT ![c] = @ \ {d}]
        /\ rabbitCurrent' = [rabbitCurrent EXCEPT ![c] = {d}]
        /\ rabbitPc' = [rabbitPc EXCEPT ![c] = "handle"]
        /\ UNCHANGED <<ready, redelivered, unsettled, acked, rejected, open, rabbitHandled, requeues>>
    BY <1>2 DEF Rabbit!Take, Rabbit!broker, Rabbit!history
  <2>2. RabbitTyped(s)'
    BY <1>0, <2>1
  <2>3. ASSUME NEW e \in Worker PROVE Fresh(e)'
    <3>1. CASE e # c
      BY <1>0, <2>1, <3>1 DEF Fresh, Held
    <3>2. CASE e = c
      <4>1. /\ rabbitCurrent[c] = {} /\ rabbitCurrent'[c] = {d} /\ buffer'[c] = buffer[c] \ {d}
            /\ rabbitPc'[c] = "handle"
        BY <1>0, <2>1 DEF Fresh
      <4>2. Held(c)' = Held(c)
        BY <2>1, <4>1 DEF Held
      <4> QED
        BY <1>0, <2>1, <3>2, <4>1, <4>2 DEF Fresh
    <3> QED
      BY <3>1, <3>2
  <2> QED
    BY <1>0, <1>t, <2>1, <2>2, <2>3 DEF RabbitInv, Rabbit!AckedIsHandled, Marked, Apart
<1>3. ASSUME NEW c \in Worker, NEW d \in Rabbit(s)!Deliver1, NEW ending \in Rabbit(s)!Endings,
             Rabbit(s)!Handle(c, d, ending)
      PROVE  RabbitInv(s)'
  <2> DEFINE m == d.msg
  <2>1. /\ d \in rabbitCurrent[c] /\ m \in Message
        /\ rabbitHandled' = IF ending = "success" THEN rabbitHandled \union {m} ELSE rabbitHandled
        /\ rabbitCurrent' = [rabbitCurrent EXCEPT ![c] = {}]
        /\ rabbitPc' = [rabbitPc EXCEPT ![c] = "select"]
        /\ UNCHANGED <<open, buffer>>
    BY <1>3 DEF Rabbit!Handle, Rabbit!Deliver1
  <2>2. rabbitCurrent'[c] = {} /\ rabbitPc'[c] = "select"
    BY <1>0, <2>1
  \* What the settlement does at the broker, over an open channel and over a closed one.
  <2>3. \/ UNCHANGED <<ready, redelivered, unsettled, acked, rejected, requeues>>
        \/ /\ open[c] /\ Rabbit(s)!Acknowledge(Delivery, ending)
           /\ unsettled' = [unsettled EXCEPT ![c] = @ \ {m}] /\ acked' = acked \union {m}
           /\ UNCHANGED <<ready, redelivered, rejected, requeues>>
        \/ /\ open[c] /\ ~d.redelivered
           /\ unsettled' = [unsettled EXCEPT ![c] = @ \ {m}]
           /\ ready' = ready \union {m} /\ redelivered' = redelivered \union {m}
           /\ requeues' = [requeues EXCEPT ![m] = Rabbit(s)!UpTo2(@)]
           /\ UNCHANGED <<acked, rejected>>
        \/ /\ open[c]
           /\ unsettled' = [unsettled EXCEPT ![c] = @ \ {m}] /\ rejected' = rejected \union {m}
           /\ UNCHANGED <<ready, redelivered, acked, requeues>>
    BY <1>3 DEF Rabbit!Handle, Rabbit!Ack, Rabbit!Nack, Rabbit!Requeue, Rabbit!broker
  <2>4. CASE UNCHANGED <<ready, redelivered, unsettled, acked, rejected, requeues>> /\ ~open[c]
    <3>1. RabbitTyped(s)'
      BY <1>0, <2>1, <2>4
    <3>2. \A e \in Worker : Fresh(e)'
      BY <1>0, <2>1, <2>2, <2>4 DEF Fresh, Held
    <3> QED
      BY <1>0, <1>t, <2>1, <2>4, <3>1, <3>2 DEF RabbitInv, Rabbit!AckedIsHandled, Marked, Apart
  <2>5. CASE open[c] /\ unsettled' = [unsettled EXCEPT ![c] = @ \ {m}]
    <3>1. /\ m \in unsettled[c] /\ unsettled' \in [Worker -> SUBSET Message]
          /\ unsettled'[c] = unsettled[c] \ {m}
          /\ \A e \in Worker \ {c} : unsettled'[e] = unsettled[e] /\ m \notin unsettled[e]
      BY <1>0, <2>1, <2>5 DEF Fresh, Held, Apart
    <3>2. /\ \A n \in Message \ {m} : requeues'[n] = requeues[n]
          /\ requeues' \in [Message -> 0..2]
          /\ requeues'[m] <= 1 /\ (requeues'[m] = 1 => m \in redelivered')
      <4>1. CASE requeues' = requeues
        BY <1>0, <2>1, <2>3, <4>1 DEF Marked
      <4>2. CASE ~d.redelivered /\ requeues' = [requeues EXCEPT ![m] = Rabbit(s)!UpTo2(@)] /\ m \in redelivered'
        <5>1. requeues[m] = 0
          BY <1>0, <2>1, <2>5, <4>2 DEF Fresh, Held
        <5> QED
          BY <1>0, <2>1, <4>2, <5>1 DEF Rabbit!UpTo2
      <4> QED
        BY <2>3, <4>1, <4>2
    <3>3. /\ redelivered \subseteq redelivered' /\ redelivered' \subseteq Message
          /\ ready' \subseteq Message /\ ready' \subseteq ready \union {m}
          /\ acked' \subseteq Message /\ rejected' \subseteq Message
      BY <1>0, <2>1, <2>3
    <3>4. Rabbit(s)!AckedIsHandled'
      <4>1. acked' = acked \/ (acked' = acked \union {m} /\ Rabbit(s)!Acknowledge(Delivery, ending))
        BY <2>3
      <4>2. Rabbit(s)!Acknowledge(Delivery, ending) =>
              m \in rabbitHandled' \/ Rabbit(s)!Waived(Delivery, m \in Unmatched)
        BY <1>3, <2>1 DEF Rabbit!Handle, Rabbit!Acknowledge, Rabbit!Waived, Rabbit!EndingsOf
      <4> QED
        BY <1>0, <2>1, <4>1, <4>2 DEF Rabbit!AckedIsHandled
    <3>5. RabbitTyped(s)'
      BY <1>0, <2>1, <3>1, <3>2, <3>3
    <3>6. Apart'
      BY <1>0, <3>1, <3>3 DEF Apart
    <3>7. Marked'
      BY <1>0, <3>2, <3>3 DEF Marked
    <3>8. ASSUME NEW e \in Worker PROVE Fresh(e)'
      <4>1. CASE e # c
        <5>1. open[e] => \A held \in Held(e) : held.msg \in Message \ {m}
          BY <1>0, <3>1, <4>1 DEF Fresh
        <5> QED
          BY <1>0, <2>1, <3>1, <3>2, <4>1, <5>1 DEF Fresh, Held
      <4>2. CASE e = c
        <5>1. \A held \in buffer[c] : held \in Held(c) /\ held.msg \in Message \ {m}
          BY <1>0, <2>1, <2>5 DEF Fresh, Held
        <5> QED
          BY <1>0, <2>1, <2>2, <2>5, <3>1, <3>2, <4>2, <5>1 DEF Fresh, Held
      <4> QED
        BY <4>1, <4>2
    <3> QED
      BY <1>t, <3>4, <3>5, <3>6, <3>7, <3>8 DEF RabbitInv
  <2> QED
    BY <1>3, <2>3, <2>4, <2>5 DEF Rabbit!Handle, Rabbit!Ack, Rabbit!Nack
<1>4. ASSUME NEW c \in Worker, Rabbit(s)!Drop(c) PROVE RabbitInv(s)'
  <2>1. /\ open' = [open EXCEPT ![c] = FALSE] /\ ready' = ready \union unsettled[c]
        /\ redelivered' = redelivered \union unsettled[c]
        /\ unsettled' = [unsettled EXCEPT ![c] = {}]
        /\ UNCHANGED <<acked, rejected, rabbitPc, buffer, rabbitCurrent, rabbitHandled, requeues>>
    BY <1>4 DEF Rabbit!Drop, Rabbit!history
  <2>2. RabbitTyped(s)'
    BY <1>0, <2>1
  <2>3. /\ open'[c] = FALSE /\ unsettled'[c] = {}
        /\ \A e \in Worker \ {c} : open'[e] = open[e] /\ unsettled'[e] = unsettled[e]
    BY <1>0, <2>1
  <2>4. Apart'
    BY <1>0, <2>1, <2>3 DEF Apart
  <2>5. \A e \in Worker : Fresh(e)'
    BY <1>0, <2>1, <2>3 DEF Fresh, Held
  <2> QED
    BY <1>0, <1>t, <2>1, <2>2, <2>4, <2>5 DEF RabbitInv, Rabbit!AckedIsHandled, Marked
<1>5. ASSUME NEW c \in Worker, Rabbit(s)!Return(c) PROVE RabbitInv(s)'
  <2>1. /\ rabbitPc[c] = "select" /\ rabbitPc' = [rabbitPc EXCEPT ![c] = "returned"]
        /\ UNCHANGED <<ready, redelivered, unsettled, acked, rejected, open, buffer, rabbitCurrent,
                       rabbitHandled, requeues>>
    BY <1>5 DEF Rabbit!Return, Rabbit!broker, Rabbit!history
  <2>2. RabbitTyped(s)' /\ \A e \in Worker : Fresh(e)'
    BY <1>0, <2>1 DEF Fresh, Held
  <2> QED
    BY <1>0, <1>t, <2>1, <2>2 DEF RabbitInv, Rabbit!AckedIsHandled, Marked, Apart
<1>6. ASSUME NEW c \in Worker, Rabbit(s)!Reopen(c) PROVE RabbitInv(s)'
  <2>1. /\ rabbitPc[c] = "returned" /\ rabbitPc' = [rabbitPc EXCEPT ![c] = "select"]
        /\ open' = [open EXCEPT ![c] = TRUE] /\ buffer' = [buffer EXCEPT ![c] = {}]
        /\ UNCHANGED <<ready, redelivered, unsettled, acked, rejected, rabbitCurrent, rabbitHandled, requeues>>
    BY <1>6 DEF Rabbit!Reopen, Rabbit!broker, Rabbit!history
  <2>2. RabbitTyped(s)'
    BY <1>0, <2>1
  <2>3. ASSUME NEW e \in Worker PROVE Fresh(e)'
    <3>1. CASE e # c
      BY <1>0, <2>1, <3>1 DEF Fresh, Held
    <3>2. CASE e = c
      <4>1. rabbitCurrent'[c] = {} /\ buffer'[c] = {}
        BY <1>0, <2>1 DEF Fresh
      <4> QED
        BY <3>2, <4>1 DEF Fresh, Held
    <3> QED
      BY <3>1, <3>2
  <2> QED
    BY <1>0, <1>t, <2>1, <2>2, <2>3 DEF RabbitInv, Rabbit!AckedIsHandled, Marked, Apart
<1> QED
  BY <1>1, <1>2, <1>3, <1>4, <1>5, <1>6 DEF Rabbit!Next, Rabbit!Step

LEMMA RabbitSafe ==
  ASSUME NEW s \in Setups, RabbitInv(s)
  PROVE  Rabbit(s)!RequeuedOnce
BY DEF RabbitInv, Marked, Rabbit!RequeuedOnce

-----------------------------------------------------------------------------
(***************************************************************************)
(* The composition: the consumer that runs keeps its own invariant.        *)
(***************************************************************************)
QueuesInv(s) ==
  /\ s.consumer = "sqs" => SQSInv
  /\ s.consumer = "service bus" => BusInv(s)
  /\ s.consumer = "rabbit" => RabbitInv(s)

RunningInv == \E s \in Setups : setup = s /\ QueuesInv(s)

LEMMA QueuesStart == MCInit => RunningInv
<1> SUFFICES ASSUME NEW s \in Setups, setup = s, Init, Bus(s)!Init, Rabbit(s)!Init
             PROVE  RunningInv
  BY DEF MCInit
<1>1. QueuesInv(s)
  BY SQSStarts, BusStarts, RabbitStarts DEF QueuesInv
<1> QED
  BY <1>1 DEF RunningInv, QueuesInv

LEMMA QueuesInductive ==
  ASSUME NEW s \in Setups, setup = s, [MCNext]_all, QueuesInv(s)
  PROVE  setup' = s /\ QueuesInv(s)'
<1>0. setup' = s
  BY DEF MCNext, OneOf, all
<1>1. CASE s.consumer = "sqs"
  <2>1. SQSInv /\ [Next]_vars
    BY <1>1 DEF QueuesInv, MCNext, OneOf, all
  <2> QED
    BY <1>0, <1>1, <2>1, SQSInductive DEF QueuesInv
<1>2. CASE s.consumer = "service bus"
  <2>1. BusInv(s) /\ s \in Of("service bus")
    BY <1>2 DEF QueuesInv, Of
  <2>2. CASE Bus(s)!Next
    BY <1>0, <1>2, <2>1, <2>2, BusInductive DEF QueuesInv
  <2>3. CASE UNCHANGED all
    <3>1. BusInv(s)'
      BY <2>1, <2>3 DEF all, vars, queue, BusInv, Receivable, Settling, Bus!TypeOK, Bus!QueueTypeOK,
           Bus!CompletedIsHandled, Bus!QuarantineIsEarned
    <3> QED
      BY <1>0, <1>2, <3>1 DEF QueuesInv
  <2> QED
    BY <1>2, <2>2, <2>3 DEF MCNext, OneOf
<1>3. CASE s.consumer = "rabbit"
  <2>1. RabbitInv(s) /\ s \in Of("rabbit")
    BY <1>3 DEF QueuesInv, Of
  <2>2. CASE Rabbit(s)!Next
    BY <1>0, <1>3, <2>1, <2>2, RabbitInductive DEF QueuesInv
  <2>3. CASE UNCHANGED all
    <3>1. RabbitInv(s)'
      BY <2>1, <2>3 DEF all, rabbitVars, RabbitInv, Rabbit!TypeOK, Rabbit!AckedIsHandled, Apart, Marked,
           Fresh, Held
    <3> QED
      BY <1>0, <1>3, <3>1 DEF QueuesInv
  <2> QED
    BY <1>3, <2>2, <2>3 DEF MCNext, OneOf
<1> QED
  BY <1>0, <1>1, <1>2, <1>3 DEF QueuesInv

LEMMA QueuesStaySafe == MCSpec => []RunningInv
<1>1. RunningInv /\ [MCNext]_all => RunningInv'
  <2> SUFFICES ASSUME NEW s \in Setups, setup = s, QueuesInv(s), [MCNext]_all
               PROVE  RunningInv'
    BY DEF RunningInv
  <2>1. setup' = s /\ QueuesInv(s)'
    BY QueuesInductive
  <2> QED
    BY <2>1 DEF RunningInv, QueuesInv
<1> QED
  BY QueuesStart, <1>1, PTL DEF MCSpec

\* Whatever leases, locks and channels do, whoever crashes or stops and whichever answer is
\* lost, no message leaves a queue unhandled and no Run returns owing a settlement.
THEOREM QueuesLoseNothing == MCSpec => []NothingIsLost
<1>1. RunningInv => NothingIsLost
  <2> SUFFICES ASSUME NEW s \in Setups, setup = s, QueuesInv(s) PROVE NothingIsLost
    BY DEF RunningInv
  <2>1. s.consumer = "sqs" => TypeOK /\ DeletedIsHandled /\ ShutdownOwesNothing
    BY SQSSafe DEF QueuesInv
  <2>2. s.consumer = "service bus" =>
          Bus(s)!TypeOK /\ Bus(s)!CompletedIsHandled /\ Bus(s)!ShutdownOwesNothing
    BY BusSafe DEF QueuesInv, BusInv
  <2>3. s.consumer = "rabbit" => Rabbit(s)!TypeOK /\ Rabbit(s)!AckedIsHandled
    BY DEF QueuesInv, RabbitInv
  <2> QED
    BY <2>1, <2>2, <2>3 DEF NothingIsLost, MCTypeOK, GoneIsHandled, NothingOwedOnReturn, Of
<1> QED
  BY QueuesStaySafe, <1>1, PTL

\* A Service Bus message is dead-lettered by its delivery count or, where that is configured,
\* because it failed; a RabbitMQ message is requeued once at most, by all consumers together.
THEOREM QueuesSetAsideRightly == MCSpec => []SetAsideIsEarned
<1>1. RunningInv => SetAsideIsEarned
  <2> SUFFICES ASSUME NEW s \in Setups, setup = s, QueuesInv(s) PROVE SetAsideIsEarned
    BY DEF RunningInv
  <2>1. s.consumer = "service bus" => Bus(s)!QuarantineIsEarned
    BY DEF QueuesInv, BusInv
  <2>2. s.consumer = "rabbit" => Rabbit(s)!RequeuedOnce
    BY RabbitSafe DEF QueuesInv
  <2> QED
    BY <2>1, <2>2 DEF SetAsideIsEarned, Of
<1> QED
  BY QueuesStaySafe, <1>1, PTL
=============================================================================
