------------------------------ MODULE PushFeed ------------------------------
(***************************************************************************)
(* The trace feed's exporter (mesh/push.go): invocations Export events     *)
(* into a bounded channel without ever blocking, one goroutine batches and *)
(* sends them, and Close stops that goroutine after it has drained the     *)
(* channel.  Events are numbered in the order they enter the channel, so   *)
(* the feed's data is the sequence of numbers.                             *)
(***************************************************************************)
EXTENDS Integers, Sequences

CONSTANTS
  Closer,      \* goroutines that call Close, perhaps more than one
  BatchSize,   \* PushExporterOptions.BatchSize
  BufferSize,  \* PushExporterOptions.BufferSize, cap(queue)
  MaxEvents    \* bound: how many events enter the channel

ASSUME PushFeedAssumption ==
  /\ BatchSize \in Nat \ {0}
  /\ BufferSize \in Nat \ {0}
  /\ MaxEvents \in Nat

VARIABLES
  queue,     \* the channel's contents
  batch,     \* the loop's batch
  sent,      \* the events of every batch handed to the Sender, in order
  entered,   \* how many events have entered the channel
  loop,      \* where the goroutine is
  stop,      \* whether the stop channel is closed
  closing,   \* where each caller of Close is
  promised   \* how many events had entered when stop was closed

vars == <<queue, batch, sent, entered, loop, stop, closing, promised>>

Init ==
  /\ queue = <<>>
  /\ batch = <<>>
  /\ sent = <<>>
  /\ entered = 0
  /\ loop = "select"
  /\ stop = FALSE
  /\ closing = [c \in Closer |-> "open"]
  /\ promised = 0

\* Export, with room in the channel: before, during and after Close.
Export ==
  /\ entered < MaxEvents
  /\ Len(queue) < BufferSize
  /\ entered' = entered + 1
  /\ queue' = Append(queue, entered + 1)
  /\ UNCHANGED <<batch, sent, loop, stop, closing, promised>>

\* Export, channel full: the event is dropped and nothing else happens.
ExportDrops ==
  /\ Len(queue) >= BufferSize
  /\ UNCHANGED vars

\* The loop's select, an event: a full batch is flushed at once.
Receive ==
  /\ loop = "select"
  /\ queue # <<>>
  /\ queue' = Tail(queue)
  /\ batch' = Append(batch, Head(queue))
  /\ loop' = IF Len(batch') >= BatchSize THEN "flush" ELSE loop
  /\ UNCHANGED <<sent, entered, stop, closing, promised>>

\* Wrong variant: a batch is sent and not emptied.
FlushKeeps ==
  /\ loop = "flush"
  /\ sent' = sent \o batch
  /\ loop' = "select"
  /\ UNCHANGED <<queue, batch, entered, stop, closing, promised>>

\* flush within the loop.  Its Send takes its time, so producers go on
\* meanwhile; whether the batch arrives is not the feed's concern.
Flush ==
  /\ loop = "flush"
  /\ sent' = sent \o batch
  /\ batch' = <<>>
  /\ loop' = "select"
  /\ UNCHANGED <<queue, entered, stop, closing, promised>>

\* The loop's select, the ticker: flush does nothing with an empty batch.
Tick ==
  /\ loop = "select"
  /\ batch # <<>>
  /\ loop' = "flush"
  /\ UNCHANGED <<queue, batch, sent, entered, stop, closing, promised>>

\* Wrong variant: the last flush does not drain the channel first.
StopWithoutDrain ==
  /\ loop = "select" /\ stop
  /\ loop' = "last"
  /\ UNCHANGED <<queue, batch, sent, entered, stop, closing, promised>>

\* The loop's select, the stop channel.
StopLoop ==
  /\ loop = "select" /\ stop
  /\ loop' = "drain"
  /\ UNCHANGED <<queue, batch, sent, entered, stop, closing, promised>>

\* drainQueue, an event.
Drain ==
  /\ loop = "drain"
  /\ queue # <<>>
  /\ queue' = Tail(queue)
  /\ batch' = Append(batch, Head(queue))
  /\ UNCHANGED <<sent, entered, loop, stop, closing, promised>>

\* drainQueue's default: the channel was seen empty.
Drained ==
  /\ loop = "drain"
  /\ queue = <<>>
  /\ loop' = "last"
  /\ UNCHANGED <<queue, batch, sent, entered, stop, closing, promised>>

\* Wrong variant: with nothing left to send, done is not closed.
LastFlushSkipped ==
  /\ loop = "last"
  /\ batch # <<>>
  /\ sent' = sent \o batch
  /\ batch' = <<>>
  /\ loop' = "done"
  /\ UNCHANGED <<queue, entered, stop, closing, promised>>

\* The last flush, of a batch of any size, and close(done).
LastFlush ==
  /\ loop = "last"
  /\ sent' = sent \o batch
  /\ batch' = <<>>
  /\ loop' = "done"
  /\ UNCHANGED <<queue, entered, stop, closing, promised>>

\* Close: the first caller closes stop, every caller then waits for done.
Close(c) ==
  /\ closing[c] = "open"
  /\ closing' = [closing EXCEPT ![c] = "waiting"]
  /\ stop' = TRUE
  /\ promised' = IF stop THEN promised ELSE entered
  /\ UNCHANGED <<queue, batch, sent, entered, loop>>

\* Close returns: done is closed.
Closed(c) ==
  /\ closing[c] = "waiting"
  /\ loop = "done"
  /\ closing' = [closing EXCEPT ![c] = "closed"]
  /\ UNCHANGED <<queue, batch, sent, entered, loop, stop, promised>>

Loop == Receive \/ Flush \/ Tick \/ StopLoop \/ Drain \/ Drained \/ LastFlush

Next ==
  \/ Export \/ ExportDrops \/ Loop
  \/ \E c \in Closer : Close(c) \/ Closed(c)

Spec == Init /\ [][Next]_vars

\* The goroutine runs on, and a select in which stop stays ready takes it in
\* the end; a caller of Close runs on once done is closed.
Fairness ==
  /\ WF_vars(Loop)
  /\ SF_vars(StopLoop)
  /\ \A c \in Closer : WF_vars(Closed(c))

FairSpec == Spec /\ Fairness

-----------------------------------------------------------------------------
\* The values each variable can hold; the channel and a batch keep to their
\* sizes, except the last batch, which is what the channel still held.
TypeOK ==
  /\ queue \in Seq(Nat) /\ Len(queue) <= BufferSize
  /\ batch \in Seq(Nat)
  /\ loop \in {"select", "flush"} => Len(batch) <= BatchSize
  /\ loop = "select" => Len(batch) < BatchSize
  /\ sent \in Seq(Nat)
  /\ entered \in Nat
  /\ loop \in {"select", "flush", "drain", "last", "done"}
  /\ stop \in BOOLEAN
  /\ closing \in [Closer -> {"open", "waiting", "closed"}]
  /\ promised \in Nat

\* "Close flushes everything already queued": when any caller of Close returns,
\* the events that were in before the first Close have been sent, each once and
\* in the order they came.
ClosedMeansSent ==
  \A c \in Closer : closing[c] = "closed" =>
    /\ Len(sent) >= promised
    /\ \A k \in 1..promised : sent[k] = k

\* Close returns, with producers that go on exporting meanwhile.
CloseReturns ==
  \A c \in Closer : closing[c] = "waiting" ~> closing[c] = "closed"
=============================================================================
