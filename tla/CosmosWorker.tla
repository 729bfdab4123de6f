---------------------------- MODULE CosmosWorker ----------------------------
(***************************************************************************)
(* The Cosmos DB change-feed worker (azurecosmos/worker.go): Run polls a   *)
(* page from its continuation token, dispatches the page's documents as    *)
(* one batch, and moves the token only over an acknowledged, checkpointed  *)
(* page or an empty one.  The durable token belongs to the application.    *)
(*                                                                         *)
(* The feed is the positions 1..Last; a token is a position.  Positions in *)
(* Gaps carry no document, so a page over gaps only is empty.              *)
(***************************************************************************)
EXTENDS Settlement, FiniteSets

CONSTANTS
  Last,           \* bound: length of the feed
  Gaps,           \* positions without a document
  MaxBatchSize,   \* documents one ReadNext may return
  HasTopic,       \* whether a handler serves Worker.Topic
  HasCheckpoint   \* whether the Checkpoint hook is set

VARIABLES
  pc,            \* where Run is
  cancelled,     \* ctx.Err() # nil
  start,         \* Worker.StartContinuation
  continuation,  \* Run's token
  page,          \* page.Continuation of the page in hand
  durable,       \* the token the application has stored
  settled,       \* history: documents in an acknowledged batch
  handled        \* outside world: documents in a batch whose handler succeeded

vars == <<pc, cancelled, start, continuation, page, durable, settled, handled>>

\* Wrong variant: only the page's last document makes it into the batch.
DocumentsLastOnly(from, to) == {to} \ (Gaps \union {from})

\* The documents a page from one token to another carries.
Documents(from, to) == (from + 1)..to \ Gaps

Init ==
  /\ pc = "poll"
  /\ cancelled = FALSE
  /\ start = 0
  /\ continuation = 0
  /\ page = 0
  /\ durable = 0
  /\ settled = {}
  /\ handled = {}

\* Shutdown is requested, at any time.
Cancel ==
  /\ ~cancelled
  /\ pc # "returned"
  /\ cancelled' = TRUE
  /\ UNCHANGED <<pc, start, continuation, page, durable, settled, handled>>

\* Run looks at its context between two polls, and before it backs off.
Return ==
  /\ pc \in {"poll", "backoff"}
  /\ cancelled
  /\ pc' = "returned"
  /\ UNCHANGED <<cancelled, start, continuation, page, durable, settled, handled>>

\* ReadNext returned documents: the batch is built.
ReadNext(to) ==
  /\ pc = "poll"
  /\ to \in continuation..Last
  /\ Documents(continuation, to) # {}
  /\ Cardinality(Documents(continuation, to)) <= MaxBatchSize
  /\ page' = to
  /\ pc' = "dispatch"
  /\ UNCHANGED <<cancelled, start, continuation, durable, settled, handled>>

\* Wrong variant: an empty page moves the token to the end of the feed.
ReadEmptyJumps(to) ==
  /\ pc = "poll"
  /\ to \in continuation..Last
  /\ Documents(continuation, to) = {}
  /\ continuation' = Last
  /\ pc' = "backoff"
  /\ UNCHANGED <<cancelled, start, page, durable, settled, handled>>

\* Caught up: the reader's token is adopted, not checkpointed.
ReadEmpty(to) ==
  /\ pc = "poll"
  /\ to \in continuation..Last
  /\ Documents(continuation, to) = {}
  /\ continuation' = to
  /\ pc' = "backoff"
  /\ UNCHANGED <<cancelled, start, page, durable, settled, handled>>

\* ReadNext failed: same token, after a pause.
ReadError ==
  /\ pc = "poll"
  /\ pc' = "backoff"
  /\ UNCHANGED <<cancelled, start, continuation, page, durable, settled, handled>>

\* The whole page is one invocation.  Unless it is acknowledged the token stays
\* and the batch is read again; without a hook the token moves on at once.
Dispatch(ending) ==
  /\ pc = "dispatch"
  /\ ending \in EndingsOf(~HasTopic)
  /\ handled' = IF ending = "success"
                THEN handled \union Documents(continuation, page) ELSE handled
  /\ IF Acknowledge(Delivery, ending)
     THEN /\ settled' = settled \union Documents(continuation, page)
          /\ pc' = IF HasCheckpoint THEN "checkpoint" ELSE "poll"
          /\ continuation' = IF HasCheckpoint THEN continuation ELSE page
     ELSE /\ pc' = "backoff"
          /\ UNCHANGED <<settled, continuation>>
  /\ UNCHANGED <<cancelled, start, page, durable>>

\* Wrong variant: the position after the page is stored.
CheckpointOneTooFar ==
  /\ pc = "checkpoint"
  /\ durable' = page + 1
  /\ continuation' = page
  /\ pc' = "poll"
  /\ UNCHANGED <<cancelled, start, page, settled, handled>>

\* Wrong variant: the token stored is the one the page was read from.
CheckpointOldToken ==
  /\ pc = "checkpoint"
  /\ durable' = continuation
  /\ continuation' = continuation
  /\ pc' = "poll"
  /\ UNCHANGED <<cancelled, start, page, settled, handled>>

\* The Checkpoint hook stores the page's token, on a detached context.
Checkpoint ==
  /\ pc = "checkpoint"
  /\ durable' = page
  /\ continuation' = page
  /\ pc' = "poll"
  /\ UNCHANGED <<cancelled, start, page, settled, handled>>

\* The hook returned an error, whether or not the token was stored: Run's token
\* stays and the batch is read again.
CheckpointError ==
  /\ pc = "checkpoint"
  /\ durable' \in {durable, page}
  /\ pc' = "backoff"
  /\ UNCHANGED <<cancelled, start, continuation, page, settled, handled>>

\* The pause before the next poll.
Backoff ==
  /\ pc = "backoff"
  /\ pc' = "poll"
  /\ UNCHANGED <<cancelled, start, continuation, page, durable, settled, handled>>

\* Run again on the same Worker: from the token it was built with.
Rerun ==
  /\ pc = "returned"
  /\ pc' = "poll"
  /\ cancelled' = FALSE
  /\ continuation' = start
  /\ UNCHANGED <<start, page, durable, settled, handled>>

\* The process dies; a new Worker is built with the stored token.
Restart ==
  /\ pc' = "poll"
  /\ cancelled' = FALSE
  /\ start' = durable
  /\ continuation' = durable
  /\ UNCHANGED <<page, durable, settled, handled>>

RunStep ==
  \/ Return \/ ReadError \/ Checkpoint \/ CheckpointError \/ Backoff
  \/ \E to \in 0..Last : ReadNext(to) \/ ReadEmpty(to)
  \/ \E ending \in Endings : Dispatch(ending)

Next == RunStep \/ Cancel \/ Rerun \/ Restart

Spec == Init /\ [][Next]_vars

\* Run keeps running and is run again; a read that gets somewhere, a handler
\* and a checkpoint tried again and again succeed in the end; and the worker is
\* not shut down or killed for ever.
Fairness ==
  /\ WF_vars(RunStep) /\ WF_vars(Rerun)
  /\ SF_vars(\E to \in 0..Last : to > continuation /\ (ReadNext(to) \/ ReadEmpty(to)))
  /\ SF_vars(\E ending \in Endings : Acknowledge(Delivery, ending) /\ Dispatch(ending))
  /\ SF_vars(Checkpoint)
  /\ <>[][~Cancel /\ ~Restart]_vars

FairSpec == Spec /\ Fairness

-----------------------------------------------------------------------------
\* The values each variable can hold.
TypeOK ==
  /\ pc \in {"poll", "dispatch", "checkpoint", "backoff", "returned"}
  /\ cancelled \in BOOLEAN
  /\ start \in 0..Last
  /\ continuation \in 0..Last
  /\ page \in 0..Last
  /\ durable \in 0..Last
  /\ settled \subseteq 1..Last
  /\ handled \subseteq 1..Last

\* "the durable position never advances past unhandled work", unless the
\* Settlement accepts the failure, though the token in hand, the one the
\* worker was built with and the stored one drift apart.
DurableCovers ==
  \A p \in Documents(0, durable) : p \in handled \/ Waived(Delivery, ~HasTopic)

\* The token in hand covers handled documents only, so that nothing is skipped
\* in a running worker either.
TokenCovers ==
  \A p \in Documents(0, continuation) : p \in handled \/ Waived(Delivery, ~HasTopic)

\* Every document is settled in the end.
EventuallySettled == <>(Documents(0, Last) \subseteq settled)

Stream == INSTANCE OrderedStream WITH
            Empty <- Gaps, settled <- settled \union Gaps, position <- durable

\* The worker is an ordered stream: whole pages are settled in feed order and
\* the stored token covers settled documents only.
ImplementsOrderedStream == Stream!Spec
=============================================================================
