--------------------------- MODULE OrderedStream ----------------------------
(***************************************************************************)
(* What every ordered-stream consumer promises (one partition, shard or    *)
(* feed): messages are settled in stream order, a batch at a time, and the *)
(* durable position a restarted consumer resumes from only ever covers     *)
(* settled messages.  A settled message may be dispatched again.           *)
(***************************************************************************)
EXTENDS Integers

CONSTANTS
  Last,   \* the stream's positions are 1..Last
  Empty   \* positions that hold no message

VARIABLES
  settled,  \* positions settled at least once, and the empty ones
  position  \* the durable position: everything up to it is done

vars == <<settled, position>>

Init ==
  /\ settled = Empty
  /\ position = 0

\* The messages first..last are settled, when all before them are.
Settle(first, last) ==
  /\ 1..(first - 1) \subseteq settled
  /\ settled' = settled \union (first..last)
  /\ UNCHANGED position

\* The durable position moves, over settled messages only.
Advance(p) ==
  /\ 1..p \subseteq settled
  /\ position' = p
  /\ UNCHANGED settled

Next ==
  \/ \E first, last \in 1..Last : Settle(first, last)
  \/ \E p \in 0..Last : Advance(p)

Spec == Init /\ [][Next]_vars
=============================================================================
