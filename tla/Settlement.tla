----------------------------- MODULE Settlement -----------------------------
(***************************************************************************)
(* How a one-way binding decides whether its transport may forget a        *)
(* message (envelope/settlement.go, envelope/dispatch.go).  Every consumer *)
(* of the project dispatches through these operators.                      *)
(***************************************************************************)
EXTENDS Integers

CONSTANTS
  Delivery,              \* Settlement.Delivery
  IgnoreUnmatchedTopics  \* Settlement.IgnoreUnmatchedTopics

Deliveries == {"BindingDefault", "AtLeastOnce", "AtMostOnce"}

ASSUME SettlementAssumption ==
  /\ Delivery \in Deliveries
  /\ IgnoreUnmatchedTopics \in BOOLEAN

\* How one invocation ends, as dispatch reports it: "success" is a result with
\* isSuccessful; "unmatched" the router's answer to a topic nobody serves;
\* "failure" any other failed result, no result, or an error of the pipeline.
Endings == {"success", "failure", "unmatched"}

\* A message whose topic has no handler always ends unmatched.
EndingsOf(unmatched) == IF unmatched THEN {"unmatched"} ELSE {"success", "failure"}

\* Wrong variant: IgnoreUnmatchedTopics is not looked at.
AcknowledgeNeverUnmatched(delivery, ending) ==
  ending = "success" \/ delivery = "AtMostOnce"

\* Outcome.Acknowledge: a success, or a failure the settlement accepts.
Acknowledge(delivery, ending) ==
  \/ ending = "success"
  \/ delivery = "AtMostOnce"
  \/ IgnoreUnmatchedTopics /\ ending = "unmatched"

\* A message the settlement lets go of without its handler having succeeded.
Waived(delivery, unmatched) ==
  delivery = "AtMostOnce" \/ (IgnoreUnmatchedTopics /\ unmatched)
=============================================================================
