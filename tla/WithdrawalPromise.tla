-------------------------- MODULE WithdrawalPromise --------------------------
(***************************************************************************)
(* What the watched-LP alert promises of one candidate, whatever the       *)
(* stores, workers and Slack do: the candidate is announced or it is       *)
(* ignored, never both, and it is recorded as delivered only after it was  *)
(* announced.  How often Slack shows the post is not promised              *)
(* (at-least-once), so a second post is a stuttering step.                 *)
(***************************************************************************)
VARIABLES
  outcome,     \* what the audit record says: "open" until it is final
  announced    \* TRUE once Slack has accepted a post

vars == <<outcome, announced>>

TypeOK == outcome \in {"open", "delivered", "ignored"} /\ announced \in BOOLEAN

Init == outcome = "open" /\ announced = FALSE

Announce ==
  /\ outcome = "open" /\ ~announced
  /\ announced' = TRUE
  /\ UNCHANGED outcome

RecordDelivery ==
  /\ outcome = "open" /\ announced
  /\ outcome' = "delivered"
  /\ UNCHANGED announced

Ignore ==
  /\ outcome = "open" /\ ~announced
  /\ outcome' = "ignored"
  /\ UNCHANGED announced

Next == Announce \/ RecordDelivery \/ Ignore

Spec == Init /\ [][Next]_vars
=============================================================================
