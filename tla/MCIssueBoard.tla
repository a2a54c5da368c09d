---------------------------- MODULE MCIssueBoard ----------------------------
(***************************************************************************)
(* Three commands of two agents on one issue, any of the three each.       *)
(***************************************************************************)
EXTENDS IssueBoard, TLC

Symmetry == Permutations(Command) \cup Permutations(Token)
=============================================================================
