------------------------ MODULE MCDeadLetterRedrive ------------------------
(* Finite instance of DeadLetterRedrive: two overlapping runs.             *)
EXTENDS DeadLetterRedrive
CONSTANTS r1, r2, l1, l2
=============================================================================
