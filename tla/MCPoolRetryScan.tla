-------------------------- MODULE MCPoolRetryScan ---------------------------
(* Model-checking instance of PoolRetryScan: two overlapping runs.         *)
EXTENDS PoolRetryScan
CONSTANTS r1, r2
=============================================================================
