--------------------------- MODULE MCPoolDelivery ---------------------------
(* Model-checking instance of PoolDelivery.  Times are in units of 5 s for *)
(* the exact constants of the code; the small instance keeps their order,  *)
(* four calls below the lease, and not their scale.                        *)
EXTENDS PoolDelivery, TLC

WorkerSymmetry == Permutations(Worker)
=============================================================================
