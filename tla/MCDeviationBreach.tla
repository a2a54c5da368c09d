------------------------- MODULE MCDeviationBreach --------------------------
(* Model-checking instance of DeviationBreach: a pool that rebalances on   *)
(* either side, with thresholds of 98 and 105 bps, or not at all.          *)
EXTENDS DeviationBreach
SideSets == {{0}, {98, 105}}
=============================================================================
