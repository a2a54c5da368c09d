\* The same instance, for a row that outlives its breach.
\* 100 bps is in breach of a threshold of 98 and within one of 105; 110 bps is in breach
\* of both, and critical for 98. A breach may run from the weekend into trading time.
CONSTANTS
  Diff = {100, 110}
  Sides <- SideSets
  Grace = 2
  Weekend = {1}
  Blocks = {1, 4}
  MaxRows = 2
SPECIFICATION Spec
INVARIANTS ClosedOnFallingEdge
CHECK_DEADLOCK FALSE
