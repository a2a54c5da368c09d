\* The attempts end, and so does the batch.
SPECIFICATION MCSpec
CONSTANTS
  a1 = a1
  a2 = a2
  a3 = a3
  t1 = t1
  t2 = t2
  Attempt <- MCAttempt
  Burns = 2
  Tx <- MCTx
  None = None
  MaxLogs = 3
SYMMETRY Symmetry
INVARIANTS
  AcceptedMeansStaged
  ProcessedAtMostOnce
  SuppressedWasAnnounced
  CountsAddUp
  HeadroomServesFallback
PROPERTIES
  RenderedIsKept
CHECK_DEADLOCK FALSE
