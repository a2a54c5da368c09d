\* 100 bps is in breach of a threshold of 98 and within one of 105; 110 bps is in breach
\* of both, and critical for 98. A breach may run from the weekend into trading time.
\* The feed has two pools, and two blocks of at most one and three logs.
\* One log may be missing and one chain read twice.
SPECIFICATION MCSpec
CONSTANTS
  Diff = {100, 110}
  Sides <- SideSets
  Grace = 2
  Weekend = {1}
  Blocks = {1, 4}
  MaxRows = 2
  t1 = t1
  t2 = t2
  m1 = m1
  m2 = m2
  Transfer <- MCTransfer
  Manager <- MCManager
  Nothing = Nothing
  BackWalk = 8
  MaxMissing = 1
  MaxReplays = 1
  p1 = p1
  p2 = p2
  r1 = r1
  r2 = r2
  Pool = {p1, p2}
  Reporter = {r1, r2}
  NoRow = NoRow
  Expiry = {1, 2}
  Lengths <- MCLengths
INVARIANTS
  OpenRowIsAnchor
  TotalsMatchRows
  PeakCoversPrice
  CauseIsKnown
  CountedOnce
  RowIsOutcome
  OwnData
  ScratchDrained
  FeedFollowsChain
  NeverHalts
  MedianBlendedOnce
PROPERTIES
  EndIsAttributed
  MirrorKept
CHECK_DEADLOCK FALSE
