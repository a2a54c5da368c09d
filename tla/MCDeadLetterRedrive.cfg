\* Two runs at the same time.
CONSTANTS
  r1 = r1
  r2 = r2
  l1 = l1
  l2 = l2
  Run = {r1, r2}
  Letter = {l1, l2}
  MaxPosts = 1
SPECIFICATION FairSpec
INVARIANTS NothingLost DoneWasPosted
PROPERTIES EveryLetterCleared
CHECK_DEADLOCK FALSE
