SPECIFICATION Spec
CONSTANTS
  Command = {c1, c2, c3}
  Token = {t1, t2}
  None = None
  Budget = 3
SYMMETRY Symmetry
CHECK_DEADLOCK FALSE
INVARIANTS InsideHoldsLock StaleHasCause
PROPERTIES KeepsIssuePromise OwnershipIsOwners
