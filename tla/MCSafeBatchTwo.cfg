\* Two transactions in one batch.
CONSTANTS
  t1 = t1
  t2 = t2
  Tx = {t1, t2}
  None = None
  MaxLogs = 3
SPECIFICATION BatchSpec
INVARIANTS FailedSafeHasFallback
CHECK_DEADLOCK FALSE
