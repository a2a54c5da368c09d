\* One worker at a time, the constants of the code in units of 5 s:
\* LEASE_MS 60 s, GCS_REQUEST_TIMEOUT_MS 10 s, abort signal 45 s.
CONSTANTS
  Worker = {w1}
  Lease = 12
  CallTimeout = 2
  SendTimeout = 9
  MaxTime = 30
  MaxOrphans = 1
SPECIFICATION Spec
INVARIANTS SendEndsUnderLease
CHECK_DEADLOCK FALSE
