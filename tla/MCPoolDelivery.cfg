\* Two workers, lease longer than four calls, clock past two leases.
CONSTANTS
  Worker = {w1, w2}
  Lease = 5
  CallTimeout = 1
  SendTimeout = 2
  MaxTime = 7
  MaxOrphans = 1
SYMMETRY WorkerSymmetry
SPECIFICATION Spec
INVARIANTS LostClaimHadExpired
PROPERTIES KeepsPromise
CHECK_DEADLOCK FALSE
