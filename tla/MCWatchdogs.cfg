\* Two instances and the attempts of one batch; a venue polled every second cycle;
\* two overrides beside the weekly handover; a weekend of one minute, late enough to
\* follow an escalation, and the bridge's times in the order they have in the code.
CONSTANTS
  a1 = a1
  a2 = a2
  a3 = a3
  i1 = i1
  i2 = i2
  Attempt = {a1, a2, a3}
  NoNonce = NoNonce
  NonceOf <- MCNonceOf
  Instance = {i1, i2}
  Kind <- Batch
  Window = 1
  CacheSize = 1
  v1 = v1
  v2 = v2
  s1 = s1
  s2 = s2
  s3 = s3
  None = None
  Version = {v1, v2}
  Supported <- MCSupported
  RefSize = {1, 2}
  Sequence <- MCSequence
  Lag <- MCLag
  Validity = {0, 1}
  Converts = TRUE
  Interval = 2
  Stale = 2
  Skew = 1
  MaxIdentities = 2
  BlindLimit = 2
  AbsentLimit = 2
  MaxCycles = 5
  u1 = u1
  u2 = u2
  u3 = u3
  User = {u1, u2, u3}
  Nobody = Nobody
  AnnounceOnFirstRun = TRUE
  MaxChanges = 2
  Unseen = Unseen
  Untold = Untold
  WarningPending = 1
  CriticalThreshold = 2
  CriticalPending = 0
  TransitionActive = 1
  Weekend = {5}
  IndexLag = 1
  MaxMinute = 7
SYMMETRY Symmetry
SPECIFICATION MCSpec
INVARIANTS OkMeansTried OneSenderPerNonce OneSuccessPerIdentity ShownIsHonest BlindCountsSlots EscalatedOnce
PROPERTIES OncePerWindow GoneStaysGone HandoverShownOnce RecoveryKeepsContext
CHECK_DEADLOCK FALSE
