\* A body that is no QuickNode payload.
CONSTANTS
  a1 = a1
  a2 = a2
  a3 = a3
  i1 = i1
  i2 = i2
  Attempt = {a1, a2}
  NoNonce = NoNonce
  NonceOf <- MCNonceOf
  Instance = {i1, i2}
  Kind <- Batch
  Window = 1
  CacheSize = 1
SPECIFICATION Spec
INVARIANTS MalformedKeepsNonce
