SPECIFICATION Spec
CONSTANTS
  r1 = r1
  r2 = r2
  r3 = r3
  a1 = a1
  a2 = a2
  k1 = k1
  k2 = k2
  k3 = k3
  Requests = {r1, r2, r3}
  Admins = {a1, a2}
  Keys = {k1, k2, k3}
  Quotas = {1, 2}
  MaxTokens = 2
  MaxKeys = 1
  PoolSize = 2
SYMMETRY Symmetry
INVARIANTS
  TypeOK
  QuotaOvershootIsBounded
  KeyCountIsBounded
  ServedAlone
PROPERTY RevocationIsFinal
CHECK_DEADLOCK FALSE
