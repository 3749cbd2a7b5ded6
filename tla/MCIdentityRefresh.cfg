SPECIFICATION Spec
CONSTANTS
  w1 = w1
  w2 = w2
  u1 = u1
  u2 = u2
  u3 = u3
  t1 = t1
  t2 = t2
  t3 = t3
  Workers = {w1, w2}
  Users = {u1, u2}
  Granted = {"owner", "admin"}
  Payloads <- MCPayloads
  Tokens = {t1, t2, t3}
SYMMETRY Symmetry
INVARIANT RefreshIsSingleUse
CHECK_DEADLOCK FALSE
