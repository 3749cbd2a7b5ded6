SPECIFICATION Spec
CONSTANTS
  Users = {ana, bob}
  Nobody = nobody
  Slots = {s1, s2}
  RefreshTokens = {r1, r2, r3, r4}
  NoCookie = none
  MaxLost = 1
INVARIANTS
  TypeOK
  ScreenAgreesWithJar
  OneUserAtATime
  AloneItSucceeds
CONSTRAINT NotMixedUp
