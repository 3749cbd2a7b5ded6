SPECIFICATION Spec
CONSTANTS
  h1 = h1
  h2 = h2
  h3 = h3
  h4 = h4
  h5 = h5
  Calls = {h1, h2, h3, h4, h5}
  Limit = 2
  Window = 2
  Required = FALSE
  MaxTime = 3
  MaxResets = 1
SYMMETRY Symmetry
INVARIANTS
  TypeOK
  RefusedNotForEver
  AtMostTwiceTheLimit
PROPERTY FixedWindow
CHECK_DEADLOCK FALSE
