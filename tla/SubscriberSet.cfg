SPECIFICATION Spec
CONSTANTS
  Keys = {k1, k2}
  MaxSubs = 3
  MaxDepth = 2
INVARIANTS
  NoneLostNorDoubled
PROPERTIES
  RetainHonoursDrop
CHECK_DEADLOCK FALSE
