SPECIFICATION Spec
CONSTANTS
  t1 = t1
  t2 = t2
  Types <- MCTypes
  Lengths <- MCLengths
  MaxMessages = 1
INVARIANTS
  UpTo32
CHECK_DEADLOCK FALSE
