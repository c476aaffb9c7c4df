SPECIFICATION Spec
CONSTANTS
  t1 = t1
  t2 = t2
  Types <- MCTypes
  Lengths <- MCLengths
  MaxMessages = 2
INVARIANTS
  TypeOK
  NoStaleContent
  TextComplete
  ImageShown
CHECK_DEADLOCK FALSE
