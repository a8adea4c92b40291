SPECIFICATION Spec
CONSTANTS
  x = x
  y = y
  Key <- MCKey
  Capacity = 3
  MaxSent = 4
  MaxPresses = 1
  MaxLost = 2
INVARIANTS
  TypeOK
  EntriesAreOwed
  EchoesSwallowed
PROPERTIES
  NextWordIsRead
SYMMETRY Symmetry
CHECK_DEADLOCK FALSE
