SPECIFICATION GateSpec
CONSTANTS
  k1 = k1
  k2 = k2
  Keyboard <- MCKeyboard
  MaxHolds = 2
SYMMETRY MCSymmetry
INVARIANT HeldKeysAreRead
CHECK_DEADLOCK FALSE
