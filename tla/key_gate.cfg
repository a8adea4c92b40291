SPECIFICATION GateFairSpec
CONSTANTS
  k1 = k1
  k2 = k2
  Keyboard <- MCKeyboard
  MaxHolds = 2
INVARIANTS
  GateTypeOK
  HoldIsReal
  FreeMeansFree
PROPERTY GrabsEnd
