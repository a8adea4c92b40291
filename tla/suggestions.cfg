SPECIFICATION Spec
CONSTANTS
  a = a
  sp = sp
  nl = nl
  NoKey = NoKey
  Backspace = Backspace
  HeldBackspace = HeldBackspace
  Shortcut = Shortcut
  Nav = Nav
  Click = Click
  Accept = Accept
  Move = Move
  Letter <- MCLetter
  Separator <- MCSeparator
  Submit <- MCSubmit
  Texts <- MCTexts
  Words <- MCWords
  MaxRun = 2
  MaxTrail = 3
  MaxOffers = 2
  MaxText = 4
  MaxWire = 2
  MaxOuts = 2
INVARIANTS
  TypeOK
  TrailShape
  
  OfferInFront
PROPERTIES
  ReplacedInPlace
  TimeoutIsOwn
VIEW View
CONSTRAINT Bounds
CHECK_DEADLOCK FALSE
