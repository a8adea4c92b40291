SPECIFICATION Spec
CONSTANTS
  Release <- MCRelease
  FirstVersion = 1
  MAX_INSTALL_ATTEMPTS = 2
  MaxEvents = 1
INVARIANT OfferIsReal
CHECK_DEADLOCK FALSE
