SPECIFICATION FairSpec
CONSTANTS
  Release <- MCRelease
  FirstVersion = 1
  MAX_INSTALL_ATTEMPTS = 2
  MaxEvents = 2
INVARIANTS
  TypeOK
  VerifiedOnly
  OffersAreNewer

  
  
CHECK_DEADLOCK FALSE
