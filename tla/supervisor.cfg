SPECIFICATION FairSpec
CONSTANTS
  s1 = s1
  s2 = s2
  Service <- MCService
  Questions = 1
  MaxEvents = 2
  MaxStarts = 2
INVARIANTS
  TypeOK
  Owned
PROPERTY DeathsAnnounced
CHECK_DEADLOCK FALSE
