SPECIFICATION FairSpec
CONSTANTS
  factory = factory
  mine = mine
  w1 = w1
  w2 = w2
  Prefs <- MCPrefs
  Default = factory
  Broken = Broken
  Absent = Absent
  Waiters <- MCWaiters
  MaxActs = 3
INVARIANTS
  TypeOK
  
PROPERTY Settles
CHECK_DEADLOCK FALSE
