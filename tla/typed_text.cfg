SPECIFICATION Spec
CONSTANTS
  a = a
  b = b
  sp = sp
  sl = sl
  NoKey = NoKey
  Letter <- MCLetter
  Separator <- MCSeparator
  Texts <- MCTexts
  Words <- MCWords
  MaxRun = 2
  MaxText = 5
INVARIANTS
  TypeOK
  
  StashShape
  TrustedFlags
  DecidedIsWhole
  
