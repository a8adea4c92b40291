SPECIFICATION SwitchSpec
CONSTANTS
  a = a
  b = b
  sp = sp
  sl = sl
  NoKey = NoKey
  NoStash = NoStash
  Letter <- MCLetter
  Separator <- MCSeparator
  Convertible <- MCConvertible
  Texts <- MCTexts
  Words <- MCWords
  MaxRun = 2
  MaxText = 4
INVARIANTS
  
  UndoIsRescue
 
CONSTRAINT MCFirstSlip
