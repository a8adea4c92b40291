SPECIFICATION FairSpec
CONSTANTS
  a = a
  b = b
  sp = sp
  enter = enter
  NoKey = NoKey
  Backspace = Backspace
  Shortcut = Shortcut
  Letter <- MCLetter
  Separator <- MCSeparator
  Submit <- MCSubmit
  Word <- MCWord
  Before <- MCBefore
  MaxRun = 8
  Repairs = 1
  MaxPresses = 3
INVARIANTS
  TypeOK
  BeforeUntouched
  
  AbortLeavesText
  
PROPERTY Settles
