SPECIFICATION KeyboardSpec
CONSTANTS
  LastRequest = 4
  SetAddress = 1
  SetConfig = 3
  Key = {"Space"}
  LooksBefore = 5
  LooksAfter = 7
INVARIANTS
  EnumerationHonest
  NoGhostKey
PROPERTY ResetSilences
