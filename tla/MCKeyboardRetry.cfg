SPECIFICATION SteadySpec
CONSTANTS
  LastRequest = 4
  SetAddress = 1
  SetConfig = 3
  Key = {"A"}
  LooksBefore = 5
  LooksAfter = 7
PROPERTY FatalErrorRestarts
