SPECIFICATION BoardSpec
CONSTANTS
  HTotal = 6
  VTotal = 7
  HVisible = 4
  VVisible = 3
  VSyncFirst = 4
  VSyncEnd = 6
  MinGap = 69
  Words = 16
  Foes <- MCFoes
  Size <- MCSize
  File <- MCFile
  Logo <- MCLogo
  HpiReg = {"addr", "data"}
  HpiValue = {"zero", "one"}
  Zero = "zero"
  Gap = 4
  AccessTime = 1
  Hold = 1
  BufLen = 3
  FifoLen = 3
  Margin = 1
  Timeout = 2
  IntMax = 4
  MaxBytes = 4
  MaxTyped = 3
INVARIANTS
  MovesBetweenPictures
  PictureIsTrue
  NoContention
  AgainIsHarmless
  NothingLost
  NoLostWakeup
  NoSpuriousInterrupt
PROPERTIES
  FramesComeHere
  ImplementsFrameClock
  HpiImplementsBus
  ImplementsDriver
  WalkEnds
