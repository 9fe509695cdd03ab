SPECIFICATION BoardSpec
CONSTANTS
  e1 = e1
  e2 = e2
  Enemy <- MCEnemy
  Slot <- MCSlot
  W = 32
  XCenter = 6
  XMax = 14
  YMax = 16
  ShipSize = 6
  ShipStep = 2
  EnemySize = 2
  EnemyStep = 1
  BossStep = 2
  Drop = 2
  Dodge = 1
  LaserStep = 2
  LaserW = 1
  LaserH = 4
  MuzzleRest = 0
  MuzzleFire = 1
  MuzzleY = 1
  MinGap = 3
  HTotal = 17
  VTotal = 20
  HVisible = 15
  VVisible = 17
  VSyncFirst = 18
  VSyncEnd = 19
  Foes <- MCFoes
  File <- MCFile
  Logo <- MCLogo
INVARIANTS
  TypeOK
  WinIsClean
  PictureIsOfTheGame
PROPERTIES
  ScoreFallsAtEnd
  NoSwallowedShot
  OnlyShotsScore
  NothingMoves
  ImplementsMatch
  TicksAreReal
