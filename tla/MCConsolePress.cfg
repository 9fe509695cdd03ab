SPECIFICATION ConsoleSpec
CONSTANTS
  e1 = e1
  Enemy <- MCEnemy
  Slot <- MCSlot
  W = 32
  XCenter = 4
  XMax = 10
  YMax = 14
  ShipSize = 6
  ShipStep = 2
  EnemySize = 2
  EnemyStep = 1
  BossStep = 2
  Drop = 2
  Dodge = 1
  LaserStep = 2
  LaserW = 1
  LaserH = 4
  MuzzleRest = 0
  MuzzleFire = 1
  MuzzleY = 1
  MinGap = 2
INVARIANT OneScreenPerPress
