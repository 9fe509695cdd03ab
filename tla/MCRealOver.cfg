SPECIFICATION ScriptSpec
CONSTANTS
  FightRow = 360
  FightKeys = {"Space", "None"}
  Enemy <- MCEnemy
  Slot <- MCSlot
  W = 1024
  XCenter = 320
  XMax = 639
  YMax = 479
  ShipSize = 40
  ShipStep = 2
  EnemySize = 30
  EnemyStep = 1
  BossStep = 5
  Drop = 10
  Dodge = 2
  LaserStep = 4
  LaserW = 20
  LaserH = 49
  MuzzleRest = 5
  MuzzleFire = 8
  MuzzleY = 2
  MinGap = 3
INVARIANT GameOverScoreZero
