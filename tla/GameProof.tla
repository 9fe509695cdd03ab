----------------------------- MODULE GameProof -------------------------------
(***************************************************************************)
(* Theorems about the game, for every board that satisfies the assumptions *)
(* of Playfield and EnemyShips and any number of enemy ships.              *)
(*                                                                         *)
(* The second half needs the geometry of the board: GameController         *)
(* implements Match, a won game leaves nothing behind, the ship and the    *)
(* boss stay on their tracks, every touch counts and nothing else does.    *)
(* Nothing in the latch of an enemy ship looks at the screen: what keeps   *)
(* it quiet on START and WIN is where the laser and the ships are.         *)
(***************************************************************************)
EXTENDS GameController, Formation, FiniteSetTheorems, TLAPS

(* 10-bit arithmetic stays within 10 bits. *)
LEMMA AddType ==
    ASSUME NEW a \in Word, NEW b \in Word
    PROVE  Add(a, b) \in Word
BY WordAssumption DEF Add, Word

LEMMA NegType ==
    ASSUME NEW a \in Word
    PROVE  Neg(a) \in Word
BY WordAssumption DEF Neg, Word

(* The parameters, and what is computed from them, are words. *)
LEMMA ParameterTypes ==
    /\ {XCenter, XMax, YMax, ShipStep, EnemyStep, BossStep, Drop, Dodge} \subseteq Word
    /\ {LaserStep, MuzzleRest, MuzzleFire, MuzzleY, ShipY, 0, Up} \subseteq Word
<1>1. 0 \in Word /\ ShipY \in Word
  BY WordAssumption, PlayfieldAssumption DEF Word, ShipY
<1>2. Up \in Word
  BY WordAssumption, NegType DEF Up
<1> QED
  BY <1>1, <1>2, WordAssumption

-----------------------------------------------------------------------------
(* Each component keeps its registers in range.                            *)
LEMMA ShipKeepsType ==
    ASSUME ShipTypeOK, NEW tick \in BOOLEAN, NEW key \in Keys, ShipClock(tick, key)
    PROVE  ShipTypeOK'
<1>1. CASE tick /\ ShipFrame(key)
  <2>1. ship.x \in Word /\ ship.xm \in Word
    BY ParameterTypes, NegType, WordAssumption DEF ShipTypeOK
  <2>2. Add(ship.x, ship.xm) \in Word
    BY <2>1, AddType
  <2> QED
    BY <1>1, <2>2 DEF ShipFrame, ShipTypeOK, Heading
<1>2. CASE ~tick /\ UNCHANGED ship
  BY <1>2 DEF ShipTypeOK
<1> QED
  BY <1>1, <1>2 DEF ShipClock

LaserTypeOK == laser \in [x : Word, y : Word, ym : {0, Up}, space : BOOLEAN]

LEMMA LaserKeepsType ==
    ASSUME LaserTypeOK, NEW tick \in BOOLEAN, NEW key \in Keys,
           NEW live, NEW sx \in Word, NEW contact,
           LaserClock(tick, key, live, sx, contact)
    PROVE  LaserTypeOK'
<1>1. ASSUME NEW dx \in {MuzzleRest, MuzzleFire}, NEW ym \in {0, Up}, NEW space \in BOOLEAN
      PROVE  AtMuzzle(sx, dx, ym, space) \in [x : Word, y : Word, ym : {0, Up}, space : BOOLEAN]
  <2>1. Add(sx, dx) \in Word /\ Add(ShipY, MuzzleY) \in Word
    BY ParameterTypes, AddType
  <2> QED
    BY <2>1 DEF AtMuzzle
<1>2. CASE ~live /\ laser' = AtMuzzle(sx, MuzzleRest, 0, FALSE)
  BY <1>1, <1>2 DEF LaserTypeOK
<1>3. CASE laser' = AtMuzzle(sx, MuzzleFire, Up, key = "Space")
  BY <1>1, <1>3 DEF LaserTypeOK
<1>4. CASE LaserFrame(sx, key)
  <2>1. CASE laser' = AtMuzzle(sx, MuzzleFire, Up, TRUE)
    BY <1>1, <2>1 DEF LaserTypeOK
  <2>2. CASE laser' = [laser EXCEPT !.space = FALSE]
    BY <2>2 DEF LaserTypeOK
  <2>3. CASE laser' = LaserRise
    <3>1. Add(laser.y, laser.ym) \in Word
      BY ParameterTypes, AddType DEF LaserTypeOK
    <3> QED
      BY <2>3, <3>1 DEF LaserTypeOK, LaserRise
  <2>4. CASE laser' = AtMuzzle(sx, MuzzleRest, 0, key = "Space")
    BY <1>1, <2>4 DEF LaserTypeOK
  <2> QED
    BY <1>4, <2>1, <2>2, <2>3, <2>4 DEF LaserFrame
<1>5. CASE UNCHANGED laser
  BY <1>5 DEF LaserTypeOK
<1> QED
  BY <1>2, <1>3, <1>4, <1>5 DEF LaserClock

LEMMA HomeType == \A e \in Enemy : Home(e) \in Body
BY EnemyAssumption, ParameterTypes DEF Home, Body

LEMMA FlyType ==
    ASSUME NEW s \in Body
    PROVE  Fly(s) \in Body
<1>1. Add(s.x, s.xm) \in Word /\ Add(s.y, s.ym) \in Word
  BY AddType DEF Body
<1>2. Neg(EnemyStep) \in Word /\ EnemyStep \in Word /\ Drop \in Word /\ 0 \in Word
  BY ParameterTypes, NegType
<1> QED
  BY <1>1, <1>2 DEF Fly, Body

EnemyTypeOK == enemy \in [Enemy -> Body] /\ hit \in [Enemy -> BOOLEAN]

LEMMA EnemyKeepsType ==
    ASSUME EnemyTypeOK, NEW tick \in BOOLEAN, NEW playing \in BOOLEAN,
           NEW over \in BOOLEAN, EnemyClock(tick, playing, laser, over)
    PROVE  EnemyTypeOK'
<1>1. ASSUME NEW e \in Enemy
      PROVE  EnemyStepOf(e, tick, playing) \in Body
  <2>1. Parked \in Body
    BY ParameterTypes DEF Parked, Body
  <2>2. enemy[e] \in Body
    BY DEF EnemyTypeOK
  <2> QED
    BY <2>1, <2>2, HomeType, FlyType DEF EnemyStepOf
<1>2. ASSUME NEW e \in Enemy
      PROVE  EnemyLatch(hit[e], enemy[e], laser, over) \in BOOLEAN
  BY DEF EnemyLatch
<1> QED
  BY <1>1, <1>2 DEF EnemyClock, EnemyTypeOK

BossTypeOK == boss \in Body /\ bossHit \in BOOLEAN

LEMMA BossFlyType ==
    ASSUME BossTypeOK, NEW key \in Keys
    PROVE  BossFly(key) \in Body
<1>1. Add(boss.x, boss.xm) \in Word /\ Add(boss.y, boss.ym) \in Word /\ Neg(boss.xm) \in Word
  BY AddType, NegType DEF BossTypeOK, Body
<1>2. {BossStep, Neg(BossStep), Drop, Dodge, 0, boss.xm} \subseteq Word
  BY ParameterTypes, NegType DEF BossTypeOK, Body
<1> QED
  BY <1>1, <1>2 DEF BossFly, BossHeading, BossFall, Body

LEMMA BossKeepsType ==
    ASSUME BossTypeOK, NEW tick \in BOOLEAN, NEW key \in Keys, NEW fighting \in BOOLEAN,
           NEW over \in BOOLEAN, BossClock(tick, key, fighting, laser, over)
    PROVE  BossTypeOK'
<1>1. BossHome \in Body /\ BossParked \in Body
  BY ParameterTypes DEF BossHome, BossParked, Body
<1>2. boss' \in Body
  BY <1>1, BossFlyType DEF BossClock, BossMove, BossTypeOK
<1>3. bossHit' \in BOOLEAN
  BY DEF BossClock, BossLatch
<1> QED
  BY <1>2, <1>3 DEF BossTypeOK

LEMMA SignalKeepsType ==
    ASSUME state \in State, NEW key \in Keys, NEW dead, NEW all1, NEW all2,
           SignalClock(key, dead, all1, all2)
    PROVE  state' \in State
BY DEF SignalClock, NextState, NextScreen, State

LEMMA GapKeepsType ==
    ASSUME gap \in 0 .. MinGap, NEW tick \in BOOLEAN, GapClock(tick)
    PROVE  gap' \in 0 .. MinGap
BY GapAssumption DEF GapClock

-----------------------------------------------------------------------------
(* A cycle with the frame tick and one without differ only in an input.    *)
LEMMA NextCases ==
    ASSUME Next
    PROVE  Reset \/ \E tick \in BOOLEAN, key \in Keys : Clock(tick, key)
BY DEF Next, Frame, Cycle

(* Every register of the game keeps a value of its width, whatever the     *)
(* keys, the ticks and the resets.                                         *)
THEOREM TypeCorrect == Spec => []TypeOK
<1>1. Init => TypeOK
  <2> SUFFICES ASSUME Init PROVE TypeOK
    OBVIOUS
  <2>1. state \in State
    BY DEF Init, SignalInit, State
  <2>2. ShipTypeOK
    BY ParameterTypes DEF Init, ShipInit, ShipStart, ShipTypeOK
  <2>3. LaserTypeOK
    BY ParameterTypes DEF Init, LaserInit, LaserStart, LaserTypeOK
  <2>4. EnemyTypeOK
    BY HomeType DEF Init, EnemyInit, EnemyTypeOK
  <2>5. BossTypeOK
    BY ParameterTypes DEF Init, BossInit, BossHome, BossTypeOK, Body
  <2>6. gap \in 0 .. MinGap
    BY GapAssumption DEF Init, GapInit
  <2> QED
    BY <2>1, <2>2, <2>3, <2>4, <2>5, <2>6
    DEF TypeOK, LaserTypeOK, EnemyTypeOK, BossTypeOK
<1>2. TypeOK /\ [Next]_vars => TypeOK'
  <2> SUFFICES ASSUME TypeOK, [Next]_vars PROVE TypeOK'
    OBVIOUS
  <2> USE DEF TypeOK, LaserTypeOK, EnemyTypeOK, BossTypeOK
  <2>1. ASSUME NEW tick \in BOOLEAN, NEW key \in Keys, Clock(tick, key)
        PROVE  TypeOK'
    <3>1. state' \in State
      BY <2>1, SignalKeepsType DEF Clock, Registers
    <3>2. ShipTypeOK'
      BY <2>1, ShipKeepsType DEF Clock, Registers
    <3>3. LaserTypeOK'
      <4>1. ship.x \in Word
        BY DEF ShipTypeOK
      <4>2. LaserClock(tick, key, play \/ boss_fight, ship.x, laser_hit)
        BY <2>1 DEF Clock, Registers
      <4> QED
        BY <4>1, <4>2, LaserKeepsType, Zenon
    <3>4. done \in BOOLEAN /\ play \in BOOLEAN /\ boss_fight \in BOOLEAN
      BY DEF done, died, killed_all2, play, boss_fight, RowGameover, BossGameover
    <3>5. EnemyTypeOK'
      BY <2>1, <3>4, EnemyKeepsType DEF Clock, Registers
    <3>6. BossTypeOK'
      BY <2>1, <3>4, BossKeepsType DEF Clock, Registers
    <3>7. gap' \in 0 .. MinGap
      BY <2>1, GapKeepsType DEF Clock, Registers
    <3> QED
      BY <3>1, <3>2, <3>3, <3>5, <3>6, <3>7
  <2>2. CASE Reset
    <3>1. state' \in State
      BY <2>2 DEF Reset, SignalReset, State
    <3>2. ShipTypeOK'
      BY <2>2, ParameterTypes DEF Reset, ShipReset, ShipStart, ShipTypeOK
    <3>3. LaserTypeOK'
      BY <2>2, ParameterTypes DEF Reset, LaserReset, LaserStart
    <3>4. EnemyTypeOK'
      BY <2>2, HomeType DEF Reset, EnemyReset
    <3>5. BossTypeOK'
      BY <2>2, ParameterTypes DEF Reset, BossReset, BossHome, Body
    <3>6. gap' \in 0 .. MinGap
      BY <2>2, GapAssumption DEF Reset, GapReset
    <3> QED
      BY <3>1, <3>2, <3>3, <3>4, <3>5, <3>6
  <2>3. CASE UNCHANGED vars
    BY <2>3 DEF vars, ShipTypeOK
  <2> QED
    BY <2>1, <2>2, <2>3, NextCases
<1> QED
  BY <1>1, <1>2, PTL DEF Spec

-----------------------------------------------------------------------------
(* Counting latches.  The rows score every enemy exactly when all are hit. *)
LEMMA RowScoreBounds ==
    ASSUME EnemyTypeOK
    PROVE  /\ RowScore \in Nat /\ Cardinality(Enemy) \in Nat
           /\ RowScore <= Cardinality(Enemy)
           /\ RowScore = Cardinality(Enemy) <=> \A e \in Enemy : hit[e]
<1> DEFINE H == {e \in Enemy : hit[e]}
<1>1. H \in SUBSET Enemy /\ IsFiniteSet(Enemy)
  BY EnemyAssumption
<1>2. IsFiniteSet(H) /\ Cardinality(H) <= Cardinality(Enemy)
  BY <1>1, FS_Subset
<1>3. Cardinality(H) \in Nat /\ Cardinality(Enemy) \in Nat
  BY <1>1, <1>2, FS_CardinalityType
<1>4. Cardinality(H) = Cardinality(Enemy) => Enemy = H
  BY <1>1, FS_Subset
<1>5. RowScore = Cardinality(H)
  BY DEF RowScore
<1>6. Enemy = H <=> \A e \in Enemy : hit[e]
  OBVIOUS
<1> HIDE DEF H
<1> QED
  BY <1>2, <1>3, <1>4, <1>5, <1>6

(* All events that clear the latches end the game: in the same step the    *)
(* machine moves to one of its final screens and every latch falls.        *)
LEMMA DoneEndsGame ==
    ASSUME TypeOK, BossCountsOnlyInFight,
           NEW tick \in BOOLEAN, NEW key \in Keys, Clock(tick, key), done
    PROVE  /\ state' \in {"GAMEOVER", "WIN"}
           /\ \A e \in Enemy : ~hit'[e]
           /\ ~bossHit'
<1>1. killed_all2 => boss_fight
  BY RowScoreBounds DEF killed_all2, Score, BossCountsOnlyInFight, TypeOK, EnemyTypeOK
<1>2. died => play \/ boss_fight
  BY DEF died, RowGameover, BossGameover
<1>3. state' = NextState(key, died, killed_all1, killed_all2)
  BY DEF Clock, Registers, SignalClock
<1>4. died => state' = "GAMEOVER"
  BY <1>2, <1>3 DEF play, boss_fight, Menu, NextState
<1>5. ~died => state' = "WIN"
  BY <1>1, <1>3 DEF done, play, boss_fight, Menu, NextState
<1>6. \A e \in Enemy : ~hit'[e]
  BY DEF Clock, Registers, EnemyClock, EnemyLatch
<1>7. ~bossHit'
  BY DEF Clock, Registers, BossClock, BossLatch
<1> QED
  BY <1>4, <1>5, <1>6, <1>7

(* Without such an event no latch falls, but that of the boss outside its  *)
(* fight.                                                                  *)
LEMMA LatchesHold ==
    ASSUME TypeOK, NEW tick \in BOOLEAN, NEW key \in Keys, Clock(tick, key), ~done
    PROVE  /\ \A e \in Enemy : hit[e] => hit'[e]
           /\ boss_fight /\ bossHit => bossHit'
BY DEF Clock, Registers, EnemyClock, EnemyLatch, BossClock, BossLatch

(* The invariant of the match: the two named parts need each other, as the *)
(* score can only be one short of the maximum because the boss is missing. *)
RoundInv == BossRoundCleared /\ BossCountsOnlyInFight

LEMMA RoundStep ==
    ASSUME TypeOK, RoundInv, NEW tick \in BOOLEAN, NEW key \in Keys, Clock(tick, key)
    PROVE  RoundInv'
<1>1. CASE done
  BY <1>1, DoneEndsGame DEF RoundInv, BossRoundCleared, BossCountsOnlyInFight
<1>2. CASE ~done
  <2>1. ~died /\ ~killed_all2
    BY <1>2 DEF done
  <2>2. state' = NextState(key, died, killed_all1, killed_all2)
    BY DEF Clock, Registers, SignalClock
  <2>3. bossHit' => boss_fight
    BY DEF Clock, Registers, BossClock, BossLatch
  <2>4. boss_fight => state' = "BOSS_FIGHT"
    BY <2>1, <2>2 DEF play, boss_fight, Menu, NextState
  <2>5. BossCountsOnlyInFight'
    BY <2>3, <2>4 DEF BossCountsOnlyInFight, boss_fight
  <2>6. ASSUME state' \in {"BOSS_LOGO", "BOSS_FIGHT"}
        PROVE  \A e \in Enemy : hit[e]
    <3>1. CASE state \in {"BOSS_LOGO", "BOSS_FIGHT"}
      BY <3>1 DEF RoundInv, BossRoundCleared
    <3>2. CASE state \notin {"BOSS_LOGO", "BOSS_FIGHT"}
      <4>1. state = "PLAY" /\ killed_all1
        BY <2>1, <2>2, <2>6, <3>2 DEF NextState, NextScreen, Menu, play, boss_fight, TypeOK, State
      <4>2. ~bossHit
        BY <4>1 DEF RoundInv, BossCountsOnlyInFight, boss_fight
      <4>3. RowScore = Cardinality(Enemy)
        BY <4>1, <4>2, RowScoreBounds DEF killed_all1, Score, TypeOK, EnemyTypeOK
      <4> QED
        BY <4>3, RowScoreBounds DEF TypeOK, EnemyTypeOK
    <3> QED
      BY <3>1, <3>2
  <2>7. BossRoundCleared'
    BY <1>2, <2>6, LatchesHold DEF BossRoundCleared
  <2> QED
    BY <2>5, <2>7 DEF RoundInv
<1> QED
  BY <1>1, <1>2

LEMMA RoundInvariant == Spec => []RoundInv
<1>1. Init => RoundInv
  BY DEF Init, SignalInit, BossInit, RoundInv, BossRoundCleared, BossCountsOnlyInFight
<1>2. TypeOK /\ RoundInv /\ [Next]_vars => RoundInv'
  <2> SUFFICES ASSUME TypeOK, RoundInv, [Next]_vars PROVE RoundInv'
    OBVIOUS
  <2>1. CASE Reset
    BY <2>1 DEF Reset, SignalReset, BossReset, RoundInv, BossRoundCleared, BossCountsOnlyInFight
  <2>2. CASE UNCHANGED vars
    BY <2>2 DEF vars, RoundInv, BossRoundCleared, BossCountsOnlyInFight, boss_fight
  <2> QED
    BY <2>1, <2>2, RoundStep, NextCases
<1> QED
  BY <1>1, <1>2, TypeCorrect, PTL DEF Spec

(* The boss round is only entered, and only lasts, with every enemy hit.   *)
THEOREM BossRound == Spec => []BossRoundCleared
BY RoundInvariant, PTL DEF RoundInv

(* The boss counts in no other screen than the fight.                      *)
THEOREM BossCount == Spec => []BossCountsOnlyInFight
BY RoundInvariant, PTL DEF RoundInv

(* The score never falls but at the end of a game, and then to zero: of    *)
(* the eighteen latches and the boss's none is ever lost in a running      *)
(* game, in whatever order hits, kills of the last ship, landings and the  *)
(* key presses come.                                                       *)
THEOREM ScoreFalls == Spec => ScoreFallsAtEnd
<1> DEFINE OK == Score' < Score => Reset \/ (state' \in {"GAMEOVER", "WIN"} /\ Score' = 0)
<1>1. TypeOK /\ TypeOK' /\ RoundInv /\ [Next]_vars => [OK]_vars
  <2> SUFFICES ASSUME TypeOK, TypeOK', RoundInv, [Next]_vars, ~(UNCHANGED vars), ~Reset
               PROVE  OK
    OBVIOUS
  <2>1. PICK tick \in BOOLEAN, key \in Keys : Clock(tick, key)
    BY NextCases
  <2>2. CASE done
    <3>1. /\ state' \in {"GAMEOVER", "WIN"}
          /\ \A e \in Enemy : ~hit'[e]
          /\ ~bossHit'
      BY <2>1, <2>2, DoneEndsGame DEF RoundInv
    <3>2. {e \in Enemy : hit'[e]} = {}
      BY <3>1
    <3>3. Cardinality({}) = 0
      BY FS_EmptySet
    <3>4. RowScore' = 0
      BY <3>2, <3>3 DEF RowScore
    <3>5. Score' = 0
      BY <3>1, <3>4 DEF Score
    <3> QED
      BY <3>1, <3>5
  <2>3. CASE ~done
    <3>1. /\ \A e \in Enemy : hit[e] => hit'[e]
          /\ bossHit => bossHit'
      BY <2>1, <2>3, LatchesHold DEF RoundInv, BossCountsOnlyInFight
    <3> DEFINE H == {e \in Enemy : hit[e]}
               G == {e \in Enemy : hit'[e]}
    <3>2. H \in SUBSET G /\ G \in SUBSET Enemy /\ H \in SUBSET Enemy
      BY <3>1
    <3>3. IsFiniteSet(G) /\ IsFiniteSet(H)
      BY <3>2, FS_Subset, EnemyAssumption
    <3>4. Cardinality(H) <= Cardinality(G) /\ Cardinality(H) \in Nat /\ Cardinality(G) \in Nat
      BY <3>2, <3>3, FS_Subset, FS_CardinalityType
    <3>5. RowScore = Cardinality(H) /\ RowScore' = Cardinality(G)
      BY DEF RowScore
    <3> HIDE DEF H, G
    <3>6. RowScore \in Nat /\ RowScore' \in Nat /\ RowScore <= RowScore'
      BY <3>4, <3>5
    <3>7. Score <= Score' /\ Score \in Nat /\ Score' \in Nat
      BY <3>1, <3>6 DEF Score
    <3> QED
      BY <3>7
  <2> QED
    BY <2>2, <2>3
<1> QED
  BY <1>1, TypeCorrect, RoundInvariant, PTL DEF Spec, ScoreFallsAtEnd

-----------------------------------------------------------------------------
(* At most one step above the muzzle: below every slot. *)
Low(l) == l.y \in Muzzle - LaserStep .. YMax

AtHome == state \in {"START", "BOSS_FIGHT", "WIN"} =>
              \A e \in Enemy : enemy[e].y = Slot[e].y
LaserIsLow == state \in {"START", "WIN"} => Low(laser)
(* The shot that hit the boss is back in the cycle the hit is counted. *)
ShotIsBack == bossHit => laser.y = Muzzle

QuietInv == AtHome /\ LaserIsLow /\ ShotIsBack /\ WinIsClean

-----------------------------------------------------------------------------
(* Where the muzzle and the slots lie. *)
LEMMA Geometry ==
    /\ {LaserStep, LaserH, YMax, Muzzle, EnemySize, W, MuzzleY} \subseteq Nat
    /\ LaserStep > 0 /\ EnemySize > 0
    /\ LaserStep <= Muzzle /\ Muzzle <= YMax /\ YMax + LaserH < W
    /\ Add(ShipY, MuzzleY) = Muzzle
    /\ \A e \in Enemy :
          Slot[e].y \in Nat /\ Slot[e].y + EnemySize < Muzzle - LaserStep
<1>1. {LaserStep, LaserH, YMax, MuzzleY, EnemySize, ShipSize, W} \subseteq Nat
      /\ LaserStep > 0 /\ EnemySize > 0 /\ LaserH > 0 /\ YMax < W
    BY WordAssumption DEF Word
<1>2. ShipSize + EnemySize < YMax /\ MuzzleY <= ShipSize /\ YMax + LaserH < W
    BY <1>1, PlayfieldAssumption
<1>3. Muzzle \in Nat /\ Muzzle <= YMax /\ ShipY \in Nat
    BY <1>1, <1>2 DEF Muzzle, ShipY
<1>4. Add(ShipY, MuzzleY) = Muzzle
    BY <1>1, <1>2, <1>3 DEF Muzzle, Add
<1>5. ASSUME NEW e \in Enemy
      PROVE  Slot[e].y \in Nat /\ Slot[e].y + EnemySize + LaserStep < Muzzle
    <2>1. Slot[e].y \in Nat /\ Slot[e].y + LaserStep < Bottom
        BY EnemyAssumption DEF Word
    <2> QED
        BY <1>1, <1>2, <2>1 DEF Muzzle, ShipY, Bottom
<1>6. \A e \in Enemy : Slot[e].y \in Nat /\ Slot[e].y + EnemySize < Muzzle - LaserStep
    BY <1>1, <1>3, <1>5
<1>7. LaserStep <= Muzzle
    <2>1. PICK e \in Enemy : TRUE
        BY EnemyAssumption
    <2> QED
        BY <1>1, <1>3, <1>5, <2>1
<1> QED
    BY <1>1, <1>2, <1>3, <1>4, <1>6, <1>7

(* A low laser touches no ship in its slot. *)
LEMMA LowIsHarmless ==
    ASSUME NEW e \in Enemy, NEW s, NEW l, s.y = Slot[e].y, Low(l)
    PROVE  ~Overlaps(s, l)
<1>1. s.y \in Nat /\ l.y \in Nat /\ s.y + EnemySize < l.y /\ l.y <= YMax
    BY Geometry DEF Low
<1>2. Add(s.y, EnemySize) = s.y + EnemySize /\ Add(l.y, LaserH) = l.y + LaserH
    BY <1>1, Geometry DEF Add
<1>3. ~Within(l.y, s.y) /\ ~Within(Add(l.y, LaserH), s.y)
    BY <1>1, <1>2, Geometry DEF Within
<1> QED
    BY <1>3 DEF Overlaps

(* Without a screen that plays, the laser returns. *)
LEMMA LaserReturns ==
    ASSUME NEW tick \in BOOLEAN, NEW key \in Keys, Clock(tick, key), ~play, ~boss_fight
    PROVE  laser'.y = Muzzle
<1>1. laser' = AtMuzzle(ship.x, MuzzleRest, 0, FALSE)
    BY DEF Clock, Registers, LaserClock
<1> QED
    BY <1>1, Geometry DEF AtMuzzle

(* A shot that is counted returns in the same cycle. *)
LEMMA HitReturns ==
    ASSUME NEW tick \in BOOLEAN, NEW key \in Keys, Clock(tick, key), laser_hit
    PROVE  laser'.y = Muzzle
<1>1. play \/ boss_fight
    BY DEF laser_hit, RowLaserHit, BossLaserHit
<1>2. laser' = AtMuzzle(ship.x, MuzzleFire, Up, key = "Space")
    BY <1>1 DEF Clock, Registers, LaserClock
<1> QED
    BY <1>2, Geometry DEF AtMuzzle

(* From the muzzle the laser goes one step up at most. *)
LEMMA FromMuzzle ==
    ASSUME TypeOK, NEW tick \in BOOLEAN, NEW key \in Keys, Clock(tick, key), laser.y = Muzzle
    PROVE  Low(laser')
<1>1. ASSUME laser'.y = Muzzle
      PROVE  Low(laser')
    BY <1>1, Geometry DEF Low
<1>2. CASE \E dx, ym, space : laser' = AtMuzzle(ship.x, dx, ym, space)
    BY <1>1, <1>2, Geometry DEF AtMuzzle
<1>3. CASE laser' = LaserRise
    <2>1. laser'.y = Add(Muzzle, laser.ym) /\ laser.ym \in {0, Up}
        BY <1>3 DEF LaserRise, TypeOK
    <2>2. Up = W - LaserStep
        BY Geometry DEF Up, Neg
    <2>3. laser'.y \in {Muzzle, Muzzle - LaserStep}
        BY <2>1, <2>2, Geometry DEF Add
    <2> QED
        BY <2>3, Geometry DEF Low
<1>4. CASE laser' = [laser EXCEPT !.space = FALSE] \/ laser' = laser
    BY <1>1, <1>4 DEF TypeOK
<1>5. CASE LaserFrame(ship.x, key)
    <2>1. CASE laser' = AtMuzzle(ship.x, MuzzleFire, Up, TRUE)
        BY <1>2, <2>1
    <2>2. CASE laser' = AtMuzzle(ship.x, MuzzleRest, 0, key = "Space")
        BY <1>2, <2>2
    <2> QED
        BY <1>3, <1>4, <1>5, <2>1, <2>2, Zenon DEF LaserFrame
<1>6. CASE laser' = AtMuzzle(ship.x, MuzzleRest, 0, FALSE)
    BY <1>2, <1>6
<1>7. CASE laser' = AtMuzzle(ship.x, MuzzleFire, Up, key = "Space")
    BY <1>2, <1>7
<1>8. LaserClock(tick, key, play \/ boss_fight, ship.x, laser_hit)
    BY DEF Clock, Registers
<1> QED
    BY <1>4, <1>5, <1>6, <1>7, <1>8, Zenon DEF LaserClock

(* What counts as hit, and the boss, in a cycle at which no game ends.     *)
LEMMA Latches ==
    ASSUME NEW tick \in BOOLEAN, NEW key \in Keys, Clock(tick, key), ~done
    PROVE  /\ \A e \in Enemy : hit'[e] <=> hit[e] \/ Overlaps(enemy[e], laser)
           /\ bossHit' <=> boss_fight /\ (bossHit \/ Overlaps(boss, laser))
BY DEF Clock, Registers, EnemyClock, EnemyLatch, BossClock, BossLatch

(* On START and WIN no latch is set. *)
LEMMA QuietScreens ==
    ASSUME TypeOK, QuietInv, NEW tick \in BOOLEAN, NEW key \in Keys, Clock(tick, key),
           state \in {"START", "WIN"}, ~done
    PROVE  \A e \in Enemy : hit'[e] = hit[e]
<1>1. \A e \in Enemy : ~Overlaps(enemy[e], laser)
    BY LowIsHarmless DEF QuietInv, AtHome, LaserIsLow
<1>2. \A e \in Enemy : hit'[e] \in BOOLEAN /\ hit[e] \in BOOLEAN
    BY DEF Clock, Registers, EnemyClock, EnemyLatch, TypeOK
<1> QED
    BY <1>1, <1>2, Latches

-----------------------------------------------------------------------------
(* What ends a game happens on a screen that plays. *)
LEMMA DoneOnlyPlaying ==
    ASSUME TypeOK, RoundInv, done
    PROVE  play \/ boss_fight
BY RowScoreBounds
DEF done, died, RowGameover, BossGameover, killed_all2, Score, RoundInv, BossCountsOnlyInFight,
    TypeOK, EnemyTypeOK

(* In the fight the boss is the one hit that is missing. *)
LEMMA BossIsLast ==
    ASSUME TypeOK, RoundInv, boss_fight
    PROVE  killed_all2 <=> bossHit
<1>1. RowScore = Cardinality(Enemy) /\ RowScore \in Nat
    BY RowScoreBounds DEF RoundInv, BossRoundCleared, boss_fight, TypeOK, EnemyTypeOK
<1> QED
    BY <1>1 DEF killed_all2, Score

LEMMA NoneCounted ==
    ASSUME NEW h \in [Enemy -> BOOLEAN]
    PROVE  Cardinality({e \in Enemy : h[e]}) = 0 <=> \A e \in Enemy : ~h[e]
<1>1. IsFiniteSet({e \in Enemy : h[e]})
    BY FS_Subset, EnemyAssumption
<1> QED
    BY <1>1, FS_EmptySet

(* The screens a screen may be left for. *)
LEMMA Screens ==
    ASSUME TypeOK, RoundInv, NEW tick \in BOOLEAN, NEW key \in Keys, Clock(tick, key)
    PROVE  /\ state = "START" => state' \in {"START", "PLAY"}
           /\ state = "PLAY" => state' = IF died THEN "GAMEOVER"
                                         ELSE IF killed_all1 THEN "BOSS_LOGO" ELSE "PLAY"
           /\ state = "BOSS_LOGO" => state' \in {"BOSS_LOGO", "BOSS_FIGHT"}
           /\ state = "BOSS_FIGHT" => state' = IF died THEN "GAMEOVER"
                                               ELSE IF bossHit THEN "WIN" ELSE "BOSS_FIGHT"
           /\ state = "GAMEOVER" => state' \in {"GAMEOVER", "START"}
           /\ state = "WIN" => state' \in {"WIN", "START"}
<1>1. state' = NextState(key, died, killed_all1, killed_all2)
    BY DEF Clock, Registers, SignalClock
<1>2. CASE state = "PLAY"
    BY <1>1, <1>2 DEF NextState, Menu, play, boss_fight
<1>3. CASE state = "BOSS_FIGHT"
    BY <1>1, <1>3, BossIsLast DEF NextState, Menu, play, boss_fight
<1>4. CASE state \notin {"PLAY", "BOSS_FIGHT"}
    BY <1>1, <1>4 DEF NextState, NextScreen, Menu, play, boss_fight
<1> QED
    BY <1>2, <1>3, <1>4

LEMMA QuietStep ==
    ASSUME TypeOK, RoundInv, QuietInv, NEW tick \in BOOLEAN, NEW key \in Keys, Clock(tick, key)
    PROVE  QuietInv'
<1>0. state \in State
    BY DEF TypeOK
<1>1. AtHome'
    <2> SUFFICES ASSUME state' \in {"START", "BOSS_FIGHT", "WIN"}, NEW e \in Enemy
                 PROVE  enemy'[e].y = Slot[e].y
        BY DEF AtHome
    <2>1. ~play
        BY Screens DEF play
    <2>2. enemy'[e] = Home(e)
        BY <2>1 DEF Clock, Registers, EnemyClock, EnemyStepOf
    <2> QED
        BY <2>2 DEF Home
<1>2. LaserIsLow'
    <2> SUFFICES ASSUME state' \in {"START", "WIN"} PROVE Low(laser')
        BY DEF LaserIsLow, Low
    <2>1. CASE boss_fight
        <3>1. bossHit
            BY <2>1, Screens DEF boss_fight
        <3> QED
            BY <3>1, FromMuzzle DEF QuietInv, ShotIsBack
    <2>2. CASE ~boss_fight
        <3>1. ~play
            BY Screens DEF play
        <3> QED
            BY <2>2, <3>1, LaserReturns, Geometry DEF Low
    <2> QED
        BY <2>1, <2>2
<1>3. ShotIsBack'
    <2> SUFFICES ASSUME bossHit' PROVE laser'.y = Muzzle
        BY DEF ShotIsBack, Muzzle, ShipY
    <2>1. ~done
        BY DEF Clock, Registers, BossClock, BossLatch
    <2>2. boss_fight /\ (bossHit \/ Overlaps(boss, laser))
        BY <2>1, Latches
    <2>3. ~bossHit
        BY <2>1, <2>2, BossIsLast DEF done
    <2>4. laser_hit
        BY <2>2, <2>3 DEF laser_hit, BossLaserHit
    <2> QED
        BY <2>4, HitReturns
<1>4. WinIsClean'
    <2> SUFFICES ASSUME state' = "WIN" PROVE Score' = 0
        BY DEF WinIsClean
    <2>1. (\A e \in Enemy : ~hit'[e]) /\ ~bossHit'
        <3>1. CASE done
            BY <3>1, DoneEndsGame DEF RoundInv
        <3>2. CASE ~done
            <4>1. state = "WIN"
                BY <1>0, <3>2, Screens, BossIsLast DEF State, done, boss_fight
            <4>2. Score = 0
                BY <4>1 DEF QuietInv, WinIsClean
            <4>3. RowScore = 0
                BY <4>2, RowScoreBounds DEF Score, TypeOK, EnemyTypeOK
            <4>4. \A e \in Enemy : ~hit[e]
                BY <4>3, NoneCounted DEF RowScore, TypeOK
            <4>5. \A e \in Enemy : ~hit'[e]
                BY <3>2, <4>1, <4>4, QuietScreens
            <4>6. ~bossHit'
                BY <3>2, <4>1, Latches DEF boss_fight
            <4> QED
                BY <4>5, <4>6
        <3> QED
            BY <3>1, <3>2
    <2>2. hit' \in [Enemy -> BOOLEAN]
        BY DEF Clock, Registers, EnemyClock, EnemyLatch
    <2>3. RowScore' = 0
        BY <2>1, <2>2, NoneCounted DEF RowScore
    <2> QED
        BY <2>1, <2>3 DEF Score
<1> QED
    BY <1>1, <1>2, <1>3, <1>4 DEF QuietInv

(* The registers of a reset. *)
LEMMA QuietStart ==
    ASSUME EnemyInit, LaserInit, BossInit, SignalInit
    PROVE  QuietInv
<1>1. AtHome
    BY DEF AtHome, EnemyInit, Home
<1>2. LaserIsLow
    BY Geometry DEF LaserIsLow, Low, LaserInit, LaserStart
<1> QED
    BY <1>1, <1>2 DEF QuietInv, ShotIsBack, WinIsClean, BossInit, SignalInit

LEMMA QuietInvariant == Spec => []QuietInv
<1>1. Init => QuietInv
    BY QuietStart DEF Init
<1>2. TypeOK /\ RoundInv /\ QuietInv /\ [Next]_vars => QuietInv'
    <2> SUFFICES ASSUME TypeOK, RoundInv, QuietInv, [Next]_vars PROVE QuietInv'
        OBVIOUS
    <2>1. CASE Reset
        <3>1. AtHome'
            BY <2>1 DEF Reset, EnemyReset, AtHome, Home
        <3>2. LaserIsLow'
            BY <2>1, Geometry DEF Reset, LaserReset, LaserStart, LaserIsLow, Low, Muzzle, ShipY
        <3>3. ShotIsBack' /\ WinIsClean'
            BY <2>1 DEF Reset, BossReset, SignalReset, ShotIsBack, WinIsClean
        <3> QED
            BY <3>1, <3>2, <3>3 DEF QuietInv
    <2>2. CASE UNCHANGED vars
        BY <2>2 DEF vars, QuietInv, AtHome, LaserIsLow, Low, Muzzle, ShipY, ShotIsBack,
                    WinIsClean, Score, RowScore
    <2> QED
        BY <2>1, <2>2, QuietStep, NextCases
<1> QED
    BY <1>1, <1>2, TypeCorrect, RoundInvariant, PTL DEF Spec

(* No latch is set again after a win: the shot that hit the boss is back   *)
(* in the ship before the ships are drawn in their slots again.            *)
THEOREM WonIsClean == Spec => []WinIsClean
BY QuietInvariant, PTL DEF QuietInv

-----------------------------------------------------------------------------
(* Every clock edge is a step of the match or leaves it alone. *)
LEMMA EdgeFollowsRules ==
    ASSUME TypeOK, RoundInv, QuietInv, NEW tick \in BOOLEAN, NEW key \in Keys, Clock(tick, key)
    PROVE  Rules!MatchNext \/ UNCHANGED Rules!mvars
<1> DEFINE K == {e \in Enemy : hit[e]}
           L == {e \in Enemy : hit'[e]}
<1>0. state \in State /\ L \subseteq Enemy /\ K \subseteq Enemy /\ (bossHit => boss_fight)
      /\ bossHit \in BOOLEAN /\ bossHit' \in BOOLEAN
    BY DEF TypeOK, RoundInv, BossCountsOnlyInFight, Clock, Registers, BossClock, BossLatch
<1>1. CASE done
    <2>1. L = {} /\ ~bossHit' /\ (play \/ boss_fight)
        BY <1>1, DoneEndsGame, DoneOnlyPlaying DEF RoundInv
    <2>2. CASE died
        <3>1. state' = "GAMEOVER" /\ state \in {"PLAY", "BOSS_FIGHT"}
            BY <2>1, <2>2, Screens DEF play, boss_fight
        <3>2. Rules!Lose
            BY <2>1, <3>1 DEF Rules!Lose, Rules!Screen
        <3> QED
            BY <3>2 DEF Rules!MatchNext
    <2>3. CASE ~died
        <3>1. killed_all2 /\ boss_fight
            BY <1>1, <2>3, RowScoreBounds
            DEF done, killed_all2, Score, RoundInv, BossCountsOnlyInFight, TypeOK, EnemyTypeOK
        <3>2. bossHit /\ state' = "WIN" /\ state = "BOSS_FIGHT"
            BY <2>3, <3>1, BossIsLast, Screens DEF boss_fight
        <3>3. K = Enemy
            BY <3>2 DEF RoundInv, BossRoundCleared
        <3>4. Rules!Win
            BY <2>1, <3>2, <3>3 DEF Rules!Win, Rules!Screen
        <3> QED
            BY <3>4 DEF Rules!MatchNext
    <2> QED
        BY <2>2, <2>3
<1>2. CASE ~done
    <2>0. ~died /\ ~killed_all2 /\ K \subseteq L
        BY <1>2, LatchesHold DEF done
    <2>1. ~bossHit /\ (bossHit' => boss_fight)
        BY <1>0, <1>2, <2>0, BossIsLast, Latches
    <2>2. CASE state = "START"
        <3>1. L = K /\ bossHit' = bossHit
            BY <1>0, <1>2, <2>1, <2>2, QuietScreens DEF boss_fight
        <3> QED
            BY <2>2, <3>1, Screens DEF Rules!MatchNext, Rules!Begin, Rules!Screen, Rules!mvars
    <2>3. CASE state = "WIN"
        <3>1. L = K /\ bossHit' = bossHit
            BY <1>0, <1>2, <2>1, <2>3, QuietScreens DEF boss_fight
        <3> QED
            BY <2>3, <3>1, Screens DEF Rules!MatchNext, Rules!Leave, Rules!Screen, Rules!mvars
    <2>4. CASE state = "GAMEOVER"
        <3>1. bossHit' = bossHit
            BY <1>0, <2>1, <2>4 DEF boss_fight
        <3> QED
            BY <1>0, <2>0, <2>4, <3>1, Screens DEF Rules!MatchNext, Rules!Leave, Rules!Screen
    <2>5. CASE state = "PLAY"
        <3>1. bossHit' = bossHit
            BY <1>0, <2>1, <2>5 DEF boss_fight
        <3>2. CASE killed_all1
            <4>1. RowScore = Cardinality(Enemy)
                BY <2>1, <3>2, RowScoreBounds DEF killed_all1, Score, TypeOK, EnemyTypeOK
            <4>2. K = Enemy
                BY <4>1, RowScoreBounds DEF TypeOK, EnemyTypeOK
            <4>3. L = K
                BY <1>0, <2>0, <4>2
            <4> QED
                BY <2>0, <2>5, <3>1, <3>2, <4>2, <4>3, Screens
                DEF Rules!MatchNext, Rules!Clear, Rules!Screen
        <3>3. CASE ~killed_all1
            <4>1. state' = "PLAY"
                BY <2>0, <2>5, <3>3, Screens
            <4>2. CASE L = K
                BY <2>5, <3>1, <4>1, <4>2 DEF Rules!mvars
            <4>3. CASE L # K
                BY <1>0, <2>0, <2>5, <3>1, <4>1, <4>3
                DEF Rules!MatchNext, Rules!Kill, Rules!Screen
            <4> QED
                BY <4>2, <4>3
        <3> QED
            BY <3>2, <3>3
    <2>6. CASE state \in {"BOSS_LOGO", "BOSS_FIGHT"}
        <3>1. K = Enemy /\ L = K
            BY <1>0, <2>0, <2>6 DEF RoundInv, BossRoundCleared
        <3>2. CASE state = "BOSS_LOGO"
            <4>1. bossHit' = bossHit
                BY <1>0, <2>1, <3>2 DEF boss_fight
            <4> QED
                BY <3>1, <3>2, <4>1, Screens
                DEF Rules!MatchNext, Rules!Engage, Rules!Screen, Rules!mvars
        <3>3. CASE state = "BOSS_FIGHT"
            <4>1. state' = "BOSS_FIGHT"
                BY <2>0, <2>1, <3>3, Screens
            <4>2. CASE bossHit'
                BY <2>1, <3>1, <3>3, <4>1, <4>2
                DEF Rules!MatchNext, Rules!KillBoss, Rules!Screen
            <4>3. CASE ~bossHit'
                BY <1>0, <2>1, <3>1, <3>3, <4>1, <4>3 DEF Rules!mvars
            <4> QED
                BY <4>2, <4>3
        <3> QED
            BY <2>6, <3>2, <3>3
    <2> QED
        BY <1>0, <2>2, <2>3, <2>4, <2>5, <2>6 DEF State
<1> QED
    BY <1>1, <1>2

(* The board keeps the rules of the match, in whatever order keys, ticks,  *)
(* hits, landings and resets come: GameController implements Match.        *)
THEOREM BoardKeepsRules == Spec => ImplementsMatch
<1>1. Init => Rules!MatchInit
    BY DEF Init, SignalInit, EnemyInit, BossInit, Rules!MatchInit
<1>2. TypeOK /\ RoundInv /\ QuietInv /\ [Next]_vars => [Rules!MatchNext]_(Rules!mvars)
    <2> SUFFICES ASSUME TypeOK, RoundInv, QuietInv, [Next]_vars
                 PROVE  Rules!MatchNext \/ UNCHANGED Rules!mvars
        OBVIOUS
    <2>1. CASE Reset
        <3>1. state' = "START" /\ {e \in Enemy : hit'[e]} = {} /\ bossHit' = FALSE
            BY <2>1 DEF Reset, SignalReset, EnemyReset, BossReset
        <3> QED
            BY <3>1 DEF Rules!MatchNext, Rules!PressReset
    <2>2. CASE UNCHANGED vars
        BY <2>2 DEF vars, Rules!mvars
    <2> QED
        BY <2>1, <2>2, EdgeFollowsRules, NextCases
<1> QED
    BY <1>1, <1>2, TypeCorrect, RoundInvariant, QuietInvariant, PTL
    DEF Spec, ImplementsMatch, Rules!MatchSpec

-----------------------------------------------------------------------------
(* Whole numbers of steps. *)
Steps(step) == {k * step : k \in Nat}

LEMMA StepsStep ==
    ASSUME NEW step \in Nat \ {0}, NEW x \in Steps(step)
    PROVE  /\ x \in Nat /\ 0 \in Steps(step) /\ x + step \in Steps(step)
           /\ x > 0 => x >= step /\ x - step \in Steps(step)
<1>1. PICK k \in Nat : x = k * step
    BY DEF Steps
<1>2. x + step = (k + 1) * step /\ 0 = 0 * step /\ x \in Nat
    BY <1>1
<1>3. x + step \in Steps(step) /\ 0 \in Steps(step)
    BY <1>2, k + 1 \in Nat, 0 \in Nat DEF Steps
<1>4. CASE k = 0
    BY <1>1, <1>2, <1>3, <1>4
<1>5. CASE k > 0
    <2>1. k - 1 \in Nat /\ x - step = (k - 1) * step
        BY <1>1, <1>5
    <2>2. x - step \in Steps(step)
        BY <2>1 DEF Steps
    <2>3. (k - 1) * step \in Nat
        BY <2>1
    <2> QED
        BY <1>2, <1>3, <2>1, <2>2, <2>3
<1> QED
    BY <1>4, <1>5

(* The way of a body between the walls: the ship and the boss. *)
OnTrack(x, xm, size, step) ==
    \/ x = Neg(step) /\ xm = step
    \/ /\ x \in Steps(step)
       /\ x + size < XMax + 2 * step
       /\ x + size >= XMax + step => xm = Neg(step)

LEMMA TrackStep ==
    ASSUME NEW size \in Nat \ {0}, NEW step \in Nat \ {0}, NEW margin \in {0, 1},
           step <= size, size < XMax, XMax + 2 * step <= W,
           NEW x, NEW xm \in {0, step, Neg(step)}, NEW turned \in {0, step, Neg(step)},
           OnTrack(x, xm, size, step),
           AtRight(x, size) => turned = Neg(step),
           ~AtRight(x, size) /\ AtLeft(x, margin) => turned = step
    PROVE  OnTrack(Add(x, xm), turned, size, step)
<1>1. XMax \in Nat /\ W \in Nat /\ Neg(step) = W - step /\ step < W - step
    BY WordAssumption DEF Neg, Word
<1>2. CASE x = Neg(step) /\ xm = step
    <2>1. Add(x, xm) = 0
        BY <1>1, <1>2 DEF Add
    <2>2. 0 \in Steps(step)
        BY 0 \in Nat, 0 * step = 0 DEF Steps
    <2> QED
        BY <1>1, <2>1, <2>2 DEF OnTrack
<1>3. CASE x \in Steps(step) /\ x + size < XMax + 2 * step
           /\ (x + size >= XMax + step => xm = Neg(step))
    <2>1. x \in Nat /\ x + step \in Steps(step) /\ (x > 0 => x >= step /\ x - step \in Steps(step))
        BY <1>3, StepsStep
    <2>2. AtRight(x, size) <=> x + size >= XMax
        BY <1>1, <1>3, <2>1 DEF AtRight, Add
    <2>3. CASE xm = 0
        <3>1. Add(x, xm) = x /\ x + size < XMax + step
            BY <1>1, <1>3, <2>1, <2>3 DEF Add
        <3> QED
            BY <1>1, <1>3, <2>1, <3>1 DEF OnTrack
    <2>4. CASE xm = step
        <3>1. x + size < XMax + step
            BY <1>1, <1>3, <2>1, <2>4
        <3>2. Add(x, xm) = x + step
            BY <1>1, <2>1, <2>4, <3>1 DEF Add
        <3>3. x + step + size >= XMax + step => turned = Neg(step)
            BY <1>1, <2>1, <2>2
        <3> QED
            BY <1>1, <2>1, <3>1, <3>2, <3>3 DEF OnTrack
    <2>5. CASE xm = Neg(step) /\ x > 0
        <3>1. Add(x, xm) = x - step
            BY <1>1, <1>3, <2>1, <2>5 DEF Add
        <3> QED
            BY <1>1, <1>3, <2>1, <2>5, <3>1 DEF OnTrack
    <2>6. CASE xm = Neg(step) /\ x = 0
        <3>1. Add(x, xm) = Neg(step)
            BY <1>1, <2>6 DEF Add
        <3>2. ~AtRight(x, size) /\ AtLeft(x, margin)
            BY <1>1, <2>2, <2>6 DEF AtLeft
        <3> QED
            BY <3>1, <3>2 DEF OnTrack
    <2> QED
        BY <2>1, <2>3, <2>4, <2>5, <2>6
<1> QED
    BY <1>2, <1>3 DEF OnTrack

(* The walls, the ship and the boss. *)
LEMMA Walls ==
    /\ {W, XMax, XCenter, ShipSize, EnemySize, LaserW, MuzzleRest, MuzzleFire} \subseteq Nat
    /\ {ShipStep, BossStep} \subseteq Nat \ {0}
    /\ ShipSize > 0 /\ EnemySize > 0 /\ LaserW > 0
    /\ ShipStep <= ShipSize /\ ShipSize < XMax /\ XMax + 2 * ShipStep <= W
    /\ BossStep <= EnemySize /\ EnemySize < XMax /\ XMax + 2 * BossStep <= W
    /\ ShipSize > MuzzleFire + LaserW + 2 * ShipStep - 1 /\ MuzzleRest <= MuzzleFire
    /\ XMax + EnemySize + ShipStep < W
    /\ OnTrack(XCenter, ShipStep, ShipSize, ShipStep)
    /\ OnTrack(XCenter, BossStep, EnemySize, BossStep)
<1>1. /\ {W, XMax, XCenter, ShipSize, EnemySize, LaserW, MuzzleRest, MuzzleFire} \subseteq Nat
      /\ {ShipStep, BossStep} \subseteq Nat \ {0}
      /\ ShipSize > 0 /\ EnemySize > 0 /\ LaserW > 0
    BY WordAssumption DEF Word
<1>2. ShipSize > MuzzleFire + LaserW + 2 * ShipStep - 1 /\ MuzzleRest <= MuzzleFire
    BY <1>1, PlayfieldAssumption
<1>3. /\ XCenter + ShipSize <= XMax /\ XCenter + EnemySize <= XMax
      /\ ShipSize < XMax /\ EnemySize < XMax
      /\ BossStep <= EnemySize
      /\ XMax + 2 * ShipStep <= W /\ XMax + 2 * BossStep <= W
      /\ XMax + EnemySize + ShipStep < W
    BY WallAssumption
<1>4. XCenter \in Steps(ShipStep) /\ XCenter \in Steps(BossStep)
    BY WallAssumption DEF Steps, Word
<1>5. OnTrack(XCenter, ShipStep, ShipSize, ShipStep)
    BY <1>1, <1>3, <1>4 DEF OnTrack
<1>6. OnTrack(XCenter, BossStep, EnemySize, BossStep)
    BY <1>1, <1>3, <1>4 DEF OnTrack
<1> QED
    BY <1>1, <1>2, <1>3, <1>5, <1>6

ShipOnTrack == OnTrack(ship.x, ship.xm, ShipSize, ShipStep)

(* What the boss does when it is not parked. *)
BossOnTrack ==
    \/ boss = BossParked /\ ~boss_fight
    \/ /\ boss.xm \in {BossStep, Neg(BossStep)}
       /\ OnTrack(boss.x, boss.xm, EnemySize, BossStep)

LEMMA ShipKeepsTrack ==
    ASSUME TypeOK, ShipOnTrack, NEW tick \in BOOLEAN, NEW key \in Keys, ShipClock(tick, key)
    PROVE  ShipOnTrack'
<1>1. CASE ship' = ship
    BY <1>1 DEF ShipOnTrack, OnTrack, Neg
<1>2. CASE ShipFrame(key)
    <2>1. ship'.x = Add(ship.x, ship.xm)
        BY <1>2 DEF ShipFrame
    <2>2. /\ AtRight(ship.x, ShipSize) => ship'.xm = Neg(ShipStep)
          /\ ~AtRight(ship.x, ShipSize) /\ AtLeft(ship.x, 0) => ship'.xm = ShipStep
          /\ ship'.xm \in {0, ShipStep, Neg(ShipStep)}
        BY <1>2 DEF ShipFrame, Heading
    <2>3. ship.xm \in {0, ShipStep, Neg(ShipStep)}
        BY DEF TypeOK, ShipTypeOK
    <2>4. OnTrack(Add(ship.x, ship.xm), ship'.xm, ShipSize, ShipStep)
        <3> DEFINE x == ship.x
                   xm == ship.xm
                   turned == ship'.xm
        <3>1. /\ AtRight(x, ShipSize) => turned = Neg(ShipStep)
              /\ ~AtRight(x, ShipSize) /\ AtLeft(x, 0) => turned = ShipStep
              /\ xm \in {0, ShipStep, Neg(ShipStep)} /\ turned \in {0, ShipStep, Neg(ShipStep)}
              /\ OnTrack(x, xm, ShipSize, ShipStep)
            BY <2>2, <2>3 DEF ShipOnTrack
        <3> HIDE DEF x, xm, turned
        <3>2. OnTrack(Add(x, xm), turned, ShipSize, ShipStep)
            <4>1. /\ ShipSize \in Nat \ {0} /\ ShipStep \in Nat \ {0} /\ 0 \in {0, 1}
                  /\ ShipStep <= ShipSize /\ ShipSize < XMax /\ XMax + 2 * ShipStep <= W
                BY Walls
            <4> QED
                BY <3>1, <4>1, TrackStep, Zenon
        <3> QED
            BY <3>2 DEF x, xm, turned
    <2> QED
        BY <2>1, <2>4 DEF ShipOnTrack, OnTrack, Neg
<1> QED
    BY <1>1, <1>2 DEF ShipClock

(* A boss that flies keeps its track; one that is parked has been hit, and *)
(* the fight is over.                                                      *)
LEMMA BossKeepsTrack ==
    ASSUME TypeOK, RoundInv, BossOnTrack,
           NEW tick \in BOOLEAN, NEW key \in Keys, Clock(tick, key)
    PROVE  BossOnTrack'
<1> USE DEF BossOnTrack
<1>1. CASE boss' = BossHome
    <2>1. OnTrack(boss'.x, boss'.xm, EnemySize, BossStep) /\ boss'.xm = BossStep
        BY <1>1, Walls DEF BossHome
    <2> QED
        BY <2>1 DEF OnTrack, Neg
<1>2. CASE boss_fight /\ bossHit /\ boss' = BossParked
    <2>1. state' \in {"GAMEOVER", "WIN"}
        BY <1>2, Screens DEF boss_fight
    <2> QED
        BY <1>2, <2>1 DEF boss_fight, BossParked
<1>3. CASE boss_fight /\ ~bossHit /\ boss' = boss
    BY <1>3 DEF OnTrack, Neg
<1>4. CASE boss_fight /\ ~bossHit /\ boss' = BossFly(key)
    <2> DEFINE x == boss.x
               xm == boss.xm
               turned == BossHeading(key)
    <2>1. xm \in {BossStep, Neg(BossStep)} /\ OnTrack(x, xm, EnemySize, BossStep)
        BY <1>4
    <2>2. /\ AtRight(x, EnemySize) => turned = Neg(BossStep)
          /\ ~AtRight(x, EnemySize) /\ AtLeft(x, 1) => turned = BossStep
        BY DEF BossHeading, BossAtEdge
    <2>3. Neg(Neg(BossStep)) = BossStep
        BY Walls DEF Neg
    <2>4. turned \in {BossStep, Neg(BossStep)}
        BY <2>1, <2>3 DEF BossHeading
    <2>5. boss'.x = Add(x, xm) /\ boss'.xm = turned
        BY <1>4 DEF BossFly
    <2> HIDE DEF x, xm, turned
    <2>6. OnTrack(Add(x, xm), turned, EnemySize, BossStep)
        <3>1. /\ EnemySize \in Nat \ {0} /\ BossStep \in Nat \ {0} /\ 1 \in {0, 1}
              /\ BossStep <= EnemySize /\ EnemySize < XMax /\ XMax + 2 * BossStep <= W
              /\ xm \in {0, BossStep, Neg(BossStep)} /\ turned \in {0, BossStep, Neg(BossStep)}
            BY <2>1, <2>4, Walls
        <3> QED
            BY <2>1, <2>2, <3>1, TrackStep, Zenon
    <2> QED
        BY <2>4, <2>5, <2>6 DEF OnTrack, Neg
<1>5. CASE ~boss_fight /\ boss' = BossHome
    BY <1>1, <1>5
<1> QED
    BY <1>1, <1>2, <1>3, <1>4 DEF Clock, Registers, BossClock, BossMove

TrackInv == ShipOnTrack /\ BossOnTrack

LEMMA TrackInvariant == Spec => []TrackInv
<1>1. Init => TrackInv
    BY Walls DEF Init, ShipInit, ShipStart, BossInit, BossHome, TrackInv, ShipOnTrack, BossOnTrack
<1>2. TypeOK /\ RoundInv /\ TrackInv /\ [Next]_vars => TrackInv'
    <2> SUFFICES ASSUME TypeOK, RoundInv, TrackInv, [Next]_vars PROVE TrackInv'
        OBVIOUS
    <2>1. ASSUME NEW tick \in BOOLEAN, NEW key \in Keys, Clock(tick, key)
          PROVE  TrackInv'
        BY <2>1, ShipKeepsTrack, BossKeepsTrack DEF TrackInv, Clock, Registers
    <2>2. CASE Reset
        <3>1. ship'.x = XCenter /\ ship'.xm = ShipStep /\ boss'.x = XCenter /\ boss'.xm = BossStep
            BY <2>2 DEF Reset, ShipReset, ShipStart, BossReset, BossHome
        <3>2. OnTrack(ship'.x, ship'.xm, ShipSize, ShipStep)
              /\ OnTrack(boss'.x, boss'.xm, EnemySize, BossStep)
            BY <3>1, Walls
        <3> QED
            BY <3>1, <3>2 DEF TrackInv, ShipOnTrack, BossOnTrack, OnTrack, Neg
    <2>3. CASE UNCHANGED vars
        BY <2>3 DEF vars, TrackInv, ShipOnTrack, BossOnTrack, OnTrack, Neg, boss_fight
    <2> QED
        BY <2>1, <2>2, <2>3, NextCases
<1> QED
    BY <1>1, <1>2, TypeCorrect, RoundInvariant, PTL DEF Spec

(* Whatever keys are held on whatever screen, the ship turns at the walls. *)
THEOREM ShipStaysOnTrack == Spec => []ShipTrack
<1>1. TypeOK /\ TrackInv => ShipTrack
    BY DEF TypeOK, ShipTypeOK, TrackInv, ShipOnTrack, OnTrack, ShipTrack
<1> QED
    BY <1>1, TypeCorrect, TrackInvariant, PTL

(* However the boss dodges, it turns at the walls. *)
THEOREM BossStaysOnTrack == Spec => []BossTrack
<1>1. TrackInv => BossTrack
    <2> SUFFICES ASSUME OnTrack(boss.x, boss.xm, EnemySize, BossStep) PROVE BossTrack
        BY DEF TrackInv, BossOnTrack, BossTrack
    <2>1. CASE boss.x = Neg(BossStep) /\ boss.xm = BossStep
        BY <2>1 DEF BossTrack
    <2>2. CASE boss.x \in Steps(BossStep)
        <3>1. boss.x \in Nat
            BY <2>2, Walls, StepsStep
        <3> QED
            BY <3>1, <2>2, Walls DEF OnTrack, BossTrack
    <2> QED
        BY <2>1, <2>2 DEF OnTrack
<1> QED
    BY <1>1, TrackInvariant, PTL

-----------------------------------------------------------------------------
(* A column of the laser in which nothing that is parked can be met: it    *)
(* ends left of XMax, or it is that of a ship beyond the left wall.        *)
Free(x) == x + LaserW < XMax \/ x >= W - ShipStep

LEMMA ParkedIsSafe ==
    ASSUME NEW l, l.x \in Word, Free(l.x)
    PROVE  ~Overlaps(Parked, l)
<1>1. l.x \in Nat /\ l.x < W
    BY Walls DEF Word
<1>2. Add(XMax, EnemySize) = XMax + EnemySize
    BY Walls DEF Add
<1>3. ~Within(l.x, XMax)
    BY <1>1, <1>2, Walls DEF Within, Free
<1>4. Add(l.x, LaserW) < XMax \/ Add(l.x, LaserW) >= W - ShipStep
    BY <1>1, Walls DEF Free, Add
<1>5. ~Within(Add(l.x, LaserW), XMax)
    BY <1>1, <1>2, <1>4, Walls DEF Within, Add
<1> QED
    BY <1>3, <1>5 DEF Overlaps, Parked

(* The columns the ship gives the laser are of that kind. *)
LEMMA ShipColumns ==
    ASSUME NEW x \in Word, NEW xm, OnTrack(x, xm, ShipSize, ShipStep),
           NEW dx \in {MuzzleRest, MuzzleFire}
    PROVE  Free(Add(x, dx))
<1>1. x \in Nat /\ x < W /\ dx \in Nat /\ dx <= MuzzleFire
    BY Walls DEF Word
<1>2. CASE x = Neg(ShipStep)
    <2>1. x = W - ShipStep
        BY <1>2, Walls DEF Neg
    <2> QED
        BY <1>1, <2>1, Walls DEF Add, Free
<1>3. CASE x + ShipSize < XMax + 2 * ShipStep
    BY <1>1, <1>3, Walls DEF Add, Free
<1> QED
    BY <1>2, <1>3 DEF OnTrack

(* Nothing in the laser's way: a ship above the bottom row does not reach  *)
(* down to a laser in the muzzle.                                          *)
LEMMA MuzzleIsHarmless ==
    ASSUME NEW s, s.y \in Word, s.y < Bottom, NEW l, l.y = Muzzle
    PROVE  ~Overlaps(s, l)
<1>1. s.y \in Nat /\ ShipSize \in Nat /\ ShipSize + EnemySize < YMax
    BY WordAssumption, PlayfieldAssumption DEF Word
<1>2. s.y + EnemySize < Muzzle
    BY <1>1, Geometry DEF Bottom, Muzzle, ShipY
<1>3. Add(s.y, EnemySize) = s.y + EnemySize /\ Add(l.y, LaserH) = l.y + LaserH
    BY <1>1, <1>2, Geometry DEF Add
<1>4. ~Within(l.y, s.y) /\ ~Within(Add(l.y, LaserH), s.y)
    BY <1>1, <1>2, <1>3, Geometry DEF Within
<1> QED
    BY <1>4 DEF Overlaps

LaserIsFree == Free(laser.x)
(* A ship that is counted is parked, or will be before the laser moves. *)
DeadAreParked ==
    play => \A e \in Enemy : hit[e] => enemy[e] = Parked \/ laser.y = Muzzle
(* A laser nobody fired lies in the ship, or is past the top. *)
IdleIsDown == ~laser.space => laser.y = Muzzle \/ PastTop

ShotInv == LaserIsFree /\ DeadAreParked /\ IdleIsDown

LEMMA ShotStep ==
    ASSUME TypeOK, RoundInv, TrackInv, ShotInv,
           NEW tick \in BOOLEAN, NEW key \in Keys, Clock(tick, key)
    PROVE  ShotInv'
<1>1. LaserClock(tick, key, play \/ boss_fight, ship.x, laser_hit)
    BY DEF Clock, Registers
<1>2. laser \in [x : Word, y : Word, ym : {0, Up}, space : BOOLEAN]
    BY DEF TypeOK
<1>3. ASSUME NEW dx \in {MuzzleRest, MuzzleFire}, NEW ym, NEW space,
             laser' = AtMuzzle(ship.x, dx, ym, space)
      PROVE  laser'.y = Muzzle /\ Free(laser'.x)
    <2>1. ship.x \in Word /\ OnTrack(ship.x, ship.xm, ShipSize, ShipStep)
        BY DEF TypeOK, ShipTypeOK, TrackInv, ShipOnTrack
    <2>2. Free(Add(ship.x, dx))
        BY <2>1, ShipColumns
    <2> QED
        BY <1>3, <2>2, Geometry DEF AtMuzzle
<1>4. \/ laser'.y = Muzzle /\ Free(laser'.x)
      \/ laser' = laser
      \/ laser' = [laser EXCEPT !.space = FALSE] /\ PastTop
      \/ laser' = LaserRise /\ laser.space
    <2>1. CASE LaserFrame(ship.x, key)
        <3>1. CASE laser' = AtMuzzle(ship.x, MuzzleFire, Up, TRUE)
            BY <1>3, <3>1
        <3>2. CASE laser' = AtMuzzle(ship.x, MuzzleRest, 0, key = "Space")
            BY <1>3, <3>2
        <3> QED
            BY <2>1, <3>1, <3>2, Zenon DEF LaserFrame
    <2>2. CASE laser' = AtMuzzle(ship.x, MuzzleRest, 0, FALSE)
        BY <1>3, <2>2
    <2>3. CASE laser' = AtMuzzle(ship.x, MuzzleFire, Up, key = "Space")
        BY <1>3, <2>3
    <2> QED
        BY <1>1, <2>1, <2>2, <2>3, Zenon DEF LaserClock
<1>5. Free(laser'.x)
    BY <1>2, <1>4 DEF ShotInv, LaserIsFree, LaserRise
<1>6. LaserIsFree'
    BY <1>5 DEF LaserIsFree, Free
<1>7. IdleIsDown'
    BY <1>2, <1>4 DEF ShotInv, IdleIsDown, PastTop, LaserRise, Muzzle, ShipY
<1>8. DeadAreParked'
    <2> SUFFICES ASSUME state' = "PLAY", NEW e \in Enemy, hit'[e]
                 PROVE  enemy'[e] = Parked \/ laser'.y = Muzzle
        BY DEF DeadAreParked, play, Parked, Muzzle, ShipY
    <2>1. state \in {"START", "PLAY"} /\ (play => ~died)
        BY Screens DEF TypeOK, State, play
    <2>2. CASE state = "START"
        BY <2>2, LaserReturns DEF play, boss_fight
    <2>3. CASE state = "PLAY" /\ hit[e]
        <3>1. ~(enemy[e].y >= Bottom)
            BY <2>1, <2>3 DEF died, RowGameover, play
        <3>2. enemy[e].y < Bottom
            BY <3>1, WordAssumption DEF TypeOK, Body, Word, Bottom
        <3>3. enemy'[e] = Parked
            BY <2>3, <3>1, <3>2 DEF Clock, Registers, EnemyClock, EnemyStepOf, play
        <3> QED
            BY <3>3
    <2>4. CASE state = "PLAY" /\ ~hit[e]
        <3>1. Overlaps(enemy[e], laser)
            BY <2>4 DEF Clock, Registers, EnemyClock, EnemyLatch
        <3>2. laser_hit
            BY <2>4, <3>1 DEF laser_hit, RowLaserHit, play
        <3> QED
            BY <3>2, HitReturns
    <2> QED
        BY <2>1, <2>2, <2>3, <2>4
<1> QED
    BY <1>6, <1>7, <1>8 DEF ShotInv

LEMMA ShotInvariant == Spec => []ShotInv
<1>0. Free(XCenter)
    BY Walls, WallAssumption DEF Free
<1>1. Init => ShotInv
    <2> SUFFICES ASSUME Init PROVE ShotInv
        OBVIOUS
    <2>1. YMax >= YMax
        BY Geometry
    <2> QED
        BY <1>0, <2>1 DEF Init, LaserInit, LaserStart, SignalInit, ShotInv, LaserIsFree,
                DeadAreParked, IdleIsDown, PastTop, play
<1>2. TypeOK /\ RoundInv /\ TrackInv /\ ShotInv /\ [Next]_vars => ShotInv'
    <2> SUFFICES ASSUME TypeOK, RoundInv, TrackInv, ShotInv, [Next]_vars PROVE ShotInv'
        OBVIOUS
    <2>1. CASE Reset
        <3>1. laser'.x = XCenter /\ laser'.y = YMax /\ YMax >= YMax /\ state' = "START"
            BY <2>1, Geometry DEF Reset, LaserReset, LaserStart, SignalReset
        <3> QED
            BY <1>0, <3>1 DEF ShotInv, LaserIsFree, Free, DeadAreParked, IdleIsDown, PastTop, play
    <2>2. CASE UNCHANGED vars
        BY <2>2 DEF vars, ShotInv, LaserIsFree, Free, DeadAreParked, IdleIsDown, PastTop, play,
                    Parked, Muzzle, ShipY
    <2> QED
        BY <2>1, <2>2, ShotStep, NextCases
<1> QED
    BY <1>1, <1>2, TypeCorrect, RoundInvariant, TrackInvariant, PTL DEF Spec

-----------------------------------------------------------------------------
LEMMA MoreCounted ==
    ASSUME NEW h \in [Enemy -> BOOLEAN], NEW g \in [Enemy -> BOOLEAN],
           \A e \in Enemy : h[e] => g[e]
    PROVE  /\ Cardinality({e \in Enemy : h[e]}) \in Nat
           /\ Cardinality({e \in Enemy : g[e]}) \in Nat
           /\ Cardinality({e \in Enemy : h[e]}) <= Cardinality({e \in Enemy : g[e]})
           /\ (\E e \in Enemy : g[e] /\ ~h[e]) =>
                  Cardinality({e \in Enemy : h[e]}) < Cardinality({e \in Enemy : g[e]})
<1> DEFINE H == {e \in Enemy : h[e]}
           G == {e \in Enemy : g[e]}
<1>1. G \in SUBSET Enemy /\ H \in SUBSET G /\ IsFiniteSet(Enemy)
    BY EnemyAssumption
<1>2. IsFiniteSet(G) /\ IsFiniteSet(H)
    BY <1>1, FS_Subset
<1>3. Cardinality(H) \in Nat /\ Cardinality(G) \in Nat /\ Cardinality(H) <= Cardinality(G)
      /\ (Cardinality(H) = Cardinality(G) => H = G)
    BY <1>1, <1>2, FS_Subset, FS_CardinalityType
<1>4. (\E e \in Enemy : g[e] /\ ~h[e]) => H # G
    OBVIOUS
<1> HIDE DEF H, G
<1>5. (\E e \in Enemy : g[e] /\ ~h[e]) => Cardinality(H) < Cardinality(G)
    BY <1>3, <1>4
<1> QED
    BY <1>3, <1>5 DEF H, G

(* One hit more in the rows, or the boss. *)
LEMMA ScoreRises ==
    ASSUME RowScore \in Nat, RowScore' \in Nat, ~bossHit,
           RowScore <= RowScore', bossHit' \/ RowScore < RowScore'
    PROVE  Score' > Score
<1>1. PICK n \in Nat : n = RowScore
    OBVIOUS
<1>2. PICK m \in Nat : m = RowScore'
    OBVIOUS
<1>3. n <= m /\ (bossHit' \/ n < m) /\ Score = n
    BY <1>1, <1>2 DEF Score
<1>4. CASE bossHit'
    <2>1. Score' = m + 1
        BY <1>2, <1>4 DEF Score
    <2> QED
        BY <1>3, <2>1
<1>5. CASE ~bossHit'
    <2>1. Score' = m + 0
        BY <1>2, <1>5 DEF Score
    <2> QED
        BY <1>3, <1>5, <2>1
<1> QED
    BY <1>4, <1>5

(* No cycle loses a hit: a laser that touches something counts or the game *)
(* ends.                                                                   *)
THEOREM NoShotIsSwallowed == Spec => NoSwallowedShot
<1> DEFINE OK == laser_hit => Reset \/ Score' > Score \/ done
<1>1. TypeOK /\ TypeOK' /\ RoundInv /\ ShotInv /\ [Next]_vars => [OK]_vars
    <2> SUFFICES ASSUME TypeOK, TypeOK', RoundInv, ShotInv, [Next]_vars, ~(UNCHANGED vars),
                        laser_hit, ~Reset, ~done
                 PROVE  Score' > Score
        OBVIOUS
    <2>1. PICK tick \in BOOLEAN, key \in Keys : Clock(tick, key)
        BY NextCases
    <2>2. /\ \A e \in Enemy : hit'[e] <=> hit[e] \/ Overlaps(enemy[e], laser)
          /\ bossHit' <=> boss_fight /\ (bossHit \/ Overlaps(boss, laser))
        BY <2>1, Latches
    <2>3. hit \in [Enemy -> BOOLEAN] /\ hit' \in [Enemy -> BOOLEAN]
          /\ \A e \in Enemy : hit[e] => hit'[e]
        BY <2>2 DEF TypeOK
    <2>4. /\ RowScore \in Nat /\ RowScore' \in Nat /\ RowScore <= RowScore'
          /\ (\E e \in Enemy : hit'[e] /\ ~hit[e]) => RowScore < RowScore'
        BY <2>3, MoreCounted DEF RowScore
    <2>5. CASE boss_fight
        <3>1. ~bossHit
            BY <2>5, BossIsLast DEF done
        <3>2. bossHit'
            BY <2>2, <2>5, <3>1 DEF laser_hit, RowLaserHit, BossLaserHit, play, boss_fight
        <3> QED
            BY <2>4, <3>1, <3>2, ScoreRises
    <2>6. CASE ~boss_fight
        <3>1. play /\ ~bossHit
            BY <2>6 DEF laser_hit, RowLaserHit, BossLaserHit, RoundInv, BossCountsOnlyInFight
        <3>2. PICK e \in Enemy : Overlaps(enemy[e], laser)
            BY <2>6 DEF laser_hit, RowLaserHit, BossLaserHit
        <3>3. enemy[e].y \in Word /\ enemy[e].y < Bottom
            <4>1. ~(enemy[e].y >= Bottom)
                BY <3>1 DEF done, died, RowGameover
            <4> QED
                BY <4>1, WordAssumption DEF TypeOK, Body, Word, Bottom
        <3>4. laser.x \in Word
            BY DEF TypeOK
        <3>5. ~hit[e]
            BY <3>1, <3>2, <3>3, <3>4, ParkedIsSafe, MuzzleIsHarmless
            DEF ShotInv, LaserIsFree, DeadAreParked
        <3>6. RowScore < RowScore' /\ ~bossHit'
            BY <2>2, <2>4, <2>6, <3>2, <3>5
        <3> QED
            BY <2>4, <3>1, <3>6, ScoreRises
    <2> QED
        BY <2>5, <2>6
<1> QED
    BY <1>1, TypeCorrect, RoundInvariant, ShotInvariant, PTL DEF Spec, NoSwallowedShot

(* No cycle counts what was not shot at. *)
THEOREM OnlyShotsCount == Spec => OnlyShotsScore
<1> DEFINE OK == Score' > Score /\ play => laser.space \/ PastTop
<1>1. TypeOK /\ TypeOK' /\ RoundInv /\ RoundInv' /\ ShotInv /\ [Next]_vars => [OK]_vars
    <2> SUFFICES ASSUME TypeOK, TypeOK', RoundInv, ShotInv, [Next]_vars, ~(UNCHANGED vars),
                        play, ~laser.space, ~PastTop
                 PROVE  ~(Score' > Score)
        OBVIOUS
    <2>0. ~bossHit /\ Score = RowScore /\ RowScore \in Nat
        BY RowScoreBounds
        DEF Score, RoundInv, BossCountsOnlyInFight, play, boss_fight, TypeOK, EnemyTypeOK
    <2>1. ASSUME \A e \in Enemy : ~hit'[e], ~bossHit'
          PROVE  Score' = 0
        <3>1. hit' \in [Enemy -> BOOLEAN]
            BY DEF TypeOK
        <3> QED
            BY <2>1, <3>1, NoneCounted DEF Score, RowScore
    <2>2. CASE Reset
        <3>1. (\A e \in Enemy : ~hit'[e]) /\ ~bossHit'
            BY <2>2 DEF Reset, EnemyReset, BossReset
        <3> QED
            BY <2>0, <2>1, <3>1
    <2>3. ASSUME NEW tick \in BOOLEAN, NEW key \in Keys, Clock(tick, key)
          PROVE  ~(Score' > Score)
        <3>1. CASE done
            BY <2>0, <2>1, <2>3, <3>1, DoneEndsGame DEF RoundInv
        <3>2. CASE ~done
            <4>1. laser.y = Muzzle
                BY DEF ShotInv, IdleIsDown
            <4>2. ASSUME NEW e \in Enemy
                  PROVE  ~Overlaps(enemy[e], laser)
                <5>1. ~(enemy[e].y >= Bottom)
                    BY <3>2 DEF done, died, RowGameover
                <5>2. enemy[e].y \in Word /\ enemy[e].y < Bottom
                    BY <5>1, WordAssumption DEF TypeOK, Body, Word, Bottom
                <5> QED
                    BY <4>1, <5>2, MuzzleIsHarmless
            <4>3. (\A e \in Enemy : hit'[e] <=> hit[e]) /\ ~bossHit'
                BY <2>3, <3>2, <4>2, Latches DEF play, boss_fight
            <4>4. RowScore' = RowScore
                BY <4>3 DEF RowScore
            <4> QED
                BY <2>0, <4>3, <4>4 DEF Score
        <3> QED
            BY <3>1, <3>2
    <2> QED
        BY <2>2, <2>3, NextCases
<1> QED
    BY <1>1, TypeCorrect, RoundInvariant, ShotInvariant, PTL DEF Spec, OnlyShotsScore

-----------------------------------------------------------------------------
(* What is used of remainders. *)
LEMMA Remainder ==
    ASSUME NEW n \in Nat \ {0}, NEW a \in Nat
    PROVE  /\ (a % n) \in 0 .. n - 1
           /\ \E q \in Nat : a = q * n + (a % n)
           /\ \A q \in Nat, r \in 0 .. n - 1 : a = q * n + r => a % n = r
<1>1. (a % n) \in 0 .. n - 1 /\ (a \div n) \in Nat /\ a = (a \div n) * n + (a % n)
    BY SMT
<1>2. ASSUME NEW q \in Nat, NEW r \in 0 .. n - 1, a = q * n + r
      PROVE  a % n = r
    BY <1>2, SMT
<1> QED
    BY <1>1, <1>2

(* The rows of a flight: where it starts, a step up, and the step over the *)
(* top.                                                                    *)
LEMMA FlightRows ==
    /\ Muzzle \in Rows
    /\ \A y \in Rows : y \in Nat /\ y <= Muzzle
    /\ \A y \in Rows : y >= LaserStep => Add(y, Up) = y - LaserStep /\ y - LaserStep \in Rows
    /\ \A y \in Rows : y < LaserStep => Add(y, Up) = OverTop /\ OverTop >= YMax
<1>1. LaserStep \in Nat \ {0} /\ Muzzle \in Nat /\ W \in Nat /\ YMax \in Nat
      /\ YMax + LaserStep <= W /\ LaserStep < W /\ Muzzle < W
    BY Geometry, WordAssumption, PlayfieldAssumption DEF Word
<1>2. Up = W - LaserStep
    BY <1>1 DEF Up, Neg
<1>3. (Muzzle - Muzzle) % LaserStep = 0
    BY <1>1, Remainder, 0 = 0 * LaserStep + 0, Muzzle - Muzzle = 0
<1>4. ASSUME NEW y \in Rows
      PROVE  /\ y \in Nat /\ y <= Muzzle
             /\ y >= LaserStep => Add(y, Up) = y - LaserStep /\ y - LaserStep \in Rows
             /\ y < LaserStep => Add(y, Up) = OverTop /\ OverTop >= YMax
    <2>1. y \in Nat /\ y <= Muzzle /\ Muzzle - y \in Nat /\ (Muzzle - y) % LaserStep = 0
        BY <1>1 DEF Rows
    <2>2. PICK q \in Nat : Muzzle - y = q * LaserStep + 0
        BY <1>1, <2>1, Remainder
    <2>3. CASE y >= LaserStep
        <3>1. y - LaserStep \in 0 .. Muzzle /\ Muzzle - (y - LaserStep) = Muzzle - y + LaserStep
            BY <1>1, <2>1, <2>3
        <3>2. Muzzle - (y - LaserStep) = (q + 1) * LaserStep + 0
            BY <1>1, <2>1, <2>2, <3>1
        <3>3. (Muzzle - (y - LaserStep)) % LaserStep = 0
            <4> DEFINE n == Muzzle - (y - LaserStep)
                       p == q + 1
            <4>1. n \in Nat /\ p \in Nat /\ 0 \in 0 .. LaserStep - 1
                BY <1>1, <2>1, <3>1
            <4>2. n = p * LaserStep + 0
                BY <3>2
            <4> HIDE DEF n, p
            <4>3. n % LaserStep = 0
                BY <1>1, <4>1, <4>2, Remainder
            <4> QED
                BY <4>3 DEF n
        <3>4. Add(y, Up) = y - LaserStep
            BY <1>1, <1>2, <2>1, <2>3 DEF Add
        <3> QED
            BY <1>1, <2>1, <2>3, <3>1, <3>3, <3>4 DEF Rows
    <2>4. CASE y < LaserStep
        <3>1. Muzzle = q * LaserStep + y
            BY <1>1, <2>1, <2>2
        <3>2. Muzzle % LaserStep = y
            <4>1. y \in 0 .. LaserStep - 1
                BY <1>1, <2>1, <2>4
            <4> QED
                BY <1>1, <3>1, <4>1, Remainder
        <3>3. Add(y, Up) = y + W - LaserStep
            BY <1>1, <1>2, <2>1, <2>4 DEF Add
        <3> QED
            BY <1>1, <2>1, <2>4, <3>2, <3>3 DEF OverTop
    <2> QED
        BY <1>1, <2>1, <2>3, <2>4
<1> QED
    BY <1>1, <1>3, <1>4 DEF Rows

(* A laser in the ship, or one that came in over the top, is not in        *)
(* flight.                                                                 *)
LEMMA DownIsOnTrack ==
    ASSUME laser.y = Muzzle \/ laser.y = YMax
    PROVE  LaserTrack
<1>1. laser.y = YMax => PastTop
    BY Geometry DEF PastTop
<1>2. ~InFlight
    BY Geometry DEF InFlight
<1> QED
    BY <1>1, <1>2, FlightRows DEF LaserTrack

LEMMA LaserKeepsTrack ==
    ASSUME TypeOK, LaserTrack, NEW tick \in BOOLEAN, NEW key \in Keys, Clock(tick, key)
    PROVE  LaserTrack'
<1>1. laser \in [x : Word, y : Word, ym : {0, Up}, space : BOOLEAN]
    BY DEF TypeOK
<1>2. ASSUME laser'.y = Muzzle
      PROVE  LaserTrack'
    <2>1. ~(laser'.y < Muzzle)
        BY <1>2, Geometry
    <2> QED
        BY <1>2, <2>1, FlightRows DEF LaserTrack, InFlight, Rows, Muzzle, ShipY
<1>3. ASSUME NEW dx, NEW ym, NEW space, laser' = AtMuzzle(ship.x, dx, ym, space)
      PROVE  LaserTrack'
    BY <1>2, <1>3, Geometry DEF AtMuzzle
<1>4. CASE laser' = laser
    BY <1>4 DEF LaserTrack, PastTop, InFlight, Rows, OverTop, Add, Up, Neg, Muzzle, ShipY
<1>5. CASE laser' = [laser EXCEPT !.space = FALSE] /\ PastTop
    <2>1. laser'.y = laser.y /\ laser'.y >= YMax /\ laser.y \in Nat
        BY <1>1, <1>5 DEF PastTop, Word
    <2>2. ~(laser'.y < Muzzle)
        BY <2>1, Geometry
    <2> QED
        BY <2>1, <2>2
           DEF LaserTrack, PastTop, InFlight, Rows, OverTop, Add, Up, Neg, Muzzle, ShipY
<1>6. CASE laser' = LaserRise /\ laser.space /\ ~PastTop
    <2>1. /\ laser'.y = Add(laser.y, laser.ym) /\ laser'.ym = Up /\ laser'.space
          /\ laser.ym \in {0, Up} /\ laser.y \in Rows
        BY <1>1, <1>6 DEF LaserRise, LaserTrack
    <2>2. laser'.y \in Rows \/ (laser'.y = OverTop /\ laser'.y >= YMax)
        <3>1. CASE laser.ym = Up
            BY <2>1, <3>1, FlightRows, Geometry
        <3>2. CASE laser.ym = 0
            <4>1. laser.y \in Nat /\ laser.y < W
                BY <1>1, Geometry DEF Word
            <4>2. laser'.y = laser.y
                BY <2>1, <3>2, <4>1, Geometry DEF Add
            <4> QED
                BY <2>1, <4>2
        <3> QED
            BY <2>1, <3>1, <3>2
    <2> QED
        BY <2>1, <2>2
           DEF LaserTrack, PastTop, InFlight, Rows, OverTop, Add, Up, Neg, Muzzle, ShipY
<1>7. CASE LaserFrame(ship.x, key)
    <2>1. CASE laser' = AtMuzzle(ship.x, MuzzleFire, Up, TRUE)
        BY <1>3, <2>1
    <2>2. CASE laser' = AtMuzzle(ship.x, MuzzleRest, 0, key = "Space")
        BY <1>3, <2>2
    <2> QED
        BY <1>5, <1>6, <1>7, <2>1, <2>2, Zenon DEF LaserFrame
<1>8. CASE laser' = AtMuzzle(ship.x, MuzzleRest, 0, FALSE)
    BY <1>3, <1>8
<1>9. CASE laser' = AtMuzzle(ship.x, MuzzleFire, Up, key = "Space")
    BY <1>3, <1>9
<1>10. LaserClock(tick, key, play \/ boss_fight, ship.x, laser_hit)
    BY DEF Clock, Registers
<1> QED
    BY <1>4, <1>7, <1>8, <1>9, <1>10, Zenon DEF LaserClock

(* The shot keeps to the rows of its flight whatever it is aimed at, and   *)
(* reaches the one row past the top that brings it back (laser.sv:114).    *)
THEOREM LaserStaysOnTrack == Spec => []LaserTrack
<1>1. Init => LaserTrack
    BY DownIsOnTrack DEF Init, LaserInit, LaserStart
<1>2. TypeOK /\ LaserTrack /\ [Next]_vars => LaserTrack'
    <2> SUFFICES ASSUME TypeOK, LaserTrack, [Next]_vars PROVE LaserTrack'
        OBVIOUS
    <2>1. CASE Reset
        <3>1. laser'.y = YMax /\ YMax >= YMax /\ ~(YMax < Muzzle)
            BY <2>1, Geometry DEF Reset, LaserReset, LaserStart
        <3> QED
            BY <3>1 DEF LaserTrack, PastTop, InFlight, Rows, OverTop, Add, Up, Neg, Muzzle, ShipY
    <2>2. CASE UNCHANGED vars
        BY <2>2
           DEF vars, LaserTrack, PastTop, InFlight, Rows, OverTop, Add, Up, Neg, Muzzle, ShipY
    <2> QED
        BY <2>1, <2>2, LaserKeepsTrack, NextCases
<1> QED
    BY <1>1, <1>2, TypeCorrect, PTL DEF Spec

-----------------------------------------------------------------------------
(* The way of a ship down the screen: leg after leg from one wall to the   *)
(* other, Right columns each, and three drops at the start of every leg    *)
(* but the first.  Column counts from the wall the leg starts at; Due is   *)
(* what the ship still drops, Level where it will fly.                     *)
Right == XMax - EnemySize + 1
Column(s) == IF s.xm = EnemyStep THEN s.x ELSE Right - s.x
Due(c) == IF c = 0 THEN 3 * Drop ELSE IF c = 1 THEN 2 * Drop ELSE IF c = 2 THEN Drop ELSE 0
Level(s) == s.y + Due(Column(s))

OnPath(s) ==
    /\ s.xm \in {EnemyStep, Neg(EnemyStep)}
    /\ s.x \in 0 .. Right /\ s.y \in Nat
    /\ Column(s) \in 0 .. Right - 1
    /\ s.ym = IF Column(s) <= 2 THEN Drop ELSE 0

(* A ship in a row it can come to, the one it lands in included. *)
Falls(s, slot) ==
    s.y \in slot.y .. Bottom + Drop - 1 /\ (s.y - slot.y) % Drop = 0

(* Two ships, s in the slot at or right of the other's: s is ahead by as   *)
(* many columns, either on the same leg or on the next one.                *)
Abreast(s, t, a, b) ==
    /\ s.xm = t.xm /\ Column(s) + b.x = Column(t) + a.x
    /\ Level(s) + b.y = Level(t) + a.y

NextLeg(s, t, a, b) ==
    /\ s.xm # t.xm /\ Column(s) + Right + b.x = Column(t) + a.x
    /\ Level(s) + b.y = Level(t) + a.y + 3 * Drop

LEMMA Board ==
    /\ W \in Nat /\ XMax \in Nat /\ EnemySize \in Nat /\ Drop \in Nat /\ Right \in Nat
    /\ EnemyStep = 1 /\ Neg(EnemyStep) = W - 1 /\ W > 2 /\ Drop > 0 /\ Right > 4
    /\ EnemySize > 0
    /\ Right = XMax - EnemySize + 1 /\ XMax + EnemySize < W
    /\ Bottom \in Nat /\ Bottom + Drop < W /\ Bottom + EnemySize = ShipY
    /\ \A e \in Enemy : /\ Slot[e].x \in Nat /\ Slot[e].y \in Nat /\ Slot[e].y < Bottom
                         /\ 2 < Slot[e].x /\ Slot[e].x < Right - 1
<1>1. /\ W \in Nat /\ XMax \in Nat /\ EnemySize \in Nat /\ Drop \in Nat /\ YMax \in Nat
      /\ ShipSize \in Nat /\ Drop > 0 /\ EnemySize > 0 /\ XMax + EnemySize < W
      /\ ShipSize + EnemySize < YMax
    BY WordAssumption, PlayfieldAssumption DEF Word
<1>2. EnemyStep = 1 /\ Bottom + Drop < W
    BY FormationAssumption
<1>3. Bottom \in Nat /\ Bottom + EnemySize = ShipY
    BY <1>1 DEF Bottom, ShipY
<1>4. ASSUME NEW e \in Enemy
      PROVE  /\ Slot[e].x \in Nat /\ Slot[e].y \in Nat /\ Slot[e].y < Bottom
             /\ 2 < Slot[e].x /\ Slot[e].x + EnemySize < XMax
    <2>1. Slot[e].x \in Nat /\ Slot[e].y \in Nat /\ LaserStep \in Nat
        BY EnemyAssumption, WordAssumption DEF Word
    <2>2. Slot[e].y + LaserStep < Bottom
        BY EnemyAssumption
    <2> QED
        BY <1>1, <1>3, <2>1, <2>2, FormationAssumption
<1>5. PICK e \in Enemy : TRUE
    BY EnemyAssumption
<1>6. XMax - EnemySize > 3 /\ W > 2
    BY <1>1, <1>4, <1>5
<1>7. Right \in Nat /\ Right > 4
    BY <1>1, <1>6 DEF Right
<1>8. Neg(EnemyStep) = W - 1
    BY <1>1, <1>2 DEF Neg
<1> QED
    BY <1>1, <1>2, <1>3, <1>4, <1>6, <1>7, <1>8 DEF Right

(* What is due in the columns of a leg. *)
LEMMA DueFacts ==
    /\ \A c \in Nat : Due(c) \in Nat /\ Due(c) <= 3 * Drop /\ (c > 2 => Due(c) = 0)
    /\ \A c \in Nat : Due(c) = Due(c + 1) + IF c <= 2 THEN Drop ELSE 0
    /\ Due(0) = 3 * Drop
BY Board DEF Due

(* A frame brings a ship one column on, and at the end of its leg to the   *)
(* start of the next, three drops lower.                                   *)
LEMMA FlyOn ==
    ASSUME NEW s, OnPath(s), s.y < Bottom
    PROVE  /\ OnPath(Fly(s)) /\ Fly(s).y = s.y + s.ym
           /\ Column(s) < Right - 1 =>
                  /\ Column(Fly(s)) = Column(s) + 1
                  /\ Fly(s).xm = s.xm /\ Level(Fly(s)) = Level(s)
           /\ Column(s) = Right - 1 =>
                  /\ Column(Fly(s)) = 0
                  /\ Fly(s).xm # s.xm /\ Level(Fly(s)) = Level(s) + 3 * Drop
<1> DEFINE t == Fly(s)
<1>1. /\ s.x \in Nat /\ s.x <= Right /\ s.y \in Nat /\ s.xm \in {1, W - 1}
      /\ s.ym \in {0, Drop} /\ Column(s) \in Nat /\ Column(s) <= Right - 1
      /\ s.ym = IF Column(s) <= 2 THEN Drop ELSE 0
    BY Board DEF OnPath
<1>2. t.y = s.y + s.ym /\ t.y \in Nat
    BY <1>1, Board DEF Fly, Add
<1>3. AtRight(s.x, EnemySize) <=> s.x >= Right - 1
    <2>1. Add(s.x, EnemySize) = s.x + EnemySize
        BY <1>1, Board DEF Add
    <2> QED
        BY <1>1, <2>1, Board DEF AtRight
<1>4. AtLeft(s.x, 1) <=> s.x <= 1
    BY DEF AtLeft
<1>5. /\ t.x = Add(s.x, s.xm)
      /\ t.xm = IF s.x >= Right - 1 THEN W - 1 ELSE IF s.x <= 1 THEN 1 ELSE s.xm
      /\ t.ym = IF s.x >= Right - 1 \/ s.x <= 1 THEN Drop ELSE 0
    BY <1>3, <1>4, Board DEF Fly
<1> HIDE DEF t
<1>6. CASE s.xm = 1
    <2>1. Column(s) = s.x /\ t.x = s.x + 1
        BY <1>1, <1>5, <1>6, Board DEF Column, Add
    <2>2. CASE s.x < Right - 1
        <3>1. t.xm = 1 /\ Column(t) = s.x + 1 /\ t.ym = IF s.x <= 1 THEN Drop ELSE 0
            BY <1>1, <1>5, <1>6, <2>1, <2>2, Board DEF Column
        <3>2. OnPath(t)
            BY <1>1, <1>2, <2>1, <2>2, <3>1, Board DEF OnPath
        <3>3. Level(t) = Level(s)
            <4>1. Column(t) = Column(s) + 1
                BY <1>1, <2>1, <3>1, Board
            <4>2. Due(Column(s)) = Due(Column(t)) + s.ym /\ Due(Column(t)) \in Nat
                BY <1>1, <4>1, DueFacts
            <4> QED
                BY <1>1, <1>2, <4>2, Board DEF Level
        <3> QED
            BY <1>1, <1>2, <1>6, <2>1, <2>2, <3>1, <3>2, <3>3 DEF t
    <2>3. CASE s.x = Right - 1
        <3>1. t.xm = W - 1 /\ Column(t) = 0 /\ t.ym = Drop /\ s.ym = 0
            BY <1>1, <1>5, <2>1, <2>3, Board DEF Column
        <3>2. OnPath(t)
            BY <1>1, <1>2, <2>1, <2>3, <3>1, Board DEF OnPath
        <3>3. Level(t) = Level(s) + 3 * Drop
            BY <1>1, <1>2, <2>1, <2>3, <3>1, DueFacts, Board DEF Level
        <3> QED
            BY <1>1, <1>2, <1>6, <2>1, <2>3, <3>1, <3>2, <3>3, Board DEF t
    <2> QED
        BY <1>1, <2>1, <2>2, <2>3, Board
<1>7. CASE s.xm = W - 1
    <2>1. Column(s) = Right - s.x /\ s.x > 0 /\ t.x = s.x - 1
        <3>1. Column(s) = Right - s.x
            BY <1>7, Board DEF Column
        <3> QED
            BY <1>1, <1>5, <1>7, <3>1, Board DEF Add
    <2>2. CASE s.x > 1
        <3>1. /\ t.xm = W - 1 /\ Column(t) = Right - s.x + 1
              /\ t.ym = IF s.x >= Right - 1 THEN Drop ELSE 0
            BY <1>1, <1>5, <1>7, <2>1, <2>2, Board DEF Column
        <3>2. OnPath(t)
            BY <1>1, <1>2, <2>1, <2>2, <3>1, Board DEF OnPath
        <3>3. Level(t) = Level(s)
            <4>1. Column(t) = Column(s) + 1
                BY <1>1, <2>1, <3>1, Board
            <4>2. Due(Column(s)) = Due(Column(t)) + s.ym /\ Due(Column(t)) \in Nat
                BY <1>1, <4>1, DueFacts
            <4> QED
                BY <1>1, <1>2, <4>2, Board DEF Level
        <3> QED
            BY <1>1, <1>2, <1>7, <2>1, <2>2, <3>1, <3>2, <3>3, Board DEF t
    <2>3. CASE s.x = 1
        <3>1. t.xm = 1 /\ Column(t) = 0 /\ t.ym = Drop /\ s.ym = 0
            BY <1>1, <1>5, <2>1, <2>3, Board DEF Column
        <3>2. OnPath(t)
            BY <1>1, <1>2, <2>1, <2>3, <3>1, Board DEF OnPath
        <3>3. Level(t) = Level(s) + 3 * Drop
            BY <1>1, <1>2, <2>1, <2>3, <3>1, DueFacts, Board DEF Level
        <3> QED
            BY <1>1, <1>2, <1>7, <2>1, <2>3, <3>1, <3>2, <3>3, Board DEF t
    <2> QED
        BY <1>1, <2>1, <2>2, <2>3, Board
<1> QED
    BY <1>1, <1>6, <1>7

(* Two ships that fly in the same frames keep their distance on the path.  *)
LEMMA PairFlies ==
    ASSUME NEW s, NEW t, NEW a, NEW b,
           a.x \in Nat, b.x \in Nat, b.x <= a.x, a.x < Right, a.y \in Nat, b.y \in Nat,
           OnPath(s), OnPath(t), s.y < Bottom, t.y < Bottom,
           Abreast(s, t, a, b) \/ NextLeg(s, t, a, b)
    PROVE  Abreast(Fly(s), Fly(t), a, b) \/ NextLeg(Fly(s), Fly(t), a, b)
<1>1. PICK c \in Nat, d \in Nat : c = Column(s) /\ d = Column(t) /\ c < Right /\ d < Right
    BY Board DEF OnPath
<1>2. Level(s) \in Nat /\ Level(t) \in Nat
    <2>1. Due(c) \in Nat /\ Due(d) \in Nat /\ s.y \in Nat /\ t.y \in Nat
        BY DueFacts DEF OnPath
    <2> QED
        BY <1>1, <2>1 DEF Level
<1>3. PICK l \in Nat, m \in Nat, ax \in Nat, bx \in Nat, ay \in Nat, by \in Nat :
          /\ l = Level(s) /\ m = Level(t)
          /\ ax = a.x /\ bx = b.x /\ ay = a.y /\ by = b.y /\ bx <= ax /\ ax < Right
    BY <1>2
<1>4. Right \in Nat /\ Drop \in Nat /\ (c < Right - 1 \/ c = Right - 1)
      /\ (d < Right - 1 \/ d = Right - 1)
    BY <1>1, Board
<1>5. /\ c < Right - 1 => Column(Fly(s)) = c + 1 /\ Fly(s).xm = s.xm /\ Level(Fly(s)) = l
      /\ c = Right - 1 => Column(Fly(s)) = 0 /\ Fly(s).xm # s.xm /\ Level(Fly(s)) = l + 3 * Drop
      /\ d < Right - 1 => Column(Fly(t)) = d + 1 /\ Fly(t).xm = t.xm /\ Level(Fly(t)) = m
      /\ d = Right - 1 => Column(Fly(t)) = 0 /\ Fly(t).xm # t.xm /\ Level(Fly(t)) = m + 3 * Drop
    BY <1>1, <1>3, FlyOn
<1>6. {s.xm, t.xm, Fly(s).xm, Fly(t).xm} \subseteq {EnemyStep, Neg(EnemyStep)}
    BY FlyOn DEF OnPath
<1>7. CASE s.xm = t.xm /\ c + bx = d + ax /\ l + by = m + ay
    <2>1. CASE c < Right - 1
        <3>1. d < Right - 1
            BY <1>3, <1>4, <1>7, <2>1
        <3>2. c + 1 + bx = d + 1 + ax
            BY <1>7
        <3> QED
            BY <1>3, <1>5, <1>7, <2>1, <3>1, <3>2 DEF Abreast
    <2>2. CASE c = Right - 1 /\ d < Right - 1
        <3>1. 0 + Right + bx = d + 1 + ax /\ l + 3 * Drop + by = m + ay + 3 * Drop
            BY <1>4, <1>7, <2>2
        <3> QED
            BY <1>3, <1>5, <1>7, <2>2, <3>1 DEF NextLeg
    <2>3. CASE c = Right - 1 /\ d = Right - 1
        <3>1. Fly(s).xm = Fly(t).xm
            BY <1>5, <1>6, <1>7, <2>3
        <3>2. 0 + bx = 0 + ax /\ l + 3 * Drop + by = m + 3 * Drop + ay
            BY <1>4, <1>7, <2>3
        <3> QED
            BY <1>3, <1>5, <2>3, <3>1, <3>2 DEF Abreast
    <2> QED
        BY <1>4, <2>1, <2>2, <2>3
<1>8. CASE s.xm # t.xm /\ c + Right + bx = d + ax /\ l + by = m + ay + 3 * Drop
    <2>1. c < Right - 1
        BY <1>1, <1>3, <1>4, <1>8
    <2>2. CASE d < Right - 1
        <3>1. c + 1 + Right + bx = d + 1 + ax
            BY <1>4, <1>8
        <3> QED
            BY <1>3, <1>5, <1>8, <2>1, <2>2, <3>1 DEF NextLeg
    <2>3. CASE d = Right - 1
        <3>1. Fly(s).xm = Fly(t).xm
            BY <1>5, <1>6, <1>8, <2>1, <2>3
        <3>2. c + 1 + bx = 0 + ax /\ l + by = m + 3 * Drop + ay
            BY <1>4, <1>8, <2>3
        <3> QED
            BY <1>3, <1>5, <2>1, <2>3, <3>1, <3>2 DEF Abreast
    <2> QED
        BY <1>4, <2>2, <2>3
<1> QED
    BY <1>1, <1>3, <1>7, <1>8 DEF Abreast, NextLeg

(* On one leg the columns keep two ships of a row apart; when they are on  *)
(* different legs the drops do, once the first has made them, and before   *)
(* that the columns still do.  Ships of different rows never come closer   *)
(* than their rows less one turn.                                          *)
LEMMA PairIsApart ==
    ASSUME NEW e \in Enemy, NEW f \in Enemy, e # f, Slot[f].x <= Slot[e].x,
           NEW s, NEW t, OnPath(s), OnPath(t),
           Abreast(s, t, Slot[e], Slot[f]) \/ NextLeg(s, t, Slot[e], Slot[f])
    PROVE  Apart(s, t) /\ Apart(t, s)
<1>1. PICK c \in Nat, d \in Nat : c = Column(s) /\ d = Column(t) /\ c < Right /\ d < Right
    BY Board DEF OnPath
<1>2. PICK p \in Nat, q \in Nat : p = Due(c) /\ q = Due(d) /\ p <= 3 * Drop /\ q <= 3 * Drop
                                /\ (c > 2 => p = 0) /\ (d > 2 => q = 0)
    BY <1>1, DueFacts
<1>3. PICK ex \in Nat, ey \in Nat, fx \in Nat, fy \in Nat :
          /\ ex = Slot[e].x /\ ey = Slot[e].y /\ fx = Slot[f].x /\ fy = Slot[f].y
          /\ 2 < fx /\ fx <= ex /\ ex < Right - 1
    BY Board
<1>4. PICK sx \in Nat, sy \in Nat, tx \in Nat, ty \in Nat :
          /\ sx = s.x /\ sy = s.y /\ tx = t.x /\ ty = t.y
          /\ Level(s) = sy + p /\ Level(t) = ty + q
    BY <1>1, <1>2, Board DEF OnPath, Level
<1>5. (sx = c /\ s.xm = EnemyStep) \/ (sx = Right - c /\ s.xm = Neg(EnemyStep))
    BY <1>1, <1>4, Board DEF OnPath, Column
<1>6. (tx = d /\ t.xm = EnemyStep) \/ (tx = Right - d /\ t.xm = Neg(EnemyStep))
    BY <1>1, <1>4, Board DEF OnPath, Column
<1>7. \/ ey = fy /\ fx + EnemySize + 4 <= ex
      \/ ey + EnemySize + 3 * Drop <= fy
      \/ fy + EnemySize + 3 * Drop <= ey
    BY <1>3, FormationAssumption, Board
<1>8. EnemySize \in Nat /\ Drop \in Nat /\ Right \in Nat /\ EnemySize <= 3 * Drop
    BY Board, FormationAssumption
<1>9. SUFFICES \/ sx + EnemySize <= tx \/ tx + EnemySize <= sx
               \/ sy + EnemySize <= ty \/ ty + EnemySize <= sy
    BY <1>4 DEF Apart
<1>10. CASE Abreast(s, t, Slot[e], Slot[f])
    <2>1. s.xm = t.xm /\ c + fx = d + ex /\ sy + p + fy = ty + q + ey
        BY <1>1, <1>3, <1>4, <1>10 DEF Abreast
    <2>2. (sx = c /\ tx = d) \/ (sx = Right - c /\ tx = Right - d)
        BY <1>5, <1>6, <2>1, Board
    <2>3. CASE ey = fy /\ fx + EnemySize + 4 <= ex
        BY <1>1, <1>8, <2>1, <2>2, <2>3
    <2>4. CASE ey + EnemySize + 3 * Drop <= fy \/ fy + EnemySize + 3 * Drop <= ey
        BY <1>2, <1>8, <2>1, <2>4
    <2> QED
        BY <1>7, <2>3, <2>4
<1>11. CASE NextLeg(s, t, Slot[e], Slot[f])
    <2>1. s.xm # t.xm /\ c + Right + fx = d + ex /\ sy + p + fy = ty + q + ey + 3 * Drop
        BY <1>1, <1>3, <1>4, <1>8, <1>11 DEF NextLeg
    <2>2. (sx = c /\ tx = Right - d) \/ (sx = Right - c /\ tx = d)
        BY <1>5, <1>6, <2>1, Board
    <2>3. d > 2 /\ q = 0
        BY <1>1, <1>2, <1>3, <1>8, <2>1
    <2>4. CASE ey = fy /\ fx + EnemySize + 4 <= ex /\ c <= 2
        BY <1>1, <1>3, <1>8, <2>1, <2>2, <2>4
    <2>5. CASE ey = fy /\ c > 2
        BY <1>2, <1>8, <2>1, <2>3, <2>5
    <2>6. CASE ey + EnemySize + 3 * Drop <= fy \/ fy + EnemySize + 3 * Drop <= ey
        BY <1>2, <1>8, <2>1, <2>3, <2>6
    <2> QED
        BY <1>7, <2>4, <2>5, <2>6
<1> QED
    BY <1>10, <1>11

(* The ships in their slots, and one frame later, in rows they may be in.  *)
LEMMA HomeFalls ==
    ASSUME NEW e \in Enemy
    PROVE  OnPath(Home(e)) /\ Falls(Home(e), Slot[e]) /\ Level(Home(e)) = Slot[e].y
           /\ Column(Home(e)) = Slot[e].x
<1>1. /\ Slot[e].x \in Nat /\ Slot[e].y \in Nat /\ Slot[e].y < Bottom
      /\ 2 < Slot[e].x /\ Slot[e].x < Right - 1
    BY Board
<1>2. Column(Home(e)) = Slot[e].x
    BY DEF Home, Column
<1>3. (Slot[e].y - Slot[e].y) % Drop = 0
    <2>1. Slot[e].y - Slot[e].y = 0 /\ 0 = 0 * Drop + 0 /\ 0 \in 0 .. Drop - 1 /\ Drop \in Nat \ {0}
        BY <1>1, Board
    <2>2. 0 % Drop = 0
        BY <2>1, Remainder
    <2> QED
        BY <2>1, <2>2
<1>4. OnPath(Home(e))
    BY <1>1, <1>2, Board DEF OnPath, Home
<1>5. Falls(Home(e), Slot[e])
    BY <1>1, <1>3, Board DEF Falls, Home
<1>6. Level(Home(e)) = Slot[e].y
    BY <1>1, <1>2, DueFacts DEF Level, Home
<1> QED
    BY <1>2, <1>4, <1>5, <1>6

LEMMA FlyFalls ==
    ASSUME NEW e \in Enemy, NEW s, OnPath(s), Falls(s, Slot[e]), s.y < Bottom
    PROVE  Falls(Fly(s), Slot[e])
<1>1. PICK y \in Nat, z \in Nat : y = s.y /\ z = Slot[e].y /\ z <= y /\ y < Bottom
    BY Board DEF Falls, OnPath
<1>2. Drop \in Nat \ {0} /\ Bottom \in Nat /\ y - z \in Nat /\ (y - z) % Drop = 0
    BY <1>1, Board DEF Falls
<1>3. PICK q \in Nat : y - z = q * Drop + 0
    BY <1>2, Remainder
<1>4. Fly(s).y = y \/ Fly(s).y = y + Drop
    BY <1>1, <1>2, FlyOn DEF OnPath
<1>5. (y + Drop - z) % Drop = 0
    <2>1. y + Drop - z = (q + 1) * Drop + 0
        BY <1>1, <1>2, <1>3
    <2>2. y + Drop - z \in Nat /\ q + 1 \in Nat /\ 0 \in 0 .. Drop - 1
        BY <1>1, <1>2
    <2> QED
        <3>1. PICK n \in Nat : n = y + Drop - z
            BY <2>2
        <3>2. n = (q + 1) * Drop + 0
            BY <2>1, <3>1
        <3>3. n % Drop = 0
            BY <1>2, <2>2, <3>2, Remainder, Zenon
        <3> QED
            BY <3>1, <3>3
<1>6. y \in z .. Bottom + Drop - 1 /\ y + Drop \in z .. Bottom + Drop - 1
    BY <1>1, <1>2
<1> QED
    BY <1>1, <1>2, <1>4, <1>5, <1>6 DEF Falls

AllHome == state = "START" => \A e \in Enemy : enemy[e] = Home(e)

(* A ship is on its path or was hit and is parked; those that were not hit *)
(* keep the distances of their slots.                                      *)
OnTheWay ==
    play => \A e \in Enemy :
        \/ OnPath(enemy[e]) /\ Falls(enemy[e], Slot[e])
        \/ hit[e] /\ enemy[e] = Parked
InStep ==
    play => \A e, f \in Enemy :
        ~hit[e] /\ ~hit[f] /\ Slot[f].x <= Slot[e].x =>
            \/ Abreast(enemy[e], enemy[f], Slot[e], Slot[f])
            \/ NextLeg(enemy[e], enemy[f], Slot[e], Slot[f])

FormationInv == AllHome /\ OnTheWay /\ InStep

LEMMA StartInStep ==
    ASSUME NEW e \in Enemy, NEW f \in Enemy
    PROVE  Abreast(Home(e), Home(f), Slot[e], Slot[f])
<1>1. /\ Slot[e].x \in Nat /\ Slot[e].y \in Nat
      /\ Slot[f].x \in Nat /\ Slot[f].y \in Nat
    BY Board
<1>2. Home(e).xm = Home(f).xm
    BY DEF Home
<1> QED
    BY <1>1, <1>2, HomeFalls DEF Abreast

LEMMA FormationStep ==
    ASSUME TypeOK, RoundInv, FormationInv,
           NEW tick \in BOOLEAN, NEW key \in Keys, Clock(tick, key)
    PROVE  FormationInv'
<1>1. enemy' = [e \in Enemy |-> EnemyStepOf(e, tick, play)]
    BY DEF Clock, Registers, EnemyClock
<1>2. ASSUME ~play
      PROVE  enemy' = [e \in Enemy |-> Home(e)]
    BY <1>1, <1>2 DEF EnemyStepOf
<1>3. AllHome'
    <2> SUFFICES ASSUME state' = "START"
                 PROVE  \A e \in Enemy : enemy'[e] = Home(e)
        BY DEF AllHome, Home
    <2>1. ~play
        BY Screens DEF play
    <2> QED
        BY <1>2, <2>1
<1>4. CASE ~play' \/ state' # "PLAY"
    BY <1>3, <1>4 DEF FormationInv, OnTheWay, InStep, play
<1>5. CASE state' = "PLAY" /\ ~play
    <2>1. \A e \in Enemy : enemy'[e] = Home(e)
        BY <1>2, <1>5
    <2>2. \A e \in Enemy : OnPath(enemy'[e]) /\ Falls(enemy'[e], Slot[e])
        BY <2>1, HomeFalls
    <2>3. \A e, f \in Enemy : Abreast(enemy'[e], enemy'[f], Slot[e], Slot[f])
        BY <2>1, StartInStep
    <2>4. OnTheWay'
        BY <2>2 DEF OnTheWay, OnPath, Falls, Column, Right, Bottom, Neg
    <2>5. InStep'
        BY <2>3 DEF InStep, Abreast, Level, Column, Due, Right
    <2> QED
        BY <1>3, <2>4, <2>5 DEF FormationInv
<1>6. CASE state' = "PLAY" /\ play
    <2>1. ~died /\ ~done
        <3>1. ~died
            BY <1>6, Screens DEF play
        <3>2. ~killed_all2
            <4>1. ~bossHit /\ RowScore \in Nat /\ RowScore <= Cardinality(Enemy)
                  /\ Cardinality(Enemy) \in Nat
                BY <1>6, RowScoreBounds DEF RoundInv, BossCountsOnlyInFight, play, boss_fight,
                   TypeOK, EnemyTypeOK
            <4> QED
                BY <4>1 DEF killed_all2, Score
        <3> QED
            BY <3>1, <3>2 DEF done
    <2>2. \A e \in Enemy : enemy[e].y < Bottom
        <3> TAKE e \in Enemy
        <3>1. ~(enemy[e].y >= Bottom)
            BY <1>6, <2>1 DEF died, RowGameover
        <3> QED
            BY <3>1, Board DEF TypeOK, Body, Word
    <2>3. \A e \in Enemy : hit[e] => hit'[e]
        BY <2>1, Latches
    <2>4. ASSUME NEW e \in Enemy
          PROVE  /\ hit[e] => enemy'[e] = Parked
                 /\ ~hit[e] => enemy'[e] = IF tick THEN Fly(enemy[e]) ELSE enemy[e]
        <3>1. enemy'[e] = EnemyStepOf(e, tick, play) /\ enemy[e].y < Bottom
              /\ ~(enemy[e].y >= Bottom)
            BY <1>1, <2>1, <2>2, <1>6 DEF died, RowGameover
        <3>2. CASE hit[e]
            BY <1>6, <3>1, <3>2 DEF EnemyStepOf
        <3>3. CASE ~hit[e] /\ tick
            BY <1>6, <3>1, <3>3 DEF EnemyStepOf
        <3>4. CASE ~hit[e] /\ ~tick
            BY <1>6, <3>1, <3>4 DEF EnemyStepOf
        <3> QED
            BY <3>2, <3>3, <3>4
    <2>5. ASSUME NEW e \in Enemy, ~hit[e]
          PROVE  /\ OnPath(enemy[e]) /\ Falls(enemy[e], Slot[e])
                 /\ OnPath(enemy'[e]) /\ Falls(enemy'[e], Slot[e])
        <3>1. OnPath(enemy[e]) /\ Falls(enemy[e], Slot[e])
            BY <1>6, <2>5 DEF FormationInv, OnTheWay
        <3> QED
            BY <2>2, <2>4, <2>5, <3>1, FlyOn, FlyFalls
    <2>6. ASSUME NEW e \in Enemy, NEW f \in Enemy, ~hit[e], ~hit[f], Slot[f].x <= Slot[e].x
          PROVE  \/ Abreast(enemy'[e], enemy'[f], Slot[e], Slot[f])
                 \/ NextLeg(enemy'[e], enemy'[f], Slot[e], Slot[f])
        <3>1. \/ Abreast(enemy[e], enemy[f], Slot[e], Slot[f])
              \/ NextLeg(enemy[e], enemy[f], Slot[e], Slot[f])
            BY <1>6, <2>6 DEF FormationInv, InStep
        <3>2. CASE ~tick
            BY <2>4, <2>6, <3>1, <3>2
        <3>3. CASE tick
            <4>1. enemy'[e] = Fly(enemy[e]) /\ enemy'[f] = Fly(enemy[f])
                BY <2>4, <2>6, <3>3
            <4>2. /\ Slot[e].x \in Nat /\ Slot[f].x \in Nat /\ Slot[e].x < Right
                  /\ Slot[e].y \in Nat /\ Slot[f].y \in Nat
                BY Board
            <4>3. /\ OnPath(enemy[e]) /\ OnPath(enemy[f])
                  /\ enemy[e].y < Bottom /\ enemy[f].y < Bottom
                BY <2>2, <2>5, <2>6
            <4> QED
                BY <2>6, <3>1, <4>1, <4>2, <4>3, PairFlies
        <3> QED
            BY <3>2, <3>3
    <2>7. OnTheWay'
        BY <2>3, <2>4, <2>5 DEF OnTheWay, OnPath, Falls, Column, Right, Bottom, Neg, Parked
    <2>8. InStep'
        BY <2>3, <2>6 DEF InStep, Abreast, NextLeg, Level, Column, Due, Right
    <2> QED
        BY <1>3, <2>7, <2>8 DEF FormationInv
<1> QED
    BY <1>4, <1>5, <1>6

LEMMA FormationInvariant == Spec => []FormationInv
<1>1. Init => FormationInv
    BY DEF Init, SignalInit, EnemyInit, FormationInv, AllHome, OnTheWay, InStep, play
<1>2. TypeOK /\ RoundInv /\ FormationInv /\ [Next]_vars => FormationInv'
    <2> SUFFICES ASSUME TypeOK, RoundInv, FormationInv, [Next]_vars PROVE FormationInv'
        OBVIOUS
    <2>1. CASE Reset
        <3>1. state' = "START" /\ \A e \in Enemy : enemy'[e] = Home(e)
            BY <2>1 DEF Reset, SignalReset, EnemyReset
        <3> QED
            BY <3>1 DEF FormationInv, AllHome, OnTheWay, InStep, play, Home
    <2>2. CASE UNCHANGED vars
        BY <2>2
           DEF vars, FormationInv, AllHome, OnTheWay, InStep, play, Home, OnPath, Falls, Parked,
               Abreast, NextLeg, Level, Column, Due, Right, Bottom, Neg
    <2> QED
        BY <2>1, <2>2, FormationStep, NextCases
<1> QED
    BY <1>1, <1>2, TypeCorrect, RoundInvariant, PTL DEF Spec

(* Whatever is shot and however long the round lasts, the ships that are   *)
(* left fly clear of each other all the way down.                          *)
THEOREM ShipsFlyApart == Spec => []ShipsApart
<1>1. FormationInv => ShipsApart
    <2> SUFFICES ASSUME FormationInv, play, NEW e \in Enemy, NEW f \in Enemy, e # f,
                        ~hit[e], ~hit[f]
                 PROVE  Apart(enemy[e], enemy[f])
        BY DEF ShipsApart, Live
    <2>1. OnPath(enemy[e]) /\ OnPath(enemy[f])
        BY DEF FormationInv, OnTheWay
    <2>2. Slot[f].x <= Slot[e].x \/ Slot[e].x <= Slot[f].x
        BY Board
    <2>3. CASE Slot[f].x <= Slot[e].x
        BY <2>1, <2>3, PairIsApart DEF FormationInv, InStep
    <2>4. CASE Slot[e].x <= Slot[f].x
        BY <2>1, <2>4, PairIsApart DEF FormationInv, InStep
    <2> QED
        BY <2>2, <2>3, <2>4
<1> QED
    BY <1>1, FormationInvariant, PTL

(* The laser in the ship lies below every row of the round: nothing comes  *)
(* down on it before the game is over.                                     *)
THEOREM IdleLaserIsHarmless == Spec => []IdleLaserHarmless
<1>1. TypeOK /\ FormationInv => IdleLaserHarmless
    <2> SUFFICES ASSUME TypeOK, FormationInv, play, NEW e \in Enemy
                 PROVE  ~Overlaps(enemy[e], Idle(enemy[e].x))
        BY DEF IdleLaserHarmless
    <2>1. Idle(enemy[e].x).y = Muzzle
        BY Geometry DEF Idle
    <2>2. CASE enemy[e].y < Bottom
        BY <2>1, <2>2, MuzzleIsHarmless DEF TypeOK, Body
    <2>3. CASE enemy[e].y >= Bottom
        <3>1. enemy[e].y \in Nat /\ enemy[e].y < Bottom + MuzzleY
            <4>1. Falls(enemy[e], Slot[e])
                BY <2>3, Board DEF FormationInv, OnTheWay, Parked, OnPath
            <4>2. enemy[e].y \in Nat /\ enemy[e].y <= Bottom + Drop - 1
                BY <4>1, Board DEF Falls
            <4> QED
                BY <4>1, <4>2, LandingAssumption, Board, Geometry DEF Falls
        <3>2. enemy[e].y + EnemySize < Muzzle
            BY <3>1, Board, Geometry DEF Muzzle
        <3>3. Add(enemy[e].y, EnemySize) = enemy[e].y + EnemySize
              /\ Add(Muzzle, LaserH) = Muzzle + LaserH
            BY <3>1, <3>2, Geometry DEF Add
        <3> QED
            BY <2>1, <3>1, <3>2, <3>3, Geometry DEF Overlaps, Within
    <2> QED
        BY <2>2, <2>3, Board DEF TypeOK, Body, Word
<1> QED
    BY <1>1, TypeCorrect, FormationInvariant, PTL
-----------------------------------------------------------------------------
(* One cycle after a tick nothing touches the laser any more and nothing   *)
(* has landed: it is hit, parked, back in the ship or off the screen.      *)
Calm ==
    gap >= 1 =>
        /\ play => \A e \in Enemy : enemy[e].y < Bottom /\ ~Overlaps(enemy[e], laser)
        /\ boss_fight => boss.y < Bottom /\ ~Overlaps(boss, laser)
BossIsHome == state \in {"START", "PLAY", "BOSS_LOGO"} => boss = BossHome

CalmInv == Calm /\ BossIsHome

(* On a screen that goes on to play, nothing has landed and, in the fight, *)
(* the boss was not hit; no game is over.                                  *)
LEMMA PlayGoesOn ==
    ASSUME TypeOK, RoundInv, NEW tick \in BOOLEAN, NEW key \in Keys, Clock(tick, key)
    PROVE  /\ state' = "PLAY" => state \in {"START", "PLAY"} /\ ~done /\ ~bossHit
           /\ state' = "PLAY" /\ play => \A e \in Enemy : enemy[e].y < Bottom
           /\ state' = "BOSS_FIGHT" => state \in {"BOSS_LOGO", "BOSS_FIGHT"} /\ ~done /\ ~bossHit
           /\ state' = "BOSS_FIGHT" /\ boss_fight => boss.y < Bottom
<1>1. state \in State /\ Bottom \in Int
    BY WordAssumption DEF TypeOK, Bottom, Word
<1>2. CASE state' = "PLAY"
    <2>1. state \in {"START", "PLAY"} /\ (play => ~died)
        BY <1>1, <1>2, Screens DEF State, play
    <2>2. ~bossHit
        BY <2>1 DEF RoundInv, BossCountsOnlyInFight, boss_fight
    <2>3. ~done
        <3>1. RowScore \in Nat /\ RowScore <= Cardinality(Enemy) /\ Cardinality(Enemy) \in Nat
            BY RowScoreBounds DEF TypeOK, EnemyTypeOK
        <3>2. ~killed_all2
            BY <2>2, <3>1 DEF killed_all2, Score
        <3> QED
            BY <2>1, <3>2, DoneOnlyPlaying DEF done, play, boss_fight
    <2>4. ASSUME play, NEW e \in Enemy
          PROVE  enemy[e].y < Bottom
        <3>1. ~(enemy[e].y >= Bottom)
            BY <2>1, <2>4 DEF died, RowGameover
        <3> QED
            BY <1>1, <3>1 DEF TypeOK, Body, Word
    <2> QED
        BY <1>2, <2>1, <2>2, <2>3, <2>4
<1>3. CASE state' = "BOSS_FIGHT"
    <2>1. state \in {"BOSS_LOGO", "BOSS_FIGHT"} /\ (boss_fight => ~died /\ ~bossHit)
        BY <1>1, <1>3, Screens DEF State, boss_fight
    <2>2. ~bossHit
        BY <2>1 DEF RoundInv, BossCountsOnlyInFight, boss_fight
    <2>3. ~done
        BY <2>1, <2>2, BossIsLast, DoneOnlyPlaying DEF done, play, boss_fight
    <2>4. ASSUME boss_fight
          PROVE  boss.y < Bottom
        <3>1. ~(boss.y >= Bottom)
            BY <2>1, <2>4 DEF died, BossGameover
        <3> QED
            BY <1>1, <3>1 DEF TypeOK, Body, Word
    <2> QED
        BY <1>3, <2>1, <2>2, <2>3, <2>4
<1> QED
    BY <1>2, <1>3

(* A body that is above the bottom row, or parked. *)
LEMMA TopRow == 0 \in Word /\ 0 < Bottom /\ \A e \in Enemy : Slot[e].y \in Word /\ Slot[e].y < Bottom
<1>1. \A e \in Enemy : Slot[e].y \in Word /\ Slot[e].y + LaserStep < Bottom
    BY EnemyAssumption
<1>2. PICK e \in Enemy : TRUE
    BY EnemyAssumption
<1> QED
    BY <1>1, <1>2, WordAssumption DEF Word, Bottom

(* In a cycle without a tick the laser is answered, or stays.              *)
LEMMA LaserWaits ==
    ASSUME NEW key \in Keys, Clock(FALSE, key), play \/ boss_fight
    PROVE  IF laser_hit THEN laser'.y = Muzzle ELSE laser' = laser
<1>1. LaserClock(FALSE, key, play \/ boss_fight, ship.x, laser_hit)
    BY DEF Clock, Registers
<1> QED
    BY <1>1, HitReturns DEF LaserClock

LEMMA CalmStep ==
    ASSUME TypeOK, RoundInv, ShotInv,
           NEW tick \in BOOLEAN, NEW key \in Keys, Clock(tick, key), CalmInv
    PROVE  CalmInv'
<1>1. BossIsHome'
    <2> SUFFICES ASSUME state' \in {"START", "PLAY", "BOSS_LOGO"} PROVE boss' = BossHome
        BY DEF BossIsHome, BossHome
    <2>1. ~boss_fight
        BY Screens DEF boss_fight
    <2> QED
        BY <2>1 DEF Clock, Registers, BossClock, BossMove
<1>2. ASSUME gap' >= 1
      PROVE  ~tick
    BY <1>2 DEF Clock, Registers, GapClock
<1>3. ASSUME ~tick, state' = "PLAY", NEW e \in Enemy
      PROVE  enemy'[e].y < Bottom /\ ~Overlaps(enemy'[e], laser')
    <2>1. enemy'[e] = EnemyStepOf(e, FALSE, play)
        BY <1>3 DEF Clock, Registers, EnemyClock
    <2>2. CASE ~play
        <3>1. enemy'[e].y = Slot[e].y
            BY <2>1, <2>2 DEF EnemyStepOf, Home
        <3>2. laser'.y = Muzzle
            BY <1>3, <2>2, PlayGoesOn, LaserReturns DEF boss_fight
        <3> QED
            BY <3>1, <3>2, TopRow, MuzzleIsHarmless
    <2>3. CASE play
        <3>1. enemy[e].y < Bottom /\ enemy[e].y \in Word /\ ~(enemy[e].y >= Bottom)
            BY <1>3, <2>3, PlayGoesOn, WordAssumption DEF TypeOK, Body, Word, Bottom
        <3>2. enemy'[e] = enemy[e] \/ enemy'[e] = Parked
            BY <2>1, <2>3, <3>1 DEF EnemyStepOf
        <3>3. enemy'[e].y < Bottom /\ enemy'[e].y \in Word
            BY <3>1, <3>2, TopRow DEF Parked
        <3>4. CASE laser_hit
            BY <1>3, <2>3, <3>3, <3>4, LaserWaits, MuzzleIsHarmless
        <3>5. CASE ~laser_hit
            <4>1. laser' = laser /\ ~Overlaps(enemy[e], laser)
                BY <1>3, <2>3, <3>5, LaserWaits DEF laser_hit, RowLaserHit
            <4>2. ~Overlaps(Parked, laser)
                BY ParkedIsSafe DEF TypeOK, ShotInv, LaserIsFree
            <4> QED
                BY <3>2, <3>3, <4>1, <4>2
        <3> QED
            BY <3>4, <3>5
    <2> QED
        BY <2>2, <2>3
<1>4. ASSUME ~tick, state' = "BOSS_FIGHT"
      PROVE  boss'.y < Bottom /\ ~Overlaps(boss', laser')
    <2>1. BossMove(FALSE, key, boss_fight)
        BY <1>4 DEF Clock, Registers, BossClock
    <2>2. CASE ~boss_fight
        <3>1. boss'.y = 0
            BY <2>1, <2>2 DEF BossMove, BossHome
        <3>2. laser'.y = Muzzle
            BY <1>4, <2>2, PlayGoesOn, LaserReturns DEF play
        <3> QED
            BY <3>1, <3>2, TopRow, MuzzleIsHarmless
    <2>3. CASE boss_fight
        <3>1. boss.y < Bottom /\ boss.y \in Word /\ ~(boss.y >= Bottom) /\ ~bossHit
            BY <1>4, <2>3, PlayGoesOn, WordAssumption DEF TypeOK, Body, Word, Bottom
        <3>2. boss' = boss
            BY <2>1, <2>3, <3>1 DEF BossMove
        <3>3. CASE laser_hit
            BY <1>4, <2>3, <3>1, <3>2, <3>3, LaserWaits, MuzzleIsHarmless
        <3>4. CASE ~laser_hit
            <4>1. laser' = laser /\ ~Overlaps(boss, laser)
                BY <1>4, <2>3, <3>4, LaserWaits DEF laser_hit, BossLaserHit
            <4> QED
                BY <3>1, <3>2, <4>1
        <3> QED
            BY <3>3, <3>4
    <2> QED
        BY <2>2, <2>3
<1>5. Calm'
    BY <1>2, <1>3, <1>4 DEF Calm, play, boss_fight, Overlaps, Within, Add, Bottom
<1> QED
    BY <1>1, <1>5 DEF CalmInv

LEMMA CalmInvariant == Spec => []CalmInv
<1>1. Init => CalmInv
    BY DEF Init, SignalInit, BossInit, CalmInv, Calm, BossIsHome, play, boss_fight
<1>2. TypeOK /\ RoundInv /\ ShotInv /\ CalmInv /\ [Next]_vars => CalmInv'
    <2> SUFFICES ASSUME TypeOK, RoundInv, ShotInv, CalmInv, [Next]_vars PROVE CalmInv'
        OBVIOUS
    <2>1. CASE Reset
        BY <2>1 DEF Reset, SignalReset, BossReset, CalmInv, Calm, BossIsHome, BossHome, play, boss_fight
    <2>2. CASE UNCHANGED vars
        BY <2>2 DEF vars, CalmInv, Calm, BossIsHome, BossHome, play, boss_fight, Overlaps, Within,
                    Add, Bottom
    <2> QED
        BY <2>1, <2>2, CalmStep, NextCases
<1> QED
    BY <1>1, <1>2, TypeCorrect, RoundInvariant, ShotInvariant, PTL DEF Spec

(* Once the board is calm, a cycle without a tick leaves the picture       *)
(* alone.                                                                  *)
LEMMA CalmStands ==
    ASSUME TypeOK, RoundInv, QuietInv, AllHome, CalmInv,
           NEW key \in Keys, Clock(FALSE, key), gap >= 1
    PROVE  StandsStill
<1>1. ship' = ship
    BY DEF Clock, Registers, ShipClock
<1>2. ASSUME play \/ boss_fight, state' = state
      PROVE  ~laser_hit
    BY <1>2 DEF laser_hit, RowLaserHit, BossLaserHit, CalmInv, Calm, play, boss_fight
<1>3. ASSUME state' = "PLAY", NEW e \in Enemy
      PROVE  hit'[e] = hit[e] /\ (~hit[e] => enemy'[e] = enemy[e])
    <2>0. enemy'[e] = EnemyStepOf(e, FALSE, play) /\ hit'[e] \in BOOLEAN /\ hit[e] \in BOOLEAN
        BY DEF Clock, Registers, EnemyClock, EnemyLatch, TypeOK
    <2>1. CASE state = "START"
        <3>1. hit'[e] = hit[e]
            BY <1>3, <2>1, PlayGoesOn, QuietScreens
        <3>2. enemy'[e] = Home(e) /\ enemy[e] = Home(e)
            BY <2>0, <2>1 DEF EnemyStepOf, play, AllHome
        <3> QED
            BY <3>1, <3>2
    <2>2. CASE state = "PLAY"
        <3>1. play /\ ~done /\ ~Overlaps(enemy[e], laser) /\ enemy[e].y < Bottom
            BY <1>3, <2>2, PlayGoesOn DEF CalmInv, Calm, play
        <3>2. hit'[e] = hit[e]
            BY <2>0, <3>1, Latches
        <3>3. ~(enemy[e].y >= Bottom)
            BY <3>1, WordAssumption DEF TypeOK, Body, Word, Bottom
        <3>4. ~hit[e] => enemy'[e] = enemy[e]
            BY <2>0, <3>1, <3>3 DEF EnemyStepOf
        <3> QED
            BY <3>2, <3>4
    <2> QED
        BY <1>3, <2>1, <2>2, PlayGoesOn
<1>4. ASSUME state' = "BOSS_FIGHT"
      PROVE  bossHit' = bossHit /\ boss' = boss
    <2>0. /\ BossMove(FALSE, key, boss_fight) /\ bossHit' \in BOOLEAN /\ bossHit \in BOOLEAN
          /\ ~done /\ ~bossHit
        BY <1>4, PlayGoesOn DEF Clock, Registers, BossClock, BossLatch, TypeOK
    <2>1. CASE state = "BOSS_LOGO"
        <3>1. ~bossHit'
            BY <2>0, <2>1, Latches DEF boss_fight
        <3>2. boss' = BossHome /\ boss = BossHome
            BY <2>0, <2>1 DEF BossMove, boss_fight, CalmInv, BossIsHome
        <3> QED
            BY <2>0, <3>1, <3>2
    <2>2. CASE state = "BOSS_FIGHT"
        <3>1. boss_fight /\ ~Overlaps(boss, laser) /\ boss.y < Bottom
            BY <2>2 DEF CalmInv, Calm, boss_fight
        <3>2. ~bossHit'
            BY <2>0, <3>1, Latches
        <3>3. ~(boss.y >= Bottom)
            BY <3>1, WordAssumption DEF TypeOK, Body, Word, Bottom
        <3>4. boss' = boss
            BY <2>0, <3>1, <3>3 DEF BossMove
        <3> QED
            BY <2>0, <3>2, <3>4
    <2> QED
        BY <1>4, <2>1, <2>2, PlayGoesOn
<1>5. ASSUME state' \in {"PLAY", "BOSS_FIGHT"}
      PROVE  IF state' = state THEN laser' = laser ELSE ~laser'.space
    <2>1. CASE state' = state
        <3>1. (play \/ boss_fight) /\ ~laser_hit
            BY <1>2, <1>5, <2>1 DEF play, boss_fight
        <3> QED
            BY <2>1, <3>1, LaserWaits
    <2>2. CASE state' # state
        <3>0. state \in {"START", "BOSS_LOGO"}
            <4>1. CASE state' = "PLAY"
                BY <2>2, <4>1, PlayGoesOn
            <4>2. CASE state' = "BOSS_FIGHT"
                BY <2>2, <4>2, PlayGoesOn
            <4> QED
                BY <1>5, <4>1, <4>2
        <3>1. ~play /\ ~boss_fight
            BY <3>0 DEF play, boss_fight
        <3>2. laser' = AtMuzzle(ship.x, MuzzleRest, 0, FALSE)
            BY <3>1 DEF Clock, Registers, LaserClock
        <3> QED
            BY <2>2, <3>2 DEF AtMuzzle
    <2> QED
        BY <2>1, <2>2
<1> QED
    BY <1>1, <1>3, <1>4, <1>5 DEF StandsStill, play, boss_fight

(* Between the ticks the picture stands still: one cycle after a tick all  *)
(* it has led to is done with, on every screen and whatever keys are       *)
(* pressed.                                                                *)
THEOREM PictureStands == Spec => NothingMoves
<1> DEFINE OK == gap >= 1 /\ gap' # 0 => Reset \/ StandsStill
<1>1. /\ TypeOK /\ RoundInv /\ QuietInv /\ FormationInv /\ CalmInv /\ [Next]_vars
      => [OK]_vars
    <2> SUFFICES ASSUME TypeOK, RoundInv, QuietInv, AllHome, CalmInv, [Next]_vars,
                        ~(UNCHANGED vars), gap >= 1, gap' # 0, ~Reset
                 PROVE  StandsStill
        BY DEF FormationInv
    <2>1. PICK tick \in BOOLEAN, key \in Keys : Clock(tick, key)
        BY NextCases
    <2>2. tick = FALSE
        BY <2>1 DEF Clock, Registers, GapClock
    <2>3. Clock(FALSE, key)
        BY <2>1, <2>2
    <2> QED
        BY <2>3, CalmStands
<1> QED
    BY <1>1, TypeCorrect, RoundInvariant, QuietInvariant, FormationInvariant, CalmInvariant, PTL
       DEF Spec, NothingMoves

-----------------------------------------------------------------------------
(* What brings a round to its end.  The way of a ship that is left, in     *)
(* columns and in drops: of a leg Right columns and three drops, so every  *)
(* frame takes three drops of it, the last of a leg like any other.        *)
WayDown(s) == Right * (Bottom + 7 * Drop - Level(s)) - 3 * Drop * Column(s)

LEMMA Rectangle ==
    ASSUME NEW r \in Nat, NEW d \in Nat, NEW a \in Int, NEW c \in Nat
    PROVE  /\ r * a \in Int /\ d * c \in Int
           /\ d * (c + 1) = d * c + d
           /\ r * (a - d) = r * a - d * r
           /\ a > d /\ c < r => r * a - d * c \in Nat
<1>1. r * a \in Int /\ d * c \in Nat /\ d * (c + 1) = d * c + d /\ r * (a - d) = r * a - d * r
    OBVIOUS
<1>2. ASSUME a > d, c < r PROVE r * a >= d * c
    <2>1. a \in Nat /\ r * a >= r * d
        BY <1>2
    <2>2. d * r >= d * c /\ r * d = d * r /\ r * d \in Nat
        BY <1>2
    <2> QED
        BY <1>1, <2>1, <2>2
<1> QED
    BY <1>1, <1>2

LEMMA WayFalls ==
    ASSUME NEW e \in Enemy, NEW s, OnPath(s), Falls(s, Slot[e])
    PROVE  /\ WayDown(s) \in Nat
           /\ s.y < Bottom => WayDown(Fly(s)) = WayDown(s) - 3 * Drop
<1> DEFINE c == Column(s)
           a == Bottom + 7 * Drop - Level(s)
           d == 3 * Drop
<1>1. /\ c \in 0 .. Right - 1 /\ s.y \in Nat /\ s.y <= Bottom + Drop - 1
      /\ Drop \in Nat /\ Bottom \in Nat /\ Right \in Nat /\ Right > 4
    BY Board DEF OnPath, Falls
<1>2. Due(c) \in Nat /\ Due(c) <= 3 * Drop /\ Level(s) = s.y + Due(c)
    BY <1>1, DueFacts DEF Level
<1>3. a \in Int /\ a > d /\ d \in Nat
    BY <1>1, <1>2
<1>4. WayDown(s) = Right * a - d * c
    BY DEF WayDown
<1>5. WayDown(s) \in Nat
    BY <1>1, <1>3, <1>4, Rectangle
<1>6. ASSUME s.y < Bottom
      PROVE  WayDown(Fly(s)) = WayDown(s) - d
    <2> DEFINE t == Fly(s)
    <2>1. WayDown(t) = Right * (Bottom + 7 * Drop - Level(t)) - d * Column(t)
        BY DEF WayDown
    <2>2. CASE c < Right - 1
        <3>1. Column(t) = c + 1 /\ Level(t) = Level(s)
            BY <1>6, <2>2, FlyOn
        <3>2. WayDown(t) = Right * a - d * (c + 1)
            BY <2>1, <3>1
        <3> HIDE DEF a, c, d
        <3> QED
            BY <1>1, <1>3, <1>4, <3>2, Rectangle
    <2>3. CASE c = Right - 1
        <3>1. Column(t) = 0 /\ Level(t) = Level(s) + d
            BY <1>6, <2>3, FlyOn
        <3>2. Bottom + 7 * Drop - Level(t) = a - d
            BY <1>1, <1>2, <3>1
        <3>3. WayDown(t) = Right * (a - d) - d * 0
            BY <2>1, <3>1, <3>2
        <3> HIDE DEF a, c, d
        <3>4. c \in Nat /\ d * Right = d * c + d
            BY <1>1, <1>3, <2>3, Rectangle
        <3>5. Right * (a - d) = Right * a - d * Right /\ d * 0 = 0
              /\ Right * a \in Int /\ d * c \in Int
            BY <1>1, <1>3, <3>4, Rectangle
        <3> QED
            BY <1>3, <1>4, <3>3, <3>4, <3>5
    <2> QED
        BY <1>1, <2>2, <2>3
<1> QED
    BY <1>5, <1>6

(* The countdown under RoundEnds (enemy-ship.sv:104): in a round every     *)
(* frame tick takes the same piece off the way of every ship that is left, *)
(* nothing else changes it, and it is never used up: before that, the ship *)
(* is hit or the round is over.                                            *)
THEOREM RoundsRunDown ==
    Spec => /\ [](play => \A e \in Enemy : hit[e] \/ WayDown(enemy[e]) \in Nat)
            /\ [][play /\ play' => \A e \in Enemy :
                      \/ hit[e]
                      \/ WayDown(enemy'[e]) =
                             WayDown(enemy[e]) - IF gap' = 0 THEN 3 * Drop ELSE 0]_vars
<1>1. FormationInv => (play => \A e \in Enemy : hit[e] \/ WayDown(enemy[e]) \in Nat)
    BY WayFalls DEF FormationInv, OnTheWay
<1>2. TypeOK /\ RoundInv /\ FormationInv /\ [Next]_vars =>
          [play /\ play' => \A e \in Enemy :
               \/ hit[e]
               \/ WayDown(enemy'[e]) =
                      WayDown(enemy[e]) - IF gap' = 0 THEN 3 * Drop ELSE 0]_vars
    <2> SUFFICES ASSUME TypeOK, RoundInv, FormationInv, Next, play, play',
                        NEW e \in Enemy, ~hit[e]
                 PROVE  WayDown(enemy'[e]) =
                            WayDown(enemy[e]) - IF gap' = 0 THEN 3 * Drop ELSE 0
        OBVIOUS
    <2>1. ~Reset
        BY DEF Reset, SignalReset, play
    <2>2. PICK tick \in BOOLEAN, key \in Keys : Clock(tick, key)
        BY <2>1, NextCases
    <2>3. state' = "PLAY" /\ enemy[e].y < Bottom
        BY <2>2, PlayGoesOn DEF play
    <2>4. OnPath(enemy[e]) /\ Falls(enemy[e], Slot[e]) /\ WayDown(enemy[e]) \in Nat
        BY WayFalls DEF FormationInv, OnTheWay
    <2>5. /\ enemy'[e] = EnemyStepOf(e, tick, play)
          /\ ~(enemy[e].y >= Bottom) /\ enemy[e].y \in Nat /\ Bottom \in Nat
        BY <2>2, <2>3, <2>4, Board DEF Clock, Registers, EnemyClock, OnPath
    <2>6. /\ tick => gap' = 0
          /\ ~tick => gap' # 0
        BY <2>2, GapAssumption DEF Clock, GapClock, TypeOK
    <2>7. CASE tick
        <3>1. enemy'[e] = Fly(enemy[e])
            BY <2>3, <2>5, <2>7 DEF EnemyStepOf
        <3> QED
            BY <2>3, <2>4, <2>6, <2>7, <3>1, WayFalls
    <2>8. CASE ~tick
        <3>1. enemy'[e] = enemy[e]
            BY <2>3, <2>5, <2>8 DEF EnemyStepOf
        <3> QED
            BY <2>4, <2>6, <2>8, <3>1
    <2> QED
        BY <2>7, <2>8
<1> QED
    BY <1>1, <1>2, TypeCorrect, RoundInvariant, FormationInvariant, PTL DEF Spec

-----------------------------------------------------------------------------
(* What brings the fight to its end.  The row the boss flies in once it    *)
(* has dropped what it still drops, the columns up to the wall it heads    *)
(* for (plus some, for the boss that is past the left wall), and both in   *)
(* one number: a row counts more than all columns.                         *)
BossRow(b) == b.y + b.ym
BossColumns(b) == IF b.xm = BossStep THEN W - Add(b.x, BossStep) ELSE Add(b.x, BossStep)
BossWay(b) == (Bottom + 2 * (Drop + Dodge) - BossRow(b)) * (W + 1) + BossColumns(b)

(* Where the boss is while it is not parked. *)
BossHigh ==
    boss_fight => boss.y < Bottom + Drop + Dodge /\ boss.ym \in {0, Drop, Dodge}

LEMMA BossBoard ==
    /\ {W, Bottom, Drop, Dodge, BossStep, EnemySize, XMax} \subseteq Nat
    /\ W > 0 /\ Drop > 0 /\ Dodge > 0 /\ Bottom > 0 /\ Bottom + Drop < W /\ Bottom + Dodge < W
    /\ BossStep > 0 /\ BossStep <= EnemySize /\ EnemySize < XMax /\ XMax + 2 * BossStep <= W
    /\ Neg(BossStep) = W - BossStep /\ Neg(BossStep) # BossStep
<1>1. /\ {W, Drop, Dodge, BossStep, EnemySize, XMax} \subseteq Nat
      /\ Drop > 0 /\ Dodge > 0 /\ BossStep > 0
    BY WordAssumption DEF Word
<1>2. BossStep <= EnemySize /\ EnemySize < XMax /\ XMax + 2 * BossStep <= W
      /\ Bottom + Dodge < W
    BY WallAssumption
<1>3. Bottom \in Nat /\ Bottom + Drop < W /\ W > 2 /\ Bottom > 0
    BY Board, TopRow
<1> QED
    BY <1>1, <1>2, <1>3 DEF Neg

(* In a fight that goes on a cycle without a tick leaves the boss alone,   *)
(* a cycle with one moves it.                                              *)
LEMMA FightGoesOn ==
    ASSUME TypeOK, RoundInv, boss_fight, boss_fight',
           NEW tick \in BOOLEAN, NEW key \in Keys, Clock(tick, key)
    PROVE  /\ boss.y \in Nat /\ boss.y < Bottom
           /\ boss' = IF tick THEN BossFly(key) ELSE boss
<1>1. ~bossHit /\ boss.y < Bottom
    BY PlayGoesOn DEF boss_fight
<1>2. boss.y \in Nat /\ ~(boss.y >= Bottom)
    BY <1>1, BossBoard DEF TypeOK, Body, Word
<1>3. BossMove(tick, key, boss_fight)
    BY DEF Clock, Registers, BossClock
<1> QED
    BY <1>1, <1>2, <1>3 DEF BossMove

LEMMA BossStaysHigh ==
    ASSUME TypeOK, RoundInv, BossHigh, BossIsHome,
           NEW tick \in BOOLEAN, NEW key \in Keys, Clock(tick, key)
    PROVE  BossHigh'
<1> SUFFICES ASSUME boss_fight'
             PROVE  boss'.y < Bottom + Drop + Dodge /\ boss'.ym \in {0, Drop, Dodge}
    BY DEF BossHigh, Bottom
<1>1. CASE boss_fight
    <2>1. /\ boss.y \in Nat /\ boss.y < Bottom /\ boss.ym \in {0, Drop, Dodge}
          /\ boss' = IF tick THEN BossFly(key) ELSE boss
        BY <1>1, FightGoesOn DEF BossHigh
    <2>2. CASE tick
        <3>1. boss'.y = Add(boss.y, boss.ym) /\ boss'.ym = BossFall(key)
            BY <2>1, <2>2 DEF BossFly
        <3>2. Add(boss.y, boss.ym) = boss.y + boss.ym
            BY <2>1, BossBoard DEF Add
        <3> QED
            BY <2>1, <3>1, <3>2, BossBoard DEF BossFall
    <2> QED
        BY <2>1, <2>2, BossBoard
<1>2. CASE ~boss_fight
    <2>1. boss' = BossHome
        BY <1>2 DEF Clock, Registers, BossClock, BossMove
    <2> QED
        BY <2>1, BossBoard DEF BossHome
<1> QED
    BY <1>1, <1>2

LEMMA HighInvariant == Spec => []BossHigh
<1>1. Init => BossHigh
    BY DEF Init, SignalInit, BossHigh, boss_fight
<1>2. TypeOK /\ RoundInv /\ CalmInv /\ BossHigh /\ [Next]_vars => BossHigh'
    <2> SUFFICES ASSUME TypeOK, RoundInv, CalmInv, BossHigh, [Next]_vars PROVE BossHigh'
        OBVIOUS
    <2>1. CASE Reset
        BY <2>1 DEF Reset, SignalReset, BossHigh, boss_fight
    <2>2. CASE UNCHANGED vars
        BY <2>2 DEF vars, BossHigh, boss_fight, Bottom
    <2> QED
        BY <2>1, <2>2, BossStaysHigh, NextCases DEF CalmInv
<1> QED
    BY <1>1, <1>2, TypeCorrect, RoundInvariant, CalmInvariant, PTL DEF Spec

(* At a frame the boss comes nearer to its wall, or it turns and drops.    *)
LEMMA BossComesOn ==
    ASSUME NEW key \in Keys, boss \in Body, boss.xm \in {BossStep, Neg(BossStep)},
           OnTrack(boss.x, boss.xm, EnemySize, BossStep),
           boss.y < Bottom, boss.ym \in {0, Drop, Dodge}
    PROVE  /\ BossColumns(boss) \in 0 .. W /\ BossColumns(BossFly(key)) \in 0 .. W
           /\ BossRow(boss) \in Nat /\ BossRow(boss) < Bottom + Drop + Dodge
           /\ \/ BossRow(BossFly(key)) \in Nat /\ BossRow(BossFly(key)) > BossRow(boss)
              \/ /\ BossRow(BossFly(key)) = BossRow(boss)
                 /\ BossColumns(BossFly(key)) < BossColumns(boss)
<1> DEFINE t == BossFly(key)
<1>1. boss.x \in Word /\ boss.y \in Nat /\ t \in [x : Word, y : Word, xm : Word, ym : Word]
    <2>1. BossHeading(key) \in Word /\ BossFall(key) \in Word
        BY ParameterTypes, NegType DEF BossHeading, BossFall, Body
    <2> QED
        BY <2>1, AddType DEF Body, Word, BossFly
<1>2. t.x = Add(boss.x, boss.xm) /\ t.y = boss.y + boss.ym /\ t.xm = BossHeading(key)
      /\ t.ym = BossFall(key)
    BY <1>1, BossBoard DEF BossFly, Add
<1>3. \A x \in Word : Add(x, BossStep) \in 0 .. W - 1
    BY AddType, ParameterTypes DEF Word
<1>4. BossColumns(boss) \in 0 .. W /\ BossColumns(t) \in 0 .. W
    BY <1>1, <1>3, BossBoard DEF BossColumns
<1>5. BossRow(boss) = boss.y + boss.ym /\ BossRow(t) = BossRow(boss) + BossFall(key)
    BY <1>2 DEF BossRow
<1>6. CASE BossAtEdge \/ key = "Space"
    <2>1. BossFall(key) \in {Drop, Dodge}
        BY <1>6 DEF BossFall
    <2> QED
        BY <1>1, <1>4, <1>5, <2>1, BossBoard
<1>7. CASE ~BossAtEdge /\ key # "Space"
    <2>1. t.xm = boss.xm /\ BossFall(key) = 0
        BY <1>2, <1>7 DEF BossHeading, BossFall, BossAtEdge
    <2>2. BossColumns(t) < BossColumns(boss)
        <3>1. CASE boss.x = Neg(BossStep) /\ boss.xm = BossStep
            <4>1. Add(boss.x, BossStep) = 0 /\ t.x = 0 /\ Add(t.x, BossStep) = BossStep
                BY <1>2, <3>1, BossBoard DEF Add
            <4> QED
                BY <2>1, <3>1, <4>1, BossBoard DEF BossColumns
        <3>2. CASE boss.x \in Steps(BossStep) /\ boss.x + EnemySize < XMax + 2 * BossStep
            <4>1. boss.x \in Nat /\ (boss.x > 0 => boss.x >= BossStep)
                BY <3>2, BossBoard, StepsStep
            <4>2. Add(boss.x, EnemySize) = boss.x + EnemySize
                BY <3>2, <4>1, BossBoard DEF Add
            <4>3. boss.x > 1 /\ boss.x + EnemySize < XMax
                BY <1>7, <4>1, <4>2, BossBoard DEF BossAtEdge, AtLeft, AtRight
            <4>4. Add(boss.x, BossStep) = boss.x + BossStep
                BY <4>1, <4>3, BossBoard DEF Add
            <4>5. CASE boss.xm = BossStep
                <5>1. t.x = boss.x + BossStep /\ Add(t.x, BossStep) = boss.x + 2 * BossStep
                    BY <1>2, <4>1, <4>3, <4>4, <4>5, BossBoard DEF Add
                <5> QED
                    BY <2>1, <4>1, <4>4, <4>5, <5>1, BossBoard DEF BossColumns
            <4>6. CASE boss.xm = Neg(BossStep)
                <5>1. t.x = boss.x - BossStep /\ Add(t.x, BossStep) = boss.x
                    BY <1>2, <4>1, <4>3, <4>6, BossBoard DEF Add
                <5> QED
                    BY <2>1, <4>1, <4>4, <4>6, <5>1, BossBoard DEF BossColumns
            <4> QED
                BY <4>5, <4>6
        <3> QED
            BY <3>1, <3>2 DEF OnTrack
    <2> QED
        BY <1>1, <1>4, <1>5, <2>1, <2>2, BossBoard
<1> QED
    BY <1>1, <1>4, <1>5, <1>6, <1>7, BossBoard

LEMMA RowsCountMore ==
    ASSUME NEW w \in Nat, NEW a \in Nat \ {0}, NEW b \in Int, NEW c \in 0 .. w, NEW d \in 0 .. w,
           a > b \/ (a = b /\ c > d)
    PROVE  a * (w + 1) + c \in Nat /\ a * (w + 1) + c > b * (w + 1) + d
<1>1. a * (w + 1) \in Nat /\ b * (w + 1) \in Int /\ (b + 1) * (w + 1) = b * (w + 1) + w + 1
    OBVIOUS
<1>2. CASE a > b
    <2>1. a * (w + 1) >= (b + 1) * (w + 1)
        BY <1>2
    <2> QED
        BY <1>1, <2>1
<1>3. CASE a = b /\ c > d
    BY <1>1, <1>3
<1> QED
    BY <1>2, <1>3

(* The countdown under FightEnds (boss.sv:97): at every frame tick of      *)
(* a fight the way of the boss gets shorter, whatever Space does to its    *)
(* heading, nothing else changes it, and it is never used up: before that, *)
(* the boss is hit or has landed.                                          *)
THEOREM FightsRunDown ==
    Spec => [][boss_fight /\ boss_fight' =>
                   /\ BossWay(boss) \in Nat
                   /\ IF gap' = 0 THEN BossWay(boss') < BossWay(boss) ELSE boss' = boss]_vars
<1>1. TypeOK /\ RoundInv /\ TrackInv /\ BossHigh /\ [Next]_vars =>
          [boss_fight /\ boss_fight' =>
               /\ BossWay(boss) \in Nat
               /\ IF gap' = 0 THEN BossWay(boss') < BossWay(boss) ELSE boss' = boss]_vars
    <2> SUFFICES ASSUME TypeOK, RoundInv, TrackInv, BossHigh, Next, boss_fight, boss_fight'
                 PROVE  /\ BossWay(boss) \in Nat
                        /\ IF gap' = 0 THEN BossWay(boss') < BossWay(boss) ELSE boss' = boss
        OBVIOUS
    <2>1. ~Reset
        BY DEF Reset, SignalReset, boss_fight
    <2>2. PICK tick \in BOOLEAN, key \in Keys : Clock(tick, key)
        BY <2>1, NextCases
    <2>3. /\ boss.y < Bottom /\ boss' = IF tick THEN BossFly(key) ELSE boss
          /\ boss \in Body /\ boss.xm \in {BossStep, Neg(BossStep)}
          /\ OnTrack(boss.x, boss.xm, EnemySize, BossStep) /\ boss.ym \in {0, Drop, Dodge}
        BY <2>2, FightGoesOn DEF TypeOK, TrackInv, BossOnTrack, BossHigh
    <2>4. tick <=> gap' = 0
        BY <2>2, GapAssumption DEF Clock, GapClock, TypeOK
    <2> DEFINE Rest(b) == Bottom + 2 * (Drop + Dodge) - BossRow(b)
               t == BossFly(key)
    <2>5. /\ BossColumns(boss) \in 0 .. W /\ BossColumns(t) \in 0 .. W
          /\ Rest(boss) \in Nat \ {0} /\ Rest(t) \in Int
          /\ Rest(boss) > Rest(t) \/ (Rest(boss) = Rest(t) /\ BossColumns(boss) > BossColumns(t))
        <3>1. /\ BossColumns(boss) \in 0 .. W /\ BossColumns(t) \in 0 .. W
              /\ BossRow(boss) \in Nat /\ BossRow(boss) < Bottom + Drop + Dodge
              /\ \/ BossRow(t) \in Nat /\ BossRow(t) > BossRow(boss)
                 \/ BossRow(t) = BossRow(boss) /\ BossColumns(t) < BossColumns(boss)
            BY <2>3, BossComesOn
        <3> HIDE DEF t
        <3> QED
            BY <3>1, BossBoard
    <2>6. BossWay(boss) = Rest(boss) * (W + 1) + BossColumns(boss)
          /\ BossWay(t) = Rest(t) * (W + 1) + BossColumns(t)
        BY DEF BossWay
    <2> HIDE DEF Rest, t
    <2>7. BossWay(boss) \in Nat /\ BossWay(boss) > BossWay(t)
        <3>1. W \in Nat
            BY BossBoard
        <3> QED
            BY <2>5, <2>6, <3>1, RowsCountMore
    <2>8. BossWay(t) \in Int
        BY <2>5, <2>6, BossBoard
    <2> QED
        BY <2>3, <2>4, <2>7, <2>8 DEF t
<1> QED
    BY <1>1, TypeCorrect, RoundInvariant, TrackInvariant, HighInvariant, PTL DEF Spec

-----------------------------------------------------------------------------
(* The countdown under ShotReturns (laser.sv:111): a shot in flight        *)
(* rises by one step at every frame tick and at nothing else, and its row  *)
(* is a number: it is at the muzzle or past the top before the rows give   *)
(* out.  The wrap at row 0 does not send it round again.                   *)
THEOREM ShotsRunUp ==
    Spec => [][InFlight /\ InFlight' =>
                   /\ laser.y \in Nat
                   /\ laser'.y = laser.y - IF gap' = 0 THEN LaserStep ELSE 0]_vars
<1>1. TypeOK /\ LaserTrack /\ [Next]_vars =>
          [InFlight /\ InFlight' =>
               /\ laser.y \in Nat
               /\ laser'.y = laser.y - IF gap' = 0 THEN LaserStep ELSE 0]_vars
    <2> SUFFICES ASSUME TypeOK, LaserTrack, Next, InFlight, InFlight'
                 PROVE  /\ laser.y \in Nat
                        /\ laser'.y = laser.y - IF gap' = 0 THEN LaserStep ELSE 0
        OBVIOUS
    <2>1. laser.y < Muzzle /\ laser'.y < Muzzle /\ Muzzle \in Nat /\ Muzzle <= YMax /\ YMax \in Nat
          /\ LaserStep \in Nat
        BY Geometry DEF InFlight, Muzzle, ShipY
    <2>2. laser.y \in Nat /\ ~PastTop /\ laser.y \in Rows /\ laser.space /\ laser.ym = Up
        BY <2>1 DEF TypeOK, Word, LaserTrack, PastTop
    <2>3. ~Reset
        BY <2>1 DEF Reset, LaserReset, LaserStart
    <2>4. PICK tick \in BOOLEAN, key \in Keys : Clock(tick, key)
        BY <2>3, NextCases
    <2>5. tick <=> gap' = 0
        BY <2>4, GapAssumption DEF Clock, GapClock, TypeOK
    <2>6. /\ laser' # AtMuzzle(ship.x, MuzzleRest, 0, FALSE)
          /\ laser' # AtMuzzle(ship.x, MuzzleRest, 0, key = "Space")
          /\ laser' # AtMuzzle(ship.x, MuzzleFire, Up, key = "Space")
        BY <2>1, Geometry DEF AtMuzzle
    <2>7. LaserClock(tick, key, play \/ boss_fight, ship.x, laser_hit)
        BY <2>4 DEF Clock, Registers
    <2>8. (tick /\ LaserFrame(ship.x, key)) \/ (~tick /\ laser' = laser)
        <3>1. \/ tick /\ LaserFrame(ship.x, key)
              \/ ~tick /\ UNCHANGED laser
            BY <2>6, <2>7, Zenon DEF LaserClock
        <3> QED
            BY <3>1
    <2>9. CASE tick
        <3>1. laser' = LaserRise
            BY <2>2, <2>6, <2>8, <2>9 DEF LaserFrame
        <3>2. laser'.y = Add(laser.y, Up)
            BY <2>2, <3>1 DEF TypeOK, LaserRise
        <3>3. laser.y >= LaserStep
            <4>1. Add(laser.y, Up) \in Word /\ W \in Nat
                BY AddType, NegType, ParameterTypes, WordAssumption DEF Up, TypeOK
            <4> QED
                BY <2>1, <2>2, <3>2, <4>1, FlightRows DEF Word
        <3> QED
            BY <2>2, <2>5, <2>9, <3>2, <3>3, FlightRows
    <2>10. CASE ~tick
        BY <2>2, <2>5, <2>8, <2>10
    <2> QED
        BY <2>9, <2>10
<1> QED
    BY <1>1, TypeCorrect, LaserStaysOnTrack, PTL DEF Spec

=============================================================================
