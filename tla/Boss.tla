-------------------------------- MODULE Boss ---------------------------------
(***************************************************************************)
(* boss.sv: the boss of the second round.  It flies like an enemy ship,    *)
(* with a longer step, and turns back whenever Space is down at a frame.   *)
(***************************************************************************)
EXTENDS HitController

VARIABLES
    boss,    \* [x, y, xm, ym]
    bossHit  \* its enemy_hit latch

(* Mutant of BossHome: a column from which steps of 5 miss the left wall. *)
BossHome_off_grid == [x |-> Add(XCenter, 2), y |-> 0, xm |-> BossStep, ym |-> 0]

BossHome == [x |-> XCenter, y |-> 0, xm |-> BossStep, ym |-> 0]

BossParked == [x |-> XMax, y |-> 0, xm |-> 0, ym |-> 0]

BossAtEdge == AtRight(boss.x, EnemySize) \/ AtLeft(boss.x, 1)

(* Turning: at an edge back into the screen, else where Space says. *)
BossHeading(key) ==
    CASE AtRight(boss.x, EnemySize) -> Neg(BossStep)
      [] ~AtRight(boss.x, EnemySize) /\ AtLeft(boss.x, 1) -> BossStep
      [] ~BossAtEdge /\ key = "Space" -> Neg(boss.xm)
      [] OTHER -> boss.xm

(* Mutant of BossFall: a dodge is free. *)
BossFall_free_dodge(key) == IF BossAtEdge THEN Drop ELSE 0

(* Every turn costs height. *)
BossFall(key) ==
    CASE BossAtEdge -> Drop
      [] ~BossAtEdge /\ key = "Space" -> Dodge
      [] OTHER -> 0

BossFly(key) ==
    [x  |-> Add(boss.x, boss.xm),
     y  |-> Add(boss.y, boss.ym),
     xm |-> BossHeading(key),
     ym |-> BossFall(key)]

BossGameover(fighting) == fighting /\ boss.y >= Bottom
BossLaserHit(fighting, l) == fighting /\ Overlaps(boss, l)

BossInit == boss = BossHome /\ bossHit = FALSE

BossReset == boss' = BossHome /\ bossHit' = FALSE

BossMove(tick, key, fighting) ==
    \/ (~fighting \/ boss.y >= Bottom) /\ boss' = BossHome
    \/ fighting /\ boss.y < Bottom /\ bossHit /\ boss' = BossParked
    \/ fighting /\ boss.y < Bottom /\ ~bossHit /\ tick /\ boss' = BossFly(key)
    \/ fighting /\ boss.y < Bottom /\ ~bossHit /\ ~tick /\ UNCHANGED boss

BossClock(tick, key, fighting, l, done) ==
    /\ BossMove(tick, key, fighting)
    /\ bossHit' = BossLatch(bossHit, boss, l, done, fighting)

(* The boss turns at both walls whatever Space does to its motion.  It is  *)
(* past the screen on the left only for single frames, at the word -5, and *)
(* then always on its way back.  (A boss that was hit is parked.)          *)
BossTrack ==
    \/ boss = BossParked
    \/ boss.x = Neg(BossStep) /\ boss.xm = BossStep
    \/ /\ boss.x + EnemySize <= XMax + 2 * BossStep
       /\ boss.x + EnemySize >= XMax + BossStep => boss.xm = Neg(BossStep)
=============================================================================
