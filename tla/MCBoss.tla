------------------------------- MODULE MCBoss --------------------------------
(***************************************************************************)
(* The boss alone on the real board, never hit, with Space pressed at any  *)
(* frames: every way the boss can take down the screen.                    *)
(***************************************************************************)
EXTENDS Boss

VARIABLE fighting  \* the wire boss_fight: falls the cycle after a landing

bvars == <<boss, bossHit, fighting>>

(* A laser that is nowhere near the boss. *)
NoLaser == [x |-> XMax, y |-> YMax]

BossStepNext(tick, key) ==
    /\ BossClock(tick, key, fighting, NoLaser, BossGameover(fighting))
    /\ IF BossGameover(fighting) THEN fighting' = FALSE ELSE fighting' \in {TRUE, fighting}

FightInit == BossInit /\ fighting = FALSE
=============================================================================
