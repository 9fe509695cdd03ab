----------------------------- MODULE EnemyShips ------------------------------
(***************************************************************************)
(* enemy-ship.sv and eship_row.sv: the enemy ships, each with its hit      *)
(* latch, and the signals the rows combine.  Enemy and Slot stand for the  *)
(* three eship_row instances of six ships: a ship's Slot is the position   *)
(* wired to enemy_x_pos and enemy_y_pos.                                   *)
(***************************************************************************)
EXTENDS HitController, FiniteSets

CONSTANTS Enemy, Slot

ASSUME EnemyAssumption ==
    /\ IsFiniteSet(Enemy) /\ Enemy # {}
    /\ Slot \in [Enemy -> [x : Word, y : Word]]
    \* a ship starts a step of the laser above the bottom row, and the 5-bit
    \* score never wraps
    /\ \A e \in Enemy : Slot[e].y + LaserStep < Bottom
    /\ Cardinality(Enemy) \in 1 .. 30

VARIABLES
    enemy,  \* [Enemy -> [x, y, xm, ym]]: position and motion registers
    hit     \* [Enemy -> BOOLEAN]: the enemy_hit latches

Body == [x : Word, y : Word, xm : Word, ym : Word]

Home(e) == [x |-> Slot[e].x, y |-> Slot[e].y, xm |-> EnemyStep, ym |-> 0]

(* Mutant of Parked: a place the laser passes. *)
Parked_at_centre == [x |-> XCenter, y |-> 0, xm |-> 0, ym |-> 0]

(* Where a ship that was hit is moved to. *)
Parked == [x |-> XMax, y |-> 0, xm |-> 0, ym |-> 0]

(* Mutant of Fly: turning at an edge does not bring the ship down. *)
Fly_level(s) ==
    [x  |-> Add(s.x, s.xm),
     y  |-> Add(s.y, s.ym),
     xm |-> CASE AtRight(s.x, EnemySize) -> Neg(EnemyStep)
              [] ~AtRight(s.x, EnemySize) /\ AtLeft(s.x, 1) -> EnemyStep
              [] OTHER -> s.xm,
     ym |-> 0]

(* One frame of flight.  The position moves by the old motion. *)
Fly(s) ==
    [x  |-> Add(s.x, s.xm),
     y  |-> Add(s.y, s.ym),
     xm |-> CASE AtRight(s.x, EnemySize) -> Neg(EnemyStep)
              [] ~AtRight(s.x, EnemySize) /\ AtLeft(s.x, 1) -> EnemyStep
              [] OTHER -> s.xm,
     ym |-> IF AtRight(s.x, EnemySize) \/ AtLeft(s.x, 1) THEN Drop ELSE 0]

EnemyStepOf(e, tick, playing) ==
    CASE ~playing \/ enemy[e].y >= Bottom -> Home(e)
      [] playing /\ enemy[e].y < Bottom /\ hit[e] -> Parked
      [] playing /\ enemy[e].y < Bottom /\ ~hit[e] /\ tick -> Fly(enemy[e])
      [] OTHER -> enemy[e]

(* The combinational outputs of the rows. *)
RowGameover(playing) == playing /\ \E e \in Enemy : enemy[e].y >= Bottom
RowLaserHit(playing, l) == playing /\ \E e \in Enemy : Overlaps(enemy[e], l)
RowScore == Cardinality({e \in Enemy : hit[e]})

EnemyInit ==
    /\ enemy = [e \in Enemy |-> Home(e)]
    /\ hit = [e \in Enemy |-> FALSE]

EnemyReset ==
    /\ enemy' = [e \in Enemy |-> Home(e)]
    /\ hit' = [e \in Enemy |-> FALSE]

EnemyClock(tick, playing, l, done) ==
    /\ enemy' = [e \in Enemy |-> EnemyStepOf(e, tick, playing)]
    /\ hit' = [e \in Enemy |-> EnemyLatch(hit[e], enemy[e], l, done)]
=============================================================================
