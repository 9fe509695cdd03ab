------------------------------ MODULE Formation ------------------------------
(***************************************************************************)
(* The enemy ships as a formation: what game_controller.sv and             *)
(* eship_row.sv rely on when they choose the slots, and what it gives for  *)
(* the whole way of the ships down the screen.                             *)
(***************************************************************************)
EXTENDS SignalController, EnemyShips

(* The numbers of the code, as far as the way of the ships depends on      *)
(* them.  A ship moves one column a frame, so it stands on every column,   *)
(* and at a wall it is for three frames within the reach of the edge test. *)
ASSUME FormationAssumption ==
    /\ EnemyStep = 1
    \* three drops are a ship's height or more (30 of 30), and rows are words
    /\ EnemySize <= 3 * Drop /\ Bottom + Drop < W
    \* the slots lie clear of the walls
    /\ \A e \in Enemy : 2 < Slot[e].x /\ Slot[e].x + EnemySize < XMax
    \* two slots of a row are a ship and the four columns of a turn apart
    \* (50 of 34), those of different rows a ship and a turn (80 of 60)
    /\ \A e, f \in Enemy : e # f =>
           \/ /\ Slot[e].y = Slot[f].y
              /\ \/ Slot[e].x + EnemySize + 4 <= Slot[f].x
                 \/ Slot[f].x + EnemySize + 4 <= Slot[e].x
           \/ Slot[e].y + EnemySize + 3 * Drop <= Slot[f].y
           \/ Slot[f].y + EnemySize + 3 * Drop <= Slot[e].y

(* Between the highest row a ship can land in and the lowest there are     *)
(* Drop rows; the drops from the slots only lead to those in which the     *)
(* ship ends above the laser (row 410 of 409 .. 418, with the ship's last  *)
(* row one above the laser's first).                                       *)
ASSUME LandingAssumption ==
    \A e \in Enemy : \A r \in Bottom + MuzzleY .. Bottom + Drop - 1 :
        (r - Slot[e].y) % Drop # 0

-----------------------------------------------------------------------------
Live(e) == enemy[e].y < Bottom /\ ~hit[e]

Apart(s, t) ==
    \/ s.x + EnemySize <= t.x \/ t.x + EnemySize <= s.x
    \/ s.y + EnemySize <= t.y \/ t.y + EnemySize <= s.y

(* No two live ships are drawn over each other, although the ships of a    *)
(* row turn at the walls one after the other and cross on the way back.    *)
ShipsApart ==
    play => \A e, f \in Enemy : e # f /\ Live(e) /\ Live(f) => Apart(enemy[e], enemy[f])

Idle(x) == [x |-> x, y |-> Add(ShipY, MuzzleY)]

(* An idle laser hits nothing, even in the column of a ship: it lies below *)
(* every row a ship can be in, the row it lands in included.               *)
IdleLaserHarmless ==
    play => \A e \in Enemy : ~Overlaps(enemy[e], Idle(enemy[e].x))
=============================================================================
