------------------------------- MODULE MCLaser -------------------------------
(***************************************************************************)
(* The laser alone on the real board, in a round that may last for ever:   *)
(* the keyboard, the columns of the ship and the hits are inputs.          *)
(***************************************************************************)
EXTENDS UserLaser, FrameClock

VARIABLES
    key,   \* "Space" or any other code, as the keyboard holds it
    live   \* play or boss_fight

lvars == <<laser, key, live, gap>>

(* Columns of the ship: both ends of its track and the middle. *)
Columns == {0, XCenter, XMax - ShipSize}

(* The ship rests below every row an enemy is hit at (IdleLaserHarmless):  *)
(* a laser meets something on its way up or past the top.                  *)
MayHit == live /\ (InFlight \/ PastTop)

LaserEdge(tick) ==
    /\ \E sx \in Columns, laser_hit \in {FALSE, MayHit} :
           LaserClock(tick, key, live, sx, laser_hit)
    /\ GapClock(tick)
    /\ key' \in {"Space", "None"} /\ live' \in BOOLEAN

ShotInit == LaserInit /\ GapInit /\ key = "None" /\ live = FALSE

(* The one shot there is never stays out: it meets something or passes the *)
(* top, even in a round that never ends.                                   *)
ShotReturns == InFlight ~> ~InFlight
=============================================================================
