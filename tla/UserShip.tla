------------------------------- MODULE UserShip ------------------------------
(***************************************************************************)
(* user_ship.sv: the player's ship.  It moves only at the rising edge of   *)
(* the frame clock, by the motion computed one frame earlier.  The         *)
(* vertical motion register is only ever assigned 0, so the vertical       *)
(* position is the constant ShipY.  The ship is not told which screen is   *)
(* shown: it moves on all of them.                                         *)
(***************************************************************************)
EXTENDS Playfield

VARIABLE ship  \* [x, xm]: User_Ship_X_Pos and User_Ship_X_Motion

(* Mutant of ShipStart: a column the steps do not divide. *)
ShipStart_odd == [x |-> XCenter + 1, xm |-> ShipStep]

ShipStart == [x |-> XCenter, xm |-> ShipStep]

Heading(key) ==
    CASE key = "A" -> Neg(ShipStep)
      [] key = "D" -> ShipStep
      [] OTHER     -> 0

ShipInit == ship = ShipStart

ShipReset == ship' = ShipStart

(* A rising edge of the frame clock. *)
ShipFrame(key) ==
    ship' = [x  |-> Add(ship.x, ship.xm),
             xm |-> CASE AtRight(ship.x, ShipSize) -> Neg(ShipStep)
                      [] ~AtRight(ship.x, ShipSize) /\ AtLeft(ship.x, 0) -> ShipStep
                      [] OTHER -> Heading(key)]

ShipClock(tick, key) ==
    \/ tick /\ ShipFrame(key)
    \/ ~tick /\ UNCHANGED ship

(* The ship by itself, at any sequence of key codes. *)
ShipNext == ShipReset \/ \E key \in Keys : ShipFrame(key)

ShipTypeOK == ship \in [x : Word, xm : {0, ShipStep, Neg(ShipStep)}]

(* The ship turns back at both walls whatever keys are held.  It overshoots *)
(* each by at most one step: on the right it is two steps past the edge    *)
(* test only while it already moves back, and on the left it wraps below 0 *)
(* only for the one frame in which it already moves right again.  The edge *)
(* test on the left is x <= 0, so this needs the ship to hit 0 exactly.    *)
ShipTrack ==
    \/ ship = [x |-> Neg(ShipStep), xm |-> ShipStep]
    \/ /\ ship.x + ShipSize < XMax + 2 * ShipStep
       /\ ship.x + ShipSize >= XMax + ShipStep => ship.xm = Neg(ShipStep)
=============================================================================
