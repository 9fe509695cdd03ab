------------------------------ MODULE UserLaser ------------------------------
(***************************************************************************)
(* laser.sv (module user_laser): the one shot the player has.  It rests in *)
(* the ship, flies straight up while space_pressed is set, and returns to  *)
(* the ship when it hits something or leaves the screen at the top.        *)
(***************************************************************************)
EXTENDS Playfield

VARIABLE laser  \* [x, y, ym, space]

Up == Neg(LaserStep)

(* Mutant of AtMuzzle: the laser stands on the ship instead of in it. *)
AtMuzzle_on_top(sx, dx, ym, space) ==
    [x |-> Add(sx, dx), y |-> ShipY + MuzzleY - LaserH, ym |-> ym, space |-> space]

(* The laser put into the ship at column sx. *)
AtMuzzle(sx, dx, ym, space) ==
    [x |-> Add(sx, dx), y |-> Add(ShipY, MuzzleY), ym |-> ym, space |-> space]

(* The wrap past row 0 is read as "below the screen". *)
PastTop == laser.y >= YMax

LaserStart == [x |-> XCenter, y |-> YMax, ym |-> 0, space |-> FALSE]

LaserInit == laser = LaserStart

LaserReset == laser' = LaserStart

(* Mutant of LaserRise: the subtraction is kept from wrapping. *)
LaserRise_saturates ==
    [laser EXCEPT !.ym = Up,
                  !.y = IF laser.y < LaserStep THEN 0 ELSE Add(laser.y, laser.ym)]

(* One step up; the first one after Space still uses the motion 0. *)
LaserRise == [laser EXCEPT !.y = Add(laser.y, laser.ym), !.ym = Up]

(* A frame at which the laser is live and touches nothing. *)
LaserFrame(sx, key) ==
    \/ /\ laser.space /\ PastTop /\ key = "Space"
       /\ laser' = AtMuzzle(sx, MuzzleFire, Up, TRUE)
    \/ /\ laser.space /\ PastTop /\ key # "Space"
       /\ laser' = [laser EXCEPT !.space = FALSE]
    \/ /\ laser.space /\ ~PastTop
       /\ laser' = LaserRise
    \/ /\ ~laser.space
       /\ laser' = AtMuzzle(sx, MuzzleRest, 0, key = "Space")

LaserClock(tick, key, live, sx, laser_hit) ==
    \/ ~live /\ laser' = AtMuzzle(sx, MuzzleRest, 0, FALSE)
    \/ live /\ laser_hit /\ laser' = AtMuzzle(sx, MuzzleFire, Up, key = "Space")
    \/ live /\ ~laser_hit /\ tick /\ LaserFrame(sx, key)
    \/ live /\ ~laser_hit /\ ~tick /\ UNCHANGED laser

(* The row of the laser in the ship, and the laser on its way up. *)
Muzzle == ShipY + MuzzleY
InFlight == laser.y < Muzzle

(* The rows a whole number of steps above the muzzle, and the row, as a    *)
(* word, one step above the topmost of them.                               *)
Rows == {r \in 0 .. Muzzle : (Muzzle - r) % LaserStep = 0}
OverTop == Add(Muzzle % LaserStep, Up)

(* The flight keeps to these rows and ends, in spite of the wrap, at one   *)
(* row only, at or below YMax as a word: the test for the top cannot be    *)
(* jumped over.  What flies is armed (only an armed laser is drawn) and    *)
(* moving.                                                                 *)
LaserTrack ==
    /\ laser.y \in Rows \/ (PastTop /\ laser.y \in {YMax, OverTop})
    /\ InFlight => laser.space /\ laser.ym = Up
=============================================================================
