------------------------------ MODULE Playfield ------------------------------
(***************************************************************************)
(* The screen coordinates every game module computes with, the parameters  *)
(* those modules declare, and the keys the keyboard delivers.              *)
(*                                                                         *)
(* Positions and motions are 10-bit unsigned words in the code: sums wrap, *)
(* a motion to the left or up is a two's complement word, and every        *)
(* comparison is unsigned.  W is the number of words (1024 in the code).   *)
(* The parameters stay symbolic so that TLC can run both the real numbers  *)
(* and a scaled-down board; PlayfieldAssumption names what both share.     *)
(***************************************************************************)
EXTENDS Naturals

CONSTANTS
    W,          \* number of words: 2^10
    XCenter,    \* *_X_Center = 320
    XMax,       \* *_X_Max = 639
    YMax,       \* *_Y_Max = 479
    ShipSize,   \* User_Ship_Size = 40
    ShipStep,   \* User_Ship_X_Step = 2
    EnemySize,  \* enemy_ship_Size = boss_Size = 30
    EnemyStep,  \* enemy_ship_X_Step = enemy_ship_Y_Step = 1
    BossStep,   \* boss_X_Step = 5
    Drop,       \* vertical motion at an edge, 10'd10
    Dodge,      \* vertical motion of the boss when Space is down, 10'd2
    LaserStep,  \* laser_Y_Step = 4
    LaserW,     \* laser_X_Size = 20
    LaserH,     \* laser_Y_Size = 49
    MuzzleRest, \* x offset of an idle laser in the ship, 10'd5
    MuzzleFire, \* x offset of a laser being fired, 10'd8
    MuzzleY     \* y offset of the laser in the ship, 10'd2

Word == 0 .. W - 1

(* Mutant of Add: the sum is not cut to 10 bits. *)
Add_wide(a, b) == a + b

(* 10-bit addition and negation (~m + 1). *)
Add(a, b) == IF a + b < W THEN a + b ELSE a + b - W
Neg(a) == IF a = 0 THEN 0 ELSE W - a

(* Mutant of Bottom: the size of the enemy is forgotten. *)
Bottom_of_ship == YMax - ShipSize

(* The row the user ship never leaves, and the row at which an enemy or    *)
(* the boss has reached the player.                                        *)
ShipY == YMax - ShipSize
Bottom == YMax - ShipSize - EnemySize

(* The edge tests of the ship, the enemies and the boss.  X_Min is 0; the  *)
(* enemies and the boss test X_Min + 1 on the left.                        *)
AtRight(x, size) == Add(x, size) >= XMax
AtLeft(x, margin) == x <= margin

(* The key codes some module compares with; "None" is any other code.     *)
Keys == {"A", "D", "Space", "Enter", "None"}

ASSUME WordAssumption ==
    /\ W \in Nat /\ XCenter \in Word /\ XMax \in Word /\ YMax \in Word
    /\ {ShipSize, EnemySize, LaserW, LaserH} \subseteq Word \ {0}
    /\ {ShipStep, EnemyStep, BossStep, Drop, Dodge, LaserStep} \subseteq Word \ {0}
    /\ {MuzzleRest, MuzzleFire, MuzzleY} \subseteq Word

(* What the numbers of the code and of a scaled-down board have in common: *)
(* the ship fits under the lowest enemy row, ...                           *)
ASSUME PlayfieldAssumption ==
    /\ ShipSize + EnemySize < YMax
    /\ XMax + EnemySize < W
    \* ... the laser fired from the rightmost ship position ends left of
    \* the place where hit ships are parked, ...
    /\ ShipSize > MuzzleFire + LaserW + 2 * ShipStep - 1
    /\ MuzzleRest <= MuzzleFire
    \* ... and the first upward step across the top wraps to a row below
    \* the screen, which is how the laser finds the top edge.
    /\ YMax + LaserStep <= W
    \* The laser at rest lies in the ship and ends within the words.
    /\ MuzzleY <= ShipSize /\ YMax + LaserH < W

(* What the tests at the walls rely on: the ship and the boss start        *)
(* between them, a whole number of steps from the left wall, and           *)
(* overshooting a wall leads nowhere else on the screen.                   *)
ASSUME WallAssumption ==
    /\ \E k \in Word : XCenter = k * ShipStep
    /\ \E k \in Word : XCenter = k * BossStep
    /\ XCenter + ShipSize <= XMax /\ XCenter + EnemySize <= XMax
    /\ ShipSize < XMax /\ EnemySize < XMax
    /\ BossStep <= EnemySize
    /\ XMax + 2 * ShipStep <= W /\ XMax + 2 * BossStep <= W
    /\ XMax + EnemySize + ShipStep < W
    \* a boss that dodges above the bottom row does not come out at the top
    /\ Bottom + Dodge < W
=============================================================================
