-------------------------------- MODULE Lab8 ---------------------------------
(***************************************************************************)
(* lab8.sv: the sync generator, the game behind its key code port and the  *)
(* drawing, wired together on Clk.  The game's frame tick is the pulse of  *)
(* the edge detectors, and what is drawn are the game's own registers.     *)
(*                                                                         *)
(* Where two flip-flops take Reset at its rise (enemy-ship.sv:46,          *)
(* boss.sv:39 and the latches) and the others at the edge after it, all    *)
(* take it at that edge here: nothing looks at them in between but the     *)
(* picture, of which nothing is said in that cycle.                        *)
(***************************************************************************)
EXTENDS Console, Sequences

CONSTANTS
    HTotal, VTotal, HVisible, VVisible, VSyncFirst, VSyncEnd,  \* see VgaController
    Foes, File, Logo                                           \* see Picture

VARIABLES
    vclk, reset, h, v, vs, blank, delayed, rising, fresh,  \* see VgaController
    word                                                   \* see Picture

beamvars == <<vclk, reset, h, v, vs, blank, delayed, rising, fresh, word>>
lab8vars == <<cvars, beamvars>>

Things == {"ship", "laser", "boss"} \cup Enemy

(* The sizes in the boxes of user_ship.sv, laser.sv, enemy-ship.sv and     *)
(* boss.sv are those the game computes with.                               *)
Size ==
    [ship |-> [w |-> ShipSize, h |-> ShipSize], laser |-> [w |-> LaserW, h |-> LaserH],
     enemy |-> [w |-> EnemySize, h |-> EnemySize], boss |-> [w |-> EnemySize, h |-> EnemySize]]

Position(o) ==
    CASE o = "ship"  -> [x |-> ship.x, y |-> ShipY]
      [] o = "laser" -> [x |-> laser.x, y |-> laser.y]
      [] o = "boss"  -> [x |-> boss.x, y |-> boss.y]
      [] OTHER       -> [x |-> enemy[o].x, y |-> enemy[o].y]

(* What user_ship.sv, laser.sv, enemy-ship.sv, boss.sv and                 *)
(* signal_controller.sv hand to the drawing.                               *)
Scene ==
    [screen |-> state, at |-> [o \in Things |-> Position(o)],
     gone |-> {e \in Enemy : hit[e]} \cup (IF bossHit THEN {"boss"} ELSE {}),
     space |-> laser.space]

Drawing == INSTANCE Picture WITH scene <- Scene, since <- gap, Words <- W

ASSUME Lab8Assumption ==
    /\ {Foes[i] : i \in DOMAIN Foes} = Enemy
    /\ Enemy \cap {"ship", "laser", "boss", "galaga", "press_start", "boss_logo", "gameover",
                   "you_win"} = {}
    /\ Drawing!VgaFits /\ Drawing!ImagesFit /\ Drawing!LogosFit

Lab8Init == ConsoleInit /\ Drawing!VgaInit /\ word = [o \in Things |-> Drawing!Black]

(* One edge of Clk, for the generator, the memories and the game. *)
Lab8Edge ==
    /\ Drawing!ClkEdge /\ Drawing!ReadMemories
    /\ \/ reset /\ ConsoleReset
       \/ ~reset /\ Registers(rising, keycode) /\ (Keep \/ Take)

Lab8Spec == Lab8Init /\ [][Lab8Edge]_lab8vars
-----------------------------------------------------------------------------
(* The game of GameController, whose clock keeps the ticks apart, is the   *)
(* game on the board: the generator never gives it a tick that comes too   *)
(* early, whenever the reset is pressed.                                   *)
TicksAreReal == Spec

(* The picture on the screen is that of the game: what the beam shows at   *)
(* any pixel is what lies there at that moment, and no thing is torn by a  *)
(* move, a hit or a change of the screen while it is drawn.                *)
PictureIsOfTheGame == Drawing!PictureIsTrue
=============================================================================
