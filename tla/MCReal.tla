------------------------------- MODULE MCReal --------------------------------
(***************************************************************************)
(* GameController on the real board: every parameter has the value of the  *)
(* code and all eighteen ships fly.  The player follows a script, or the   *)
(* board would have too many states: the ship stays where it starts, Space *)
(* is held while a round is played, and in the boss fight FightKeys are    *)
(* pressed once the boss has come down to FightRow.                        *)
(***************************************************************************)
EXTENDS GameController

CONSTANTS FightRow, FightKeys

MCEnemy == 1 .. 18

(* The offsets of the rows in game_controller.sv and of the columns in     *)
(* eship_row.sv.                                                           *)
MCSlot == [e \in MCEnemy |-> [x |-> 50 + 50 * ((e - 1) % 6), y |-> 80 * ((e - 1) \div 6)]]

ScriptKeys ==
    CASE play                            -> {"Space"}
      [] boss_fight /\ boss.y >= FightRow -> FightKeys
      [] state \in {"START", "BOSS_LOGO"} -> {"Enter", "None"}
      [] OTHER                        -> {"None"}

ScriptFrame == \E code \in ScriptKeys : Frame(code)
ScriptCycle == \E code \in ScriptKeys : Cycle(code)
ScriptNext == ScriptFrame \/ ScriptCycle

ScriptSpec == Init /\ [][ScriptNext]_vars
=============================================================================
