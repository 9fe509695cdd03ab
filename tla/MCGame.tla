------------------------------- MODULE MCGame --------------------------------
(***************************************************************************)
(* A scaled-down board, 14 x 16 points and ships of 2: the game alone      *)
(* under all its inputs, or the whole of Lab8 with a player who follows a  *)
(* script, or there would be too many states.                              *)
(***************************************************************************)
EXTENDS Lab8

CONSTANTS e1, e2

MCEnemy == {e1, e2}
MCSlot == [e \in MCEnemy |-> [x |-> IF e = e1 THEN 3 ELSE 6, y |-> 0]]

(* No two pixels of an image are alike, and one of each has the colour of  *)
(* the background that is not drawn (Picture's Transparent).               *)
MCFoes == <<e1, e2>>
MCFile ==
    [k \in DOMAIN Size |->
        [a \in 0 .. Size[k].w * Size[k].h - 1 |->
            IF a = 1 THEN <<0, 32, 0>> ELSE <<a, Size[k].h, 0>>]]
MCLogo ==
    [l \in {"galaga", "boss_logo", "gameover", "you_win", "press_start"} |->
        [left |-> 2, right |-> 5, top |-> IF l = "press_start" THEN 9 ELSE 3,
         bottom |-> IF l = "press_start" THEN 11 ELSE 5, rows |-> 2,
         driven |-> (0 .. 1) \X (0 .. 2), lit |-> {<<1, 0>>, <<1, 2>>}]]

VARIABLE part

boardvars == <<part, lab8vars>>

BoardInit == Lab8Init /\ part \in {"game", "board"} /\ (part = "game" => vclk)

GameAlone == part = "game" /\ Next /\ UNCHANGED <<part, keycode, turns, beamvars>>

(* The program writes the port while the second line is drawn. *)
ScriptKeys ==
    CASE play       -> {"Space"}
      [] boss_fight -> {IF laser.space THEN "None" ELSE "Space"}
      [] OTHER      -> {"Enter"}

Board ==
    /\ part = "board" /\ Lab8Edge
    /\ keycode' # keycode => h = 3 /\ v = 1 /\ keycode' \in ScriptKeys
    /\ reset' => h = 5 /\ v = 6 /\ laser.y = 5
    /\ UNCHANGED part

BoardSpec == BoardInit /\ [][GameAlone \/ Board]_boardvars

=============================================================================
