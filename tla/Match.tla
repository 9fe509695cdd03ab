-------------------------------- MODULE Match --------------------------------
(***************************************************************************)
(* What the game promises of a match, without a board: which screen is     *)
(* shown, which enemies are counted as hit and whether the boss is.        *)
(* GameController implements it.                                           *)
(***************************************************************************)
CONSTANT Enemy

VARIABLES
    state,  \* the screen
    kills,  \* the enemies whose latch is set
    bossDown

mvars == <<state, kills, bossDown>>

MatchInit == state = "START" /\ kills = {} /\ bossDown = FALSE

Screen(from, to) == state = from /\ state' = to

(* Enter on a menu; the score is carried over. *)
Begin == Screen("START", "PLAY") /\ UNCHANGED <<kills, bossDown>>
Engage == Screen("BOSS_LOGO", "BOSS_FIGHT") /\ UNCHANGED <<kills, bossDown>>

(* One shot hits one enemy or several. *)
Kill ==
    /\ Screen("PLAY", "PLAY")
    /\ kills \subseteq kills' /\ kills' \subseteq Enemy /\ kills' # kills
    /\ UNCHANGED bossDown

(* The round is cleared by the last enemy, and only by it. *)
Clear ==
    /\ Screen("PLAY", "BOSS_LOGO")
    /\ kills = Enemy /\ UNCHANGED <<kills, bossDown>>

KillBoss ==
    /\ Screen("BOSS_FIGHT", "BOSS_FIGHT")
    /\ kills = Enemy /\ ~bossDown
    /\ bossDown' /\ UNCHANGED kills

Win ==
    /\ Screen("BOSS_FIGHT", "WIN")
    /\ kills = Enemy /\ bossDown
    /\ kills' = {} /\ ~bossDown'

Lose ==
    /\ Screen("PLAY", "GAMEOVER") \/ Screen("BOSS_FIGHT", "GAMEOVER")
    /\ kills' = {} /\ ~bossDown'

(* The laser of a lost game, still out, sets latches again: the score of   *)
(* the next match starts with them.                                        *)
Leave ==
    \/ /\ Screen("WIN", "START") /\ UNCHANGED <<kills, bossDown>>
    \/ /\ Screen("GAMEOVER", "START") \/ Screen("GAMEOVER", "GAMEOVER")
       /\ kills \subseteq kills' /\ kills' \subseteq Enemy
       /\ UNCHANGED bossDown

PressReset == state' = "START" /\ kills' = {} /\ bossDown' = FALSE

MatchNext ==
    \/ Begin \/ Kill \/ Clear \/ Engage \/ KillBoss
    \/ Win \/ Lose \/ Leave \/ PressReset

MatchSpec == MatchInit /\ [][MatchNext]_mvars
=============================================================================
