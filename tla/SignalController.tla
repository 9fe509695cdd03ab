--------------------------- MODULE SignalController --------------------------
(***************************************************************************)
(* signal_controller.sv: the state machine that decides which screen the   *)
(* game is on.  One clock edge of 50 MHz is one step; the key code and the *)
(* three game events are inputs of the step.                               *)
(***************************************************************************)
VARIABLE state

State == {"START", "PLAY", "BOSS_LOGO", "BOSS_FIGHT", "GAMEOVER", "WIN"}

(* The output block that drives the one-hot signals play and boss_fight.   *)
play == state = "PLAY"
boss_fight == state = "BOSS_FIGHT"

Menu == state \in {"START", "BOSS_LOGO", "GAMEOVER", "WIN"}

(* Mutant of NextScreen: the last screen cannot be left. *)
NextScreen_stuck(menu) ==
    CASE menu = "START"     -> "PLAY"
      [] menu = "BOSS_LOGO" -> "BOSS_FIGHT"
      [] menu = "GAMEOVER"  -> "START"
      [] OTHER              -> menu

(* What Enter moves a menu to. *)
NextScreen(menu) ==
    CASE menu = "START"     -> "PLAY"
      [] menu = "BOSS_LOGO" -> "BOSS_FIGHT"
      [] OTHER              -> "START"

(* The next-state block.  The Enter key is a level, not an edge: it moves  *)
(* the machine on every clock at which it is down.                         *)
NextState(key, died, killed_all1, killed_all2) ==
    CASE Menu /\ key = "Enter"             -> NextScreen(state)
      [] ~Menu /\ died                     -> "GAMEOVER"
      [] play /\ ~died /\ killed_all1       -> "BOSS_LOGO"
      [] boss_fight /\ ~died /\ killed_all2 -> "WIN"
      [] OTHER                             -> state

SignalInit == state = "START"

SignalReset == state' = "START"

SignalClock(key, died, killed_all1, killed_all2) ==
    state' = NextState(key, died, killed_all1, killed_all2)
=============================================================================
