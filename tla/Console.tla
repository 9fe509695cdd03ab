------------------------------- MODULE Console -------------------------------
(***************************************************************************)
(* lab8.sv: the game with the keyboard register in front of it.  The Nios  *)
(* processor writes the code of the pressed key into an 8-bit output port, *)
(* and the game reads that port on every clock until the next write.       *)
(***************************************************************************)
EXTENDS GameController

VARIABLES
    keycode,  \* the port
    turns     \* history: screens turned by Enter, one right after the other, up to 2

cvars == <<vars, keycode, turns>>

ConsoleInit == Init /\ keycode = "None" /\ turns = 0

(* Screens turned since the last write to the port and since the game was  *)
(* last on: a round played with the key down begins a new count.           *)
CountTurn ==
    turns' = IF ~Menu THEN 0
             ELSE IF state' # state /\ turns < 2 THEN turns + 1 ELSE turns

(* What the port does at a clock edge: it keeps its code or takes another, *)
(* which the game reads from the next edge on.                             *)
Keep == UNCHANGED keycode /\ CountTurn
Take == keycode' \in Keys \ {keycode} /\ turns' = 0

HoldAt(tick) == Clock(tick, keycode) /\ Keep
WriteAt(tick) == Clock(tick, keycode) /\ Take

(* KEY[0] does not reset the processor: its program writes on.             *)
ConsoleReset == Reset /\ turns' = 0 /\ keycode' \in Keys

Hold == \E tick \in BOOLEAN : HoldAt(tick)
Write == \E tick \in BOOLEAN : WriteAt(tick)

ConsoleNext == Hold \/ Write \/ ConsoleReset

(* The clock never stops, and neither does the sync generator it drives;   *)
(* and the program writes the port at most once in some milliseconds, so   *)
(* there are clock edges between two writes.  Nothing is assumed of the    *)
(* player.                                                                 *)
ConsoleSpec ==
    /\ ConsoleInit /\ [][ConsoleNext]_cvars
    /\ WF_cvars(HoldAt(TRUE) \/ WriteAt(TRUE))
    /\ WF_cvars(HoldAt(FALSE) \/ WriteAt(FALSE))
    /\ WF_cvars(Hold)

(* Enter, kept down, leaves every menu: no screen is a dead end, whatever  *)
(* the resets and the frame ticks in between.                              *)
HeldEnterPlays ==
    Menu /\ keycode = "Enter" ~> play \/ boss_fight \/ keycode # "Enter"

(* README.md:14 says "Enter = Move to next screen".  The machine looks at  *)
(* the level of the key, so from the end of a game one press turns two     *)
(* screens: to the start screen, and at the next clock edge to the game.   *)
OneScreenPerPress == turns <= 1
=============================================================================
