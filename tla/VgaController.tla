---------------------------- MODULE VgaController -----------------------------
(***************************************************************************)
(* VGA_controller.sv with the edge detector that every moving module has   *)
(* on its VGA_VS.  The sync generator runs on VGA_CLK, half the frequency  *)
(* of Clk and derived from it; the detectors and the game run on Clk.      *)
(* One step is one rising edge of Clk.                                     *)
(***************************************************************************)
EXTENDS Naturals

CONSTANTS
    HTotal, VTotal,        \* H_TOTAL = 800, V_TOTAL = 525
    HVisible, VVisible,    \* 640, 480
    VSyncFirst, VSyncEnd,  \* the lines of the vertical sync pulse: 490, 492
    MinGap                 \* see FrameClock

VgaFits ==
    /\ {HTotal, VTotal, HVisible, VVisible, VSyncFirst, VSyncEnd, MinGap} \subseteq Nat \ {0}
    /\ HVisible < HTotal
    /\ VVisible <= VSyncFirst /\ VSyncFirst < VSyncEnd /\ VSyncEnd < VTotal
    \* the longest gap the generator keeps after the first tick of a reset
    /\ MinGap <= 2 * HTotal * VSyncEnd - 3

ASSUME VgaAssumption == VgaFits

VARIABLES
    vclk,     \* TRUE if this edge of Clk is also one of VGA_CLK
    reset,    \* Reset_h
    h, v,     \* h_counter, v_counter: the beam (DrawX, DrawY)
    vs,       \* VGA_VS, low during the pulse
    blank,    \* VGA_BLANK_N
    delayed,  \* frame_clk_delayed
    rising,   \* frame_clk_rising_edge: the frame tick
    since,    \* history: cycles since the last tick, MinGap after a reset
    fresh     \* history: no tick since the reset

sync == <<h, v, vs, blank>>
vvars == <<vclk, reset, sync, delayed, rising, since, fresh>>

(* Mutant of InSync: the sync pulse lies behind the last line. *)
InSync_behind(line) == line >= VTotal

(* The counters one pixel on. *)
NextPixel == (h + 1) % HTotal
NextLine == IF h + 1 = HTotal THEN (v + 1) % VTotal ELSE v

InSync(line) == line >= VSyncFirst /\ line < VSyncEnd

(* The outputs are registered together with the counters they belong to. *)
Scan ==
    /\ h' = NextPixel /\ v' = NextLine
    /\ vs' = ~InSync(NextLine)
    /\ blank' = (NextPixel < HVisible /\ NextLine < VVisible)

SyncReset == h' = 0 /\ v' = 0 /\ vs' = FALSE /\ blank' = FALSE

(* The synchronous reset of the generator: a press that falls between two  *)
(* edges of VGA_CLK is not seen.                                           *)
VgaClock ==
    \/ vclk /\ reset /\ SyncReset
    \/ vclk /\ ~reset /\ Scan
    \/ ~vclk /\ UNCHANGED sync

(* Mutant of Detect: a level instead of an edge. *)
Detect_level == delayed' = vs /\ rising' = vs

(* Neither register of the edge detector has a reset. *)
Detect == delayed' = vs /\ rising' = (vs /\ ~delayed)

(* What the game takes of this edge: its registers look at Reset first.    *)
Count ==
    /\ since' = IF reset THEN MinGap
                ELSE IF rising THEN 0
                ELSE IF since < MinGap THEN since + 1 ELSE since
    /\ fresh' = (reset \/ (fresh /\ ~rising))

VgaInit ==
    /\ vclk \in BOOLEAN /\ reset = FALSE
    /\ h = 0 /\ v = 0 /\ vs = FALSE /\ blank = FALSE
    /\ delayed = FALSE /\ rising = FALSE
    /\ since = MinGap /\ fresh = TRUE

(* One edge of Clk; the button may be pressed or released at any edge.     *)
ClkEdge ==
    /\ VgaClock /\ Detect /\ Count
    /\ vclk' = ~vclk /\ reset' \in BOOLEAN

VgaSpec == VgaInit /\ [][ClkEdge]_vvars /\ WF_vvars(ClkEdge)
-----------------------------------------------------------------------------
(* The blanking output is that of the pixel under the beam, in spite of    *)
(* the register it goes through; only the first pixel after a reset is     *)
(* blank.                                                                  *)
BlankFollowsBeam ==
    /\ blank => h < HVisible /\ v < VVisible
    /\ h < HVisible /\ v < VVisible => blank \/ (h = 0 /\ v = 0)

(* The ships move between two pictures, never while one is drawn.  After a *)
(* reset VGA_VS rises with the first pixel, and that one tick falls into   *)
(* the picture.                                                            *)
MovesBetweenPictures == rising /\ ~reset => fresh \/ v >= VVisible

(* Pictures never stop coming once the button is left alone.               *)
FramesKeepComing == <>[](~reset) => []<>rising

(* The game's view of it: a tick is MinGap cycles or more from the next,   *)
(* unless a reset lies between them.                                       *)
FrameClock == INSTANCE FrameClock WITH gap <- since
ImplementsFrameClock == FrameClock!GapSpec
=============================================================================
