----------------------------- MODULE FrameClock ------------------------------
(***************************************************************************)
(* The frame tick: frame_clk_rising_edge, the registered edge detector     *)
(* every moving module has on VGA_VS.  The vertical sync rises once in     *)
(* 800 * 525 pixels of the 25 MHz clock, so ticks are 840000 cycles of Clk *)
(* apart; the model only uses that at least MinGap cycles lie between two  *)
(* ticks, which admits every real timing.  The controller clears VGA_VS    *)
(* under reset, so a tick follows a reset without that delay.              *)
(***************************************************************************)
EXTENDS Naturals

CONSTANT MinGap

ASSUME GapAssumption == MinGap \in Nat \ {0}

VARIABLE gap  \* cycles since the last tick, up to MinGap

GapInit == gap = MinGap

GapReset == gap' = MinGap

GapClock(tick) ==
    \/ tick /\ gap = MinGap /\ gap' = 0
    \/ ~tick /\ gap' = IF gap < MinGap THEN gap + 1 ELSE gap

(* The clock by itself: what VgaController implements. *)
GapNext == GapReset \/ \E tick \in BOOLEAN : GapClock(tick)

GapSpec == GapInit /\ [][GapNext]_gap
=============================================================================
