------------------------------ MODULE VgaProof -------------------------------
(***************************************************************************)
(* Theorems about the sync generator, the frame tick and the picture, for  *)
(* every screen format that satisfies VgaAssumption and everything drawn   *)
(* on it that satisfies PictureAssumption and LogoAssumption.              *)
(*                                                                         *)
(* The beam is one number, its place: every edge of VGA_CLK moves it on by *)
(* one.  Clk is twice as fast, and the next tick is a number of its edges  *)
(* ahead that falls by one at every edge.                                  *)
(***************************************************************************)
EXTENDS Picture, WellFoundedInduction, TLAPS

(* The pixels of a picture, and those before the end of the sync pulse.    *)
All == HTotal * VTotal
PulseEnd == HTotal * VSyncEnd

Beam(line, column) == HTotal * line + column

(* Edges of Clk since the beam was at the first pixel. *)
Time == 2 * Beam(v, h) + (IF vclk THEN 1 ELSE 0)

(* Edges of Clk until the tick at the end of the next pulse. *)
Ahead(time) == (IF time <= 2 * PulseEnd + 1 THEN 0 ELSE 2 * All) + 2 * PulseEnd + 1 - time

VgaTypes ==
    /\ vclk \in BOOLEAN /\ reset \in BOOLEAN /\ vs \in BOOLEAN
    /\ delayed \in BOOLEAN /\ rising \in BOOLEAN /\ fresh \in BOOLEAN
    /\ h \in 0 .. HTotal - 1 /\ v \in 0 .. VTotal - 1
    /\ since \in 0 .. MinGap

(* The beam waits at the first pixel after a reset, the pulse low. *)
Waiting == h = 0 /\ v = 0 /\ ~vs
PulseFollows == ~Waiting => (vs <=> ~InSync(v))
WaitingIsFresh == Waiting => since = MinGap /\ fresh

(* Where the pulse ends: behind it, or at the second pixel after a reset.  *)
EndOfPulse ==
    \/ v = VSyncEnd /\ h = 0
    \/ v = 0 /\ h = 1 /\ since = MinGap /\ fresh

(* The edge detector sees every level of VGA_VS for two edges.             *)
DetectorFollows ==
    /\ vclk => delayed = vs
    /\ rising => vclk /\ vs /\ EndOfPulse
    /\ ~vclk /\ vs /\ ~delayed => EndOfPulse

(* The last tick and the next are MinGap apart, wherever the beam is.      *)
FarApart == since + Ahead(Time) >= MinGap

VgaInv == VgaTypes /\ PulseFollows /\ WaitingIsFresh /\ DetectorFollows /\ FarApart

-----------------------------------------------------------------------------
(* Products of the format. *)
LEMMA Format ==
    /\ {HTotal, VTotal, HVisible, VVisible, VSyncFirst, VSyncEnd, MinGap} \subseteq Nat \ {0}
    /\ HTotal > 1 /\ VVisible <= VSyncFirst /\ VSyncFirst < VSyncEnd /\ VSyncEnd < VTotal
    /\ All \in Nat /\ PulseEnd \in Nat /\ PulseEnd + HTotal <= All
    /\ MinGap <= 2 * PulseEnd - 3
<1>1. /\ {HTotal, VTotal, HVisible, VVisible, VSyncFirst, VSyncEnd, MinGap} \subseteq Nat \ {0}
      /\ HVisible < HTotal
      /\ VVisible <= VSyncFirst /\ VSyncFirst < VSyncEnd /\ VSyncEnd < VTotal
      /\ MinGap <= 2 * HTotal * VSyncEnd - 3
    BY VgaAssumption DEF VgaFits
<1>2. All \in Nat /\ PulseEnd \in Nat /\ 2 * HTotal * VSyncEnd = 2 * PulseEnd
    BY <1>1 DEF All, PulseEnd
<1>3. PulseEnd + HTotal <= All
    <2>1. VSyncEnd + 1 <= VTotal
        BY <1>1
    <2>2. HTotal * (VSyncEnd + 1) <= HTotal * VTotal
        BY <1>1, <2>1
    <2>3. HTotal * (VSyncEnd + 1) = HTotal * VSyncEnd + HTotal
        BY <1>1
    <2> QED
        BY <2>2, <2>3 DEF All, PulseEnd
<1> QED
    BY <1>1, <1>2, <1>3

(* The place of a beam is on the picture. *)
LEMMA BeamType ==
    ASSUME NEW line \in 0 .. VTotal - 1, NEW column \in 0 .. HTotal - 1
    PROVE  Beam(line, column) \in 0 .. All - 1
<1>1. HTotal * (line + 1) <= HTotal * VTotal
    BY Format
<1>2. HTotal * (line + 1) = HTotal * line + HTotal /\ HTotal * line \in Nat
    BY Format
<1>3. All = HTotal * VTotal
    BY DEF All
<1> QED
    BY <1>1, <1>2, <1>3, Format DEF Beam

(* One pixel on: the next place, after the last the first. *)
LEMMA PixelOn ==
    ASSUME VgaTypes
    PROVE  /\ NextPixel \in 0 .. HTotal - 1 /\ NextLine \in 0 .. VTotal - 1
           /\ NextPixel = IF h + 1 = HTotal THEN 0 ELSE h + 1
           /\ NextLine = IF h + 1 = HTotal THEN IF v + 1 = VTotal THEN 0 ELSE v + 1 ELSE v
           /\ Beam(NextLine, NextPixel) =
                  IF Beam(v, h) + 1 = All THEN 0 ELSE Beam(v, h) + 1
<1>1. h \in 0 .. HTotal - 1 /\ v \in 0 .. VTotal - 1
    BY DEF VgaTypes
<1>2. NextPixel = IF h + 1 = HTotal THEN 0 ELSE h + 1
    <2>1. HTotal \in Nat /\ HTotal > 0
        BY Format
    <2>2. CASE h + 1 = HTotal
        BY <2>1, <2>2 DEF NextPixel
    <2>3. CASE h + 1 < HTotal
        BY <1>1, <2>1, <2>3 DEF NextPixel
    <2> QED
        BY <1>1, <2>1, <2>2, <2>3
<1>3. NextLine = IF h + 1 = HTotal THEN IF v + 1 = VTotal THEN 0 ELSE v + 1 ELSE v
    <2>1. VTotal \in Nat /\ VTotal > 0
        BY Format
    <2>2. CASE v + 1 = VTotal
        BY <2>1, <2>2 DEF NextLine
    <2>3. CASE v + 1 < VTotal
        BY <1>1, <2>1, <2>3 DEF NextLine
    <2> QED
        BY <1>1, <2>1, <2>2, <2>3
<1>4. NextPixel \in 0 .. HTotal - 1 /\ NextLine \in 0 .. VTotal - 1
    BY <1>1, <1>2, <1>3, Format
<1>5. HTotal * (v + 1) = HTotal * v + HTotal /\ HTotal * v \in Nat /\ HTotal * 0 = 0
    BY <1>1, Format
<1>6. Beam(v, h) = HTotal * v + h /\ All = HTotal * VTotal
    BY DEF Beam, All
<1>7. CASE h + 1 < HTotal
    <2>1. Beam(NextLine, NextPixel) = Beam(v, h) + 1
        BY <1>1, <1>2, <1>3, <1>5, <1>7, Format DEF Beam
    <2>2. Beam(NextLine, NextPixel) # All
        BY <1>4, BeamType, Format
    <2> QED
        BY <1>2, <1>3, <1>4, <2>1, <2>2
<1>8. CASE h + 1 = HTotal /\ v + 1 < VTotal
    <2>1. Beam(NextLine, NextPixel) = HTotal * (v + 1) + 0
        BY <1>1, <1>2, <1>3, <1>8, Format DEF Beam
    <2>2. Beam(NextLine, NextPixel) = Beam(v, h) + 1
        BY <1>1, <1>5, <1>6, <1>8, <2>1, Format
    <2>3. Beam(NextLine, NextPixel) # All
        BY <1>4, BeamType, Format
    <2> QED
        BY <1>2, <1>3, <1>4, <2>2, <2>3
<1>9. CASE h + 1 = HTotal /\ v + 1 = VTotal
    <2>1. Beam(v, h) + 1 = All
        BY <1>1, <1>5, <1>6, <1>9, Format
    <2>2. Beam(NextLine, NextPixel) = 0
        BY <1>2, <1>3, <1>5, <1>9, Format DEF Beam
    <2> QED
        BY <1>2, <1>3, <1>4, <2>1, <2>2
<1> QED
    BY <1>1, <1>2, <1>3, <1>4, <1>7, <1>8, <1>9, Format

(* Where a low pulse rises by scanning. *)
LEMMA Rise ==
    ASSUME VgaInv, ~vs, ~InSync(NextLine)
    PROVE  \/ NextLine = VSyncEnd /\ NextPixel = 0
           \/ NextLine = 0 /\ NextPixel = 1 /\ since = MinGap /\ fresh
<1>1. CASE Waiting
    BY <1>1, PixelOn, Format DEF VgaInv, WaitingIsFresh, Waiting
<1>2. CASE ~Waiting
    <2>1. InSync(v)
        BY <1>2 DEF VgaInv, PulseFollows, VgaTypes
    <2> QED
        BY <2>1, PixelOn, Format DEF VgaInv, VgaTypes, InSync
<1> QED
    BY <1>1, <1>2

-----------------------------------------------------------------------------
LEMMA AheadFalls ==
    ASSUME NEW time \in 0 .. 2 * All - 1
    PROVE  /\ Ahead(time) \in Nat
           /\ time = 2 * All - 1 => Ahead(0) = Ahead(time) - 1
           /\ time < 2 * All - 1 /\ time # 2 * PulseEnd + 1 => Ahead(time + 1) = Ahead(time) - 1
           /\ time = 2 * PulseEnd + 1 => Ahead(time) = 0 /\ Ahead(time + 1) >= MinGap
           /\ time = 3 => Ahead(time + 1) >= MinGap
BY Format DEF Ahead

LEMMA TimeType ==
    ASSUME VgaTypes
    PROVE  Time \in 0 .. 2 * All - 1 /\ Beam(v, h) \in 0 .. All - 1
<1>1. Beam(v, h) \in 0 .. All - 1
    BY BeamType DEF VgaTypes
<1>2. CASE vclk
    BY <1>1, <1>2, Format DEF Time
<1>3. CASE ~vclk
    BY <1>1, <1>3, Format DEF Time
<1> QED
    BY <1>1, <1>2, <1>3

(* At an edge without a reset time goes on. *)
LEMMA TimeGoesOn ==
    ASSUME VgaTypes, ClkEdge, ~reset
    PROVE  Time' = IF Time = 2 * All - 1 THEN 0 ELSE Time + 1
<1> DEFINE p == Beam(v, h)
           q == Beam(v', h')
<1>1. p \in 0 .. All - 1 /\ All \in Nat
    BY TimeType, Format
<1>2. CASE vclk
    <2>1. h' = NextPixel /\ v' = NextLine /\ ~vclk'
        BY <1>2 DEF ClkEdge, VgaClock, Scan
    <2>2. q = IF p + 1 = All THEN 0 ELSE p + 1
        BY <2>1, PixelOn
    <2>3. Time = 2 * p + 1
        BY <1>2 DEF Time
    <2>4. Time' = 2 * q + 0
        BY <2>1 DEF Time, Beam
    <2> HIDE DEF p, q
    <2>5. CASE p + 1 = All
        BY <1>1, <2>2, <2>3, <2>4, <2>5
    <2>6. CASE p + 1 # All
        BY <1>1, <2>2, <2>3, <2>4, <2>6
    <2> QED
        BY <2>5, <2>6
<1>3. CASE ~vclk
    <2>1. h' = h /\ v' = v /\ vclk' = TRUE
        BY <1>3 DEF ClkEdge, VgaClock, sync
    <2>2. Time = 2 * p + 0
        BY <1>3 DEF Time
    <2>3. Time' = 2 * p + 1
        BY <2>1 DEF Time, Beam
    <2> HIDE DEF p, q
    <2> QED
        BY <1>1, <2>2, <2>3
<1> QED
    BY <1>2, <1>3

LEMMA TypesStep ==
    ASSUME VgaTypes, ClkEdge
    PROVE  VgaTypes'
<1>1. /\ vclk' \in BOOLEAN /\ reset' \in BOOLEAN
      /\ delayed' \in BOOLEAN /\ rising' \in BOOLEAN /\ fresh' \in BOOLEAN
      /\ since' \in 0 .. MinGap
    BY Format DEF VgaTypes, ClkEdge, Detect, Count
<1>2. CASE vclk /\ reset
    <2>1. h' = 0 /\ v' = 0 /\ vs' = FALSE
        BY <1>2 DEF ClkEdge, VgaClock, SyncReset
    <2>2. 0 \in 0 .. HTotal - 1 /\ 0 \in 0 .. VTotal - 1
        BY Format
    <2> QED
        BY <1>1, <2>1, <2>2 DEF VgaTypes
<1>3. CASE vclk /\ ~reset
    <2>1. h' = NextPixel /\ v' = NextLine /\ vs' \in BOOLEAN
        BY <1>3 DEF ClkEdge, VgaClock, Scan
    <2> QED
        BY <1>1, <2>1, PixelOn DEF VgaTypes
<1>4. CASE ~vclk
    BY <1>1, <1>4 DEF VgaTypes, ClkEdge, VgaClock, sync
<1> QED
    BY <1>2, <1>3, <1>4

LEMMA VgaStep ==
    ASSUME VgaInv, ClkEdge
    PROVE  VgaInv'
<1> USE DEF VgaInv
<1>1. VgaTypes'
    BY TypesStep
<1>2. since' = (IF reset THEN MinGap ELSE IF rising THEN 0
                ELSE IF since < MinGap THEN since + 1 ELSE since)
      /\ fresh' = (reset \/ (fresh /\ ~rising))
      /\ delayed' = vs /\ rising' = (vs /\ ~delayed) /\ vclk' = ~vclk
    BY DEF ClkEdge, Count, Detect
<1>3. since \in 0 .. MinGap /\ MinGap \in Nat
    BY Format DEF VgaTypes
<1>4. CASE vclk /\ reset
    <2>1. h' = 0 /\ v' = 0 /\ vs' = FALSE
        BY <1>4 DEF ClkEdge, VgaClock, SyncReset
    <2>2. since' = MinGap /\ fresh' /\ ~vclk'
        BY <1>2, <1>4
    <2>3. ~rising'
        BY <1>2, <1>4 DEF DetectorFollows
    <2>4. PulseFollows' /\ WaitingIsFresh' /\ DetectorFollows'
        BY <2>1, <2>2, <2>3 DEF PulseFollows, WaitingIsFresh, Waiting, DetectorFollows
    <2>5. Time' = 0
        BY <2>1, <2>2, Format DEF Time, Beam
    <2>6. Ahead(Time') \in Nat
        BY <2>5, Format, AheadFalls
    <2> QED
        BY <1>1, <1>3, <2>2, <2>4, <2>5, <2>6, Format DEF FarApart, Ahead, PulseEnd, All
<1>5. CASE ~vclk /\ reset
    <2>1. h' = h /\ v' = v /\ vs' = vs /\ vclk'
        BY <1>2, <1>5 DEF ClkEdge, VgaClock, sync
    <2>2. since' = MinGap /\ fresh'
        BY <1>2, <1>5
    <2>3. PulseFollows' /\ WaitingIsFresh'
        BY <2>1, <2>2 DEF PulseFollows, WaitingIsFresh, Waiting, InSync
    <2>4. DetectorFollows'
        BY <1>2, <1>5, <2>1, <2>2 DEF DetectorFollows, EndOfPulse, VgaTypes
    <2>5. Time' = 2 * Beam(v, h) + 1
        BY <2>1 DEF Time, Beam
    <2>6. Ahead(Time') \in Nat
        BY <2>5, TimeType, AheadFalls, Format
    <2> QED
        BY <1>1, <1>3, <2>2, <2>3, <2>4, <2>6 DEF FarApart, Ahead, All, PulseEnd
<1>6. CASE ~reset
    <2>1. FarApart'
        <3>1. Time' = IF Time = 2 * All - 1 THEN 0 ELSE Time + 1
            BY <1>6, TimeGoesOn
        <3>2. Time \in 0 .. 2 * All - 1
            BY TimeType
        <3>3. Ahead(Time') \in Nat
            BY <3>1, <3>2, AheadFalls, Format DEF Ahead
        <3>4. CASE rising
            <4>1. since' = 0 /\ vclk /\ EndOfPulse
                BY <1>2, <1>6, <3>4 DEF DetectorFollows
            <4>2. Time = 2 * PulseEnd + 1 \/ Time = 3
                BY <4>1, Format DEF EndOfPulse, Time, Beam, PulseEnd
            <4>3. Time # 2 * All - 1
                BY <4>2, Format
            <4>4. Ahead(Time + 1) >= MinGap /\ Ahead(Time') = Ahead(Time + 1)
                BY <3>1, <3>2, <4>2, <4>3, AheadFalls
            <4>5. since' + Ahead(Time') >= MinGap
                BY <3>3, <4>1, <4>4
            <4> QED
                BY <4>5 DEF FarApart, Ahead, All, PulseEnd
        <3>5. CASE ~rising /\ Time # 2 * PulseEnd + 1
            <4>1. Ahead(Time) \in Nat /\ Ahead(Time') = Ahead(Time) - 1
                BY <3>1, <3>2, <3>5, AheadFalls, Format
            <4>2. since' + Ahead(Time') >= MinGap
                BY <1>2, <1>3, <1>6, <3>5, <3>3, <4>1 DEF FarApart
            <4> QED
                BY <4>2 DEF FarApart, Ahead, All, PulseEnd
        <3>6. CASE ~rising /\ Time = 2 * PulseEnd + 1
            <4>1. since' = MinGap
                BY <1>2, <1>3, <1>6, <3>2, <3>6, AheadFalls DEF FarApart
            <4>2. Ahead(Time') >= MinGap
                BY <3>1, <3>2, <3>6, AheadFalls, Format
            <4>3. since' + Ahead(Time') >= MinGap
                BY <1>3, <3>3, <4>1, <4>2
            <4> QED
                BY <4>3 DEF FarApart, Ahead, All, PulseEnd
        <3> QED
            BY <3>4, <3>5, <3>6
    <2>2. CASE ~vclk
        <3>1. h' = h /\ v' = v /\ vs' = vs /\ vclk'
            BY <1>2, <2>2 DEF ClkEdge, VgaClock, sync
        <3>2. ~rising /\ fresh' = fresh /\ (since = MinGap => since' = MinGap)
            BY <1>2, <1>3, <1>6, <2>2 DEF DetectorFollows, VgaTypes
        <3>3. PulseFollows' /\ WaitingIsFresh'
            BY <3>1, <3>2 DEF PulseFollows, WaitingIsFresh, Waiting, InSync
        <3>4. DetectorFollows'
            BY <1>2, <2>2, <3>1, <3>2 DEF DetectorFollows, EndOfPulse
        <3> QED
            BY <1>1, <2>1, <3>3, <3>4
    <2>3. CASE vclk
        <3>1. h' = NextPixel /\ v' = NextLine /\ vs' = ~InSync(NextLine) /\ ~vclk'
            BY <1>2, <1>6, <2>3 DEF ClkEdge, VgaClock, Scan
        <3>2. delayed = vs /\ ~rising' /\ delayed' = vs
            BY <1>2, <2>3 DEF DetectorFollows, VgaTypes
        <3>3. ~Waiting'
            <4>1. 0 \in Nat /\ ~InSync(0)
                BY Format DEF InSync
            <4> QED
                BY <3>1, <4>1 DEF Waiting
        <3>4. PulseFollows' /\ WaitingIsFresh'
            BY <3>1, <3>3 DEF PulseFollows, WaitingIsFresh, InSync
        <3>5. ASSUME vs', ~delayed'
              PROVE  EndOfPulse'
            <4>1. ~vs /\ ~InSync(NextLine)
                BY <3>1, <3>2, <3>5
            <4>2. ~rising
                BY <4>1 DEF DetectorFollows
            <4>3. fresh' = fresh /\ (since = MinGap => since' = MinGap)
                BY <1>2, <1>3, <1>6, <4>2 DEF VgaTypes
            <4> QED
                BY <3>1, <4>1, <4>3, Rise DEF EndOfPulse
        <3>6. DetectorFollows'
            BY <3>1, <3>2, <3>5 DEF DetectorFollows
        <3> QED
            BY <1>1, <2>1, <3>4, <3>6
    <2> QED
        BY <2>2, <2>3
<1> QED
    BY <1>4, <1>5, <1>6 DEF VgaTypes

LEMMA VgaSafe == VgaInit /\ [][ClkEdge]_vvars => []VgaInv
<1>1. VgaInit => VgaInv
    <2> SUFFICES ASSUME VgaInit PROVE VgaInv
        OBVIOUS
    <2>1. VgaTypes
        <3>1. 0 \in 0 .. HTotal - 1 /\ 0 \in 0 .. VTotal - 1 /\ MinGap \in 0 .. MinGap
            BY Format
        <3> QED
            BY <3>1 DEF VgaInit, VgaTypes
    <2>2. VgaTypes /\ PulseFollows /\ WaitingIsFresh /\ DetectorFollows
        BY <2>1 DEF VgaInit, PulseFollows, WaitingIsFresh, Waiting, DetectorFollows
    <2>3. Ahead(Time) \in Nat
        BY <2>2, TimeType, AheadFalls
    <2> QED
        BY <2>2, <2>3, Format DEF VgaInit, VgaInv, FarApart
<1>2. VgaInv /\ [ClkEdge]_vvars => VgaInv'
    <2>1. CASE UNCHANGED vvars
        BY <2>1 DEF vvars, sync, VgaInv, VgaTypes, PulseFollows, WaitingIsFresh, Waiting, InSync,
                    DetectorFollows, EndOfPulse, FarApart, Ahead, Time, Beam, All, PulseEnd
    <2> QED
        BY <2>1, VgaStep
<1> QED
    BY <1>1, <1>2, PTL

(* The ships move between two pictures. *)
THEOREM PicturesAreStill == VgaSpec => []MovesBetweenPictures
<1>1. VgaInv => MovesBetweenPictures
    BY Format DEF VgaInv, VgaTypes, DetectorFollows, EndOfPulse, MovesBetweenPictures
<1> QED
    BY <1>1, VgaSafe, PTL DEF VgaSpec

(* The next tick finds the counter full. *)
LEMMA TickIsFree ==
    ASSUME VgaInv, rising, ~reset
    PROVE  since = MinGap
<1>1. Time = 2 * PulseEnd + 1 \/ since = MinGap
    BY Format DEF VgaInv, DetectorFollows, EndOfPulse, Time, Beam, PulseEnd
<1> QED
    BY <1>1, TimeType, AheadFalls, Format DEF VgaInv, VgaTypes, FarApart

(* The game may count on the distance of its ticks: VgaController          *)
(* implements FrameClock.                                                  *)
THEOREM TicksAreFarApart == VgaSpec => ImplementsFrameClock
<1>1. VgaInit => FrameClock!GapInit
    BY DEF VgaInit, FrameClock!GapInit
<1>2. VgaInv /\ [ClkEdge]_vvars => [FrameClock!GapNext]_since
    <2> SUFFICES ASSUME VgaInv, ClkEdge PROVE FrameClock!GapNext
        BY DEF vvars
    <2>1. since' = IF reset THEN MinGap ELSE IF rising THEN 0
                   ELSE IF since < MinGap THEN since + 1 ELSE since
        BY DEF ClkEdge, Count
    <2>2. CASE reset
        BY <2>1, <2>2 DEF FrameClock!GapNext, FrameClock!GapReset
    <2>3. CASE ~reset /\ rising
        <3>1. FrameClock!GapClock(TRUE)
            BY <2>1, <2>3, TickIsFree DEF FrameClock!GapClock
        <3> QED
            BY <3>1 DEF FrameClock!GapNext
    <2>4. CASE ~reset /\ ~rising
        <3>1. FrameClock!GapClock(FALSE)
            BY <2>1, <2>4 DEF FrameClock!GapClock
        <3> QED
            BY <3>1 DEF FrameClock!GapNext
    <2> QED
        BY <2>2, <2>3, <2>4
<1> QED
    BY <1>1, <1>2, VgaSafe, PTL DEF VgaSpec, ImplementsFrameClock, FrameClock!GapSpec

-----------------------------------------------------------------------------
(* Pictures keep coming.  Behind the sync pulse the detector is armed: no  *)
(* edge of Clk between the end of the pulse and the tick is lost.          *)
AtPulseEnd == v = VSyncEnd /\ h = 0

TickIsDue ==
    /\ ~vclk /\ AtPulseEnd => vs /\ ~delayed
    /\ vclk /\ AtPulseEnd => rising

LEMMA DueStep ==
    ASSUME VgaInv, TickIsDue, ClkEdge
    PROVE  TickIsDue'
<1>1. /\ delayed' = vs /\ rising' = (vs /\ ~delayed) /\ vclk' = ~vclk /\ vclk \in BOOLEAN
      /\ VSyncEnd \in Nat \ {0} /\ VSyncFirst \in Nat \ {0} /\ VSyncFirst < VSyncEnd
    BY Format DEF ClkEdge, Detect, VgaInv, VgaTypes
<1>2. CASE vclk /\ reset
    <2>1. v' = 0 /\ ~AtPulseEnd'
        BY <1>1, <1>2 DEF ClkEdge, VgaClock, SyncReset, AtPulseEnd
    <2> QED
        BY <2>1 DEF TickIsDue
<1>3. CASE vclk /\ ~reset
    <2>1. h' = NextPixel /\ v' = NextLine /\ vs' = ~InSync(NextLine) /\ ~vclk'
        BY <1>1, <1>3 DEF ClkEdge, VgaClock, Scan
    <2>2. ASSUME AtPulseEnd' PROVE vs' /\ ~delayed'
        <3>1. NextLine = VSyncEnd /\ NextPixel = 0
            BY <2>1, <2>2 DEF AtPulseEnd
        <3>2. h + 1 = HTotal /\ v + 1 = VSyncEnd
            BY <1>1, <3>1, PixelOn DEF VgaInv, VgaTypes
        <3>3. InSync(v) /\ ~InSync(VSyncEnd) /\ ~Waiting
            BY <1>1, <3>2, Format DEF InSync, Waiting, VgaInv, VgaTypes
        <3>4. ~vs
            BY <3>3 DEF VgaInv, PulseFollows, VgaTypes
        <3> QED
            BY <1>1, <2>1, <3>1, <3>3, <3>4
    <2> QED
        BY <2>1, <2>2 DEF TickIsDue
<1>4. CASE ~vclk
    <2>1. h' = h /\ v' = v /\ vclk'
        BY <1>1, <1>4 DEF ClkEdge, VgaClock, sync
    <2> QED
        BY <1>1, <1>4, <2>1 DEF TickIsDue, AtPulseEnd
<1> QED
    BY <1>1, <1>2, <1>3, <1>4

(* Only there does the time to the next tick run out.                      *)
LEMMA PulseEndIsUnique ==
    ASSUME VgaTypes, Time = 2 * PulseEnd + 1
    PROVE  vclk /\ AtPulseEnd
<1>1. /\ h \in 0 .. HTotal - 1 /\ v \in 0 .. VTotal - 1 /\ vclk \in BOOLEAN
      /\ HTotal \in Nat \ {0} /\ VSyncEnd \in Nat /\ PulseEnd \in Nat
    BY Format DEF VgaTypes
<1>2. Beam(v, h) \in Nat
    BY TimeType, Format
<1>3. vclk /\ Beam(v, h) = PulseEnd
    BY <1>1, <1>2 DEF Time
<1>4. HTotal * v \in Nat /\ HTotal * v + h = HTotal * VSyncEnd
    BY <1>1, <1>3 DEF Beam, PulseEnd
<1>5. CASE v + 1 <= VSyncEnd
    <2>1. HTotal * (v + 1) <= HTotal * VSyncEnd
        BY <1>1, <1>5
    <2>2. HTotal * (v + 1) = HTotal * v + HTotal
        BY <1>1
    <2> QED
        BY <1>1, <1>4, <2>1, <2>2
<1>6. CASE VSyncEnd + 1 <= v
    <2>1. HTotal * (VSyncEnd + 1) <= HTotal * v
        BY <1>1, <1>6
    <2>2. HTotal * (VSyncEnd + 1) = HTotal * VSyncEnd + HTotal
        BY <1>1
    <2> QED
        BY <1>1, <1>4, <2>1, <2>2
<1>7. CASE v = VSyncEnd
    <2>1. h = 0
        BY <1>1, <1>4, <1>7
    <2> QED
        BY <1>3, <1>7, <2>1 DEF AtPulseEnd
<1> QED
    BY <1>1, <1>5, <1>6, <1>7

(* Edges of Clk until the next tick, but for one that a reset brings       *)
(* forward.                                                                *)
NextTick == Ahead(Time)

(* The countdown under FramesKeepComing: with the button left alone every  *)
(* edge of Clk brings the next tick nearer by one, and at none is it due   *)
(* without being there.                                                    *)
THEOREM PicturesAreDue ==
    VgaSpec => /\ [](NextTick \in Nat /\ (NextTick = 0 => rising))
               /\ [][~reset /\ ~rising => NextTick' = NextTick - 1]_vvars
<1>1. VgaInit => TickIsDue
    BY Format DEF VgaInit, TickIsDue, AtPulseEnd
<1>2. VgaInv /\ TickIsDue /\ [ClkEdge]_vvars => TickIsDue'
    <2>1. CASE UNCHANGED vvars
        BY <2>1 DEF vvars, sync, TickIsDue, AtPulseEnd
    <2> QED
        BY <2>1, DueStep
<1>3. VgaInv /\ TickIsDue => NextTick \in Nat /\ (NextTick = 0 => rising)
    <2> SUFFICES ASSUME VgaInv, TickIsDue
                 PROVE  NextTick \in Nat /\ (NextTick = 0 => rising)
        OBVIOUS
    <2>1. Time \in 0 .. 2 * All - 1 /\ VgaTypes
        BY TimeType DEF VgaInv
    <2>2. ASSUME Ahead(Time) = 0 PROVE Time = 2 * PulseEnd + 1
        BY <2>1, <2>2, Format DEF Ahead
    <2> QED
        BY <2>1, <2>2, AheadFalls, PulseEndIsUnique DEF NextTick, TickIsDue
<1>4. VgaInv /\ TickIsDue /\ [ClkEdge]_vvars
          => [~reset /\ ~rising => NextTick' = NextTick - 1]_vvars
    <2> SUFFICES ASSUME VgaInv, TickIsDue, ClkEdge, ~reset, ~rising
                 PROVE  NextTick' = NextTick - 1
        OBVIOUS
    <2>1. Time \in 0 .. 2 * All - 1 /\ Time' = IF Time = 2 * All - 1 THEN 0 ELSE Time + 1
        BY TimeType, TimeGoesOn DEF VgaInv
    <2>2. Time # 2 * PulseEnd + 1
        BY PulseEndIsUnique DEF VgaInv, TickIsDue
    <2>3. Ahead(Time') = Ahead(Time) - 1
        BY <2>1, <2>2, AheadFalls, Format
    <2>4. NextTick' = Ahead(Time')
        BY DEF NextTick, Ahead, All, PulseEnd
    <2> QED
        BY <2>3, <2>4 DEF NextTick
<1> QED
    BY <1>1, <1>2, <1>3, <1>4, VgaSafe, PTL DEF VgaSpec

-----------------------------------------------------------------------------
(* The picture.  Any nonempty set of numbers has a least one.              *)
LEMMA Least ==
    ASSUME NEW T, T \subseteq Nat, T # {}
    PROVE  \E i \in T : \A k \in T : ~(k < i)
<1> DEFINE Below == OpToRel(<, Nat)
<1>1. IsWellFoundedOn(Below, Nat)
    BY NatLessThanWellFounded
<1>2. \A j, k \in Nat : k < j => <<k, j>> \in Below
    BY DEF OpToRel
<1> HIDE DEF Below
<1>3. PICK i \in T : \A k \in T : <<k, i>> \notin Below
    BY <1>1, WFMin
<1>4. i \in Nat /\ \A k \in T : k \in Nat
    OBVIOUS
<1>5. ASSUME NEW k \in T, k < i PROVE FALSE
    <2>1. <<k, i>> \in Below
        BY <1>2, <1>4, <1>5
    <2> QED
        BY <1>3, <2>1
<1> QED
    BY <1>5

(* What claims a pixel decides alone, and only its colour counts.          *)
LEMMA FirstDecides ==
    ASSUME NEW n \in Nat, NEW claims \in [1 .. n -> BOOLEAN], NEW colours, NEW others,
           \A i \in 1 .. n : claims[i] => colours[i] = others[i]
    PROVE  First(claims, colours) = First(claims, others)
<1> DEFINE T == {i \in 1 .. n : claims[i]}
           Chosen(i) == claims[i] /\ \A k \in 1 .. i - 1 : ~claims[k]
<1>1. CASE T = {}
    BY <1>1 DEF First
<1>2. CASE T # {}
    <2>1. PICK i \in T : \A k \in T : ~(k < i)
        <3>1. T \subseteq Nat
            OBVIOUS
        <3> HIDE DEF T
        <3> QED
            BY <1>2, <3>1, Least
    <2>2. i \in 1 .. n /\ Chosen(i)
        BY <2>1
    <2> DEFINE c == CHOOSE j \in 1 .. n : Chosen(j)
    <2>3. c \in 1 .. n /\ Chosen(c)
        BY <2>2
    <2>4. claims[i] /\ i \in DOMAIN claims /\ DOMAIN claims = 1 .. n
        BY <2>2
    <2>5. First(claims, colours) = colours[c] /\ First(claims, others) = others[c]
        BY <2>4 DEF First
    <2> HIDE DEF c
    <2> QED
        BY <2>3, <2>5
<1> QED
    BY <1>1, <1>2

(* A word is in its register one edge of Clk after its address, and the    *)
(* screen takes it at the second edge of a pixel: neither the beam nor     *)
(* what is drawn has moved since.                                          *)
Settled == vclk /\ blank /\ ~reset /\ ~fresh /\ since > 1
WordsAreRead == Settled => \A o \in Drawn : word[o] = Ram(File[Kind(o)], PixelAddress(o))

PictureInv == VgaTypes /\ BlankFollowsBeam /\ scene \in Scenes /\ WordsAreRead

LEMMA Sizes ==
    ASSUME NEW o \in Thing
    PROVE  /\ Kind(o) \in DOMAIN Size
           /\ Size[Kind(o)].w \in Nat \ {0} /\ HVisible + Size[Kind(o)].w <= Words
           /\ Size[Kind(o)].h \in Nat \ {0} /\ VVisible + Size[Kind(o)].h <= Words
           /\ DOMAIN File[Kind(o)] = 0 .. Size[Kind(o)].w * Size[Kind(o)].h - 1
           /\ Words \in Nat
<1>1. Kind(o) \in DOMAIN Size
    BY PictureAssumption DEF ImagesFit, Kind, Thing
<1> QED
    BY <1>1, PictureAssumption DEF ImagesFit

(* Of a box that sticks out over the edge only the far side is lost: where *)
(* the screen is, no sum has wrapped.                                      *)
LEMMA Boxes ==
    ASSUME NEW p \in 0 .. Words - 1, NEW q \in Nat, NEW visible \in Nat, NEW size \in Nat,
           q < visible, visible + size <= Words
    PROVE  p <= q /\ q < Sum(p, size) <=> q - p \in 0 .. size - 1
<1>1. Words \in Nat
    BY PictureAssumption DEF ImagesFit
<1>2. CASE p <= q
    <2>1. p + size \in 0 .. Words - 1
        BY <1>1, <1>2
    <2>2. Sum(p, size) = p + size
        <3> DEFINE n == p + size
        <3>1. n \in 0 .. Words - 1
            BY <2>1
        <3> HIDE DEF n
        <3>2. n % Words = n
            BY <1>1, <3>1
        <3> QED
            BY <3>2 DEF Sum, n
    <2> QED
        BY <1>1, <1>2, <2>1, <2>2
<1>3. CASE ~(p <= q)
    BY <1>1, <1>3
<1> QED
    BY <1>2, <1>3

(* Every pixel of a box has an address in the file. *)
LEMMA Addresses ==
    ASSUME NEW w \in Nat, NEW hh \in Nat, NEW column \in 0 .. w - 1, NEW line \in 0 .. hh - 1
    PROVE  line * w + column \in 0 .. w * hh - 1
<1>1. line + 1 <= hh /\ line \in Nat /\ column \in Nat
    OBVIOUS
<1>2. (line + 1) * w <= hh * w
    BY <1>1
<1>3. (line + 1) * w = line * w + w /\ hh * w = w * hh /\ line * w \in Nat /\ w * hh \in Nat
    BY <1>1
<1> QED
    BY <1>1, <1>2, <1>3

LEMMA ThingsAreThere ==
    ASSUME NEW o \in Thing, VgaTypes, scene \in Scenes, h < HVisible, v < VVisible,
           word[o] = Ram(File[Kind(o)], PixelAddress(o))
    PROVE  /\ IsThing(o) <=> Lies(o) /\ Pixel(o) # Transparent
           /\ IsThing(o) => word[o] = Pixel(o)
<1> DEFINE k == Kind(o)
           a == PixelAddress(o)
<1>1. /\ scene.at[o].x \in 0 .. Words - 1 /\ scene.at[o].y \in 0 .. Words - 1
    BY DEF Scenes
<1>2. h \in Nat /\ v \in Nat /\ HVisible \in Nat /\ VVisible \in Nat
    BY Format DEF VgaTypes
<1>3. /\ scene.at[o].x <= h /\ h < Sum(scene.at[o].x, Size[k].w)
          <=> Column(o) \in 0 .. Size[k].w - 1
    BY <1>1, <1>2, Sizes, Boxes DEF Column
<1>4. /\ scene.at[o].y <= v /\ v < Sum(scene.at[o].y, Size[k].h)
          <=> Line(o) \in 0 .. Size[k].h - 1
    BY <1>1, <1>2, Sizes, Boxes DEF Line
<1>5. InBox(o) <=> Column(o) \in 0 .. Size[k].w - 1 /\ Line(o) \in 0 .. Size[k].h - 1
    <2>1. InBox(o) <=> /\ scene.at[o].x <= h /\ h < Sum(scene.at[o].x, Size[k].w)
                       /\ scene.at[o].y <= v /\ v < Sum(scene.at[o].y, Size[k].h)
        BY <1>1, <1>2 DEF InBox
    <2> QED
        BY <1>3, <1>4, <2>1
<1>6. ASSUME Addressed(o) PROVE word[o] = Pixel(o)
    <2>1. Column(o) \in 0 .. Size[k].w - 1 /\ Line(o) \in 0 .. Size[k].h - 1
        BY <1>5, <1>6 DEF Addressed
    <2>2. Size[k].w \in Nat /\ Size[k].h \in Nat
        BY Sizes
    <2>3. Line(o) * Size[k].w + Column(o) \in 0 .. Size[k].w * Size[k].h - 1
        BY <2>1, <2>2, Addresses
    <2>4. a = Line(o) * Size[k].w + Column(o)
        <3>1. PICK n \in Int : n = Line(o) * Size[k].w
            BY <2>1, <2>2
        <3>2. a = n + h - scene.at[o].x
            BY <1>6, <3>1 DEF PixelAddress, Line
        <3>3. Column(o) = h - scene.at[o].x
            BY DEF Column
        <3>4. a = n + Column(o)
            BY <1>1, <1>2, <3>1, <3>2, <3>3
        <3> QED
            BY <3>1, <3>4
    <2>5. a \in DOMAIN File[k]
        BY <2>3, <2>4, Sizes
    <2>6. word[o] = File[k][a]
        BY <2>5 DEF Ram
    <2> QED
        BY <2>4, <2>6 DEF Pixel
<1>7. Lies(o) <=> Addressed(o) /\ (o = "laser" => scene.space)
    BY <1>5 DEF Lies, Addressed, Shows
<1> QED
    BY <1>6, <1>7 DEF IsThing

(* The rows of the box that the address reads from the first rows again    *)
(* are dark there.                                                         *)
LEMMA LogosStand ==
    ASSUME NEW l \in {"galaga", "press_start", "boss_logo", "gameover", "you_win"}, VgaTypes
    PROVE  IsLogo(l) <=> Stands(l)
<1> DEFINE line == v - Logo[l].top
           column == h - Logo[l].left
           rows == Logo[l].rows
           deep == Logo[l].bottom - Logo[l].top
           wide == Logo[l].right - Logo[l].left
           lit == Logo[l].lit
<1>1. /\ line \in Int /\ column \in Int /\ rows \in Nat \ {0} /\ deep \in Int /\ wide \in Int
      /\ LogoBox(l) <=> line \in 0 .. deep /\ column \in 0 .. wide
    BY LogoAssumption, Format DEF LogosFit, VgaTypes, LogoBox
<1>2. /\ lit \subseteq (0 .. rows - 1) \X (0 .. wide)
      /\ \A bit \in lit : bit[1] <= deep
      /\ \A r \in rows .. deep : \A c \in 0 .. wide : <<r % rows, c>> \notin lit
    BY LogoAssumption DEF LogosFit
<1>3. IsLogo(l) <=> LogoBox(l) /\ <<line % rows, column>> \in lit
    BY DEF IsLogo, LogoBit
<1>4. Stands(l) <=> <<line, column>> \in lit
    BY DEF Stands
<1> HIDE DEF line, column, rows, deep, wide, lit
<1>5. ASSUME line \in 0 .. rows - 1 PROVE line % rows = line
    BY <1>1, <1>5
<1>6. ASSUME IsLogo(l) PROVE Stands(l)
    <2>1. line \in 0 .. deep /\ column \in 0 .. wide /\ <<line % rows, column>> \in lit
        BY <1>1, <1>3, <1>6
    <2>2. line \notin rows .. deep
        BY <1>2, <2>1
    <2>3. line \in 0 .. rows - 1
        BY <1>1, <2>1, <2>2
    <2> QED
        BY <1>4, <1>5, <2>1, <2>3
<1>7. ASSUME Stands(l) PROVE IsLogo(l)
    <2>1. <<line, column>> \in lit
        BY <1>4, <1>7
    <2>2. line \in 0 .. rows - 1 /\ column \in 0 .. wide
        BY <1>2, <2>1
    <2>3. line <= deep
        BY <1>2, <2>1
    <2>4. LogoBox(l)
        BY <1>1, <2>2, <2>3
    <2> QED
        BY <1>3, <1>5, <2>1, <2>2, <2>4
<1> QED
    BY <1>6, <1>7

LEMMA LayersAreKnown ==
    ASSUME scene.screen \in Screen
    PROVE  Layers \in Seq(Thing \cup {"galaga", "press_start", "boss_logo", "gameover", "you_win"})
<1> DEFINE Known == Thing \cup {"galaga", "press_start", "boss_logo", "gameover", "you_win"}
<1>1. {"ship", "laser", "boss"} \cup Foe \subseteq Known
    BY DEF Thing
<1>2. PlayLayers \in Seq(Known)
    <2> HIDE DEF Known
    <2>1. <<"ship", "laser">> \in Seq(Known)
        BY <1>1
    <2>2. Foes \in Seq(Foe) /\ Foe \subseteq Known
        BY <1>1, PictureAssumption DEF ImagesFit
    <2>3. Foes \in Seq(Known)
        BY <2>2
    <2> QED
        BY <2>1, <2>3 DEF PlayLayers
<1>3. /\ StartLayers \in Seq(Known) /\ BossLogoLayers \in Seq(Known)
      /\ BossFightLayers \in Seq(Known)
      /\ GameoverLayers \in Seq(Known) /\ WinLayers \in Seq(Known)
    BY <1>1 DEF StartLayers, BossLogoLayers, BossFightLayers, GameoverLayers, WinLayers
<1> HIDE DEF Known
<1>4. Layers \in Seq(Known)
    BY <1>2, <1>3 DEF Layers, Screen
<1> QED
    BY <1>4 DEF Known

LEMMA BeamIsOnTheScreen ==
    ASSUME VgaTypes, BlankFollowsBeam, ClkEdge
    PROVE  BlankFollowsBeam'
<1>1. CASE vclk /\ reset
    BY <1>1, Format DEF ClkEdge, VgaClock, SyncReset, BlankFollowsBeam
<1>2. CASE vclk /\ ~reset
    BY <1>2 DEF ClkEdge, VgaClock, Scan, BlankFollowsBeam
<1>3. CASE ~vclk
    BY <1>3 DEF ClkEdge, VgaClock, sync, BlankFollowsBeam
<1> QED
    BY <1>1, <1>2, <1>3 DEF VgaTypes

LEMMA PictureStep ==
    ASSUME PictureInv, DrawEdge
    PROVE  PictureInv'
<1> USE DEF PictureInv
<1>1. ClkEdge /\ ReadMemories /\ SceneStep
    BY DEF DrawEdge
<1>2. VgaTypes' /\ BlankFollowsBeam' /\ scene' \in Scenes
    BY <1>1, TypesStep, BeamIsOnTheScreen DEF SceneStep
<1>3. WordsAreRead'
    <2> SUFFICES ASSUME Settled', NEW o \in Drawn'
                 PROVE  (word[o] = Ram(File[Kind(o)], PixelAddress(o)))'
        BY DEF WordsAreRead
    <2>0. o \in Thing /\ o \notin scene'.gone
        BY DEF Drawn, Shows, Thing, Foe
    <2>1. ~vclk /\ h' = h /\ v' = v
        BY <1>1 DEF Settled, ClkEdge, VgaClock, sync, VgaTypes
    <2>2. ~reset /\ ~rising /\ since # 0
        <3>1. ~reset
            BY <1>1 DEF ClkEdge, Count, Settled
        <3>2. since' = IF rising THEN 0 ELSE IF since < MinGap THEN since + 1 ELSE since
            BY <1>1, <3>1 DEF ClkEdge, Count
        <3>3. since' > 1 /\ since \in Nat /\ MinGap \in Nat
            BY Format DEF Settled, VgaTypes
        <3> QED
            BY <3>1, <3>2, <3>3
    <2>3. scene'.at[o] = scene.at[o] /\ o \notin scene.gone
        BY <1>1, <2>2 DEF SceneStep
    <2>4. PixelAddress(o)' = PixelAddress(o)
        BY <2>0, <2>1, <2>3 DEF PixelAddress, Addressed, InBox, Kind, Sum, Foe
    <2>5. word'[o] = Ram(File[Kind(o)], PixelAddress(o))
        BY <1>1, <2>0 DEF ReadMemories
    <2> QED
        BY <2>4, <2>5 DEF Ram, Kind, Foe
<1> QED
    BY <1>1, <1>2, <1>3

LEMMA PictureSafe == DrawSpec => []PictureInv
<1>1. VgaInit /\ DrawInit => PictureInv
    <2> SUFFICES ASSUME VgaInit, DrawInit PROVE PictureInv
        OBVIOUS
    <2>1. VgaTypes
        <3>1. 0 \in 0 .. HTotal - 1 /\ 0 \in 0 .. VTotal - 1 /\ MinGap \in 0 .. MinGap
            BY Format
        <3> QED
            BY <3>1 DEF VgaInit, VgaTypes
    <2>2. BlankFollowsBeam /\ WordsAreRead
        BY DEF VgaInit, BlankFollowsBeam, WordsAreRead, Settled
    <2> QED
        BY <2>1, <2>2 DEF PictureInv, DrawInit
<1>2. PictureInv /\ [DrawEdge]_<<vvars, drawvars>> => PictureInv'
    <2> SUFFICES ASSUME PictureInv, UNCHANGED <<vvars, drawvars>> PROVE PictureInv'
        BY PictureStep
    <2>1. Drawn' = Drawn /\ \A o : PixelAddress(o)' = PixelAddress(o)
        BY DEF vvars, sync, drawvars, Drawn, Shows, Layers, PixelAddress, Addressed, InBox, Kind, Sum
    <2>2. WordsAreRead'
        BY <2>1 DEF PictureInv, vvars, sync, drawvars, WordsAreRead, Settled, Ram, Kind
    <2> QED
        BY <2>2 DEF PictureInv, vvars, sync, drawvars, VgaTypes, BlankFollowsBeam
<1> QED
    BY <1>1, <1>2, PTL DEF DrawSpec

(* Every pixel of the screen shows what lies there.                        *)
THEOREM PixelsAreTrue == DrawSpec => []PictureIsTrue
<1>1. PictureInv => PictureIsTrue
    <2> SUFFICES ASSUME PictureInv, Settled PROVE color_data = TrueColour
        BY DEF PictureIsTrue, PictureInv, Settled
    <2>1. h < HVisible /\ v < VVisible /\ VgaTypes /\ scene \in Scenes
        BY DEF PictureInv, BlankFollowsBeam, Settled
    <2>2. ASSUME NEW i \in DOMAIN Layers, NEW o \in Thing, Layers[i] = o
          PROVE  /\ Is(o) <=> Belongs(o)
                 /\ Belongs(o) => word[o] = Pixel(o) /\ Lies(o)
        <3>1. CASE Shows(o)
            <4>1. word[o] = Ram(File[Kind(o)], PixelAddress(o))
                BY <2>2, <3>1 DEF PictureInv, WordsAreRead, Drawn
            <4> QED
                BY <2>1, <4>1, ThingsAreThere DEF Is, Belongs
        <3>2. CASE ~Shows(o)
            BY <3>2 DEF Is, Belongs, IsThing, Addressed, Lies, Shows
        <3> QED
            BY <3>1, <3>2
    <2> DEFINE Logos == {"galaga", "press_start", "boss_logo", "gameover", "you_win"}
    <2>3. ASSUME NEW l \in Logos PROVE l \notin Thing => (Is(l) <=> Belongs(l))
        BY <2>1, <2>3, LogosStand DEF Is, Belongs
    <2>4. \A x : Is(x) \in BOOLEAN /\ Belongs(x) \in BOOLEAN
        <3>1. scene.space \in BOOLEAN
            BY <2>1 DEF Scenes
        <3>2. \A x : IsThing(x) \in BOOLEAN /\ Lies(x) \in BOOLEAN
            BY <3>1 DEF IsThing, Lies
        <3>3. \A x : IsLogo(x) \in BOOLEAN /\ Stands(x) \in BOOLEAN
            BY DEF IsLogo, Stands
        <3>4. \A x : (Lies(x) /\ Pixel(x) # Transparent) \in BOOLEAN
            OBVIOUS
        <3> QED
            BY <3>2, <3>3, <3>4 DEF Is, Belongs
    <2>5. PICK n \in Nat : DOMAIN Layers = 1 .. n /\ \A i \in 1 .. n : Layers[i] \in Thing \cup Logos
        BY <2>1, LayersAreKnown DEF Scenes
    <2> HIDE DEF Logos
    <2> DEFINE claims == [i \in 1 .. n |-> Is(Layers[i])]
               truth == [i \in 1 .. n |-> Belongs(Layers[i])]
               colours == [i \in 1 .. n |-> IF Layers[i] \in Thing THEN Rgb(word[Layers[i]]) ELSE White]
               others == [i \in 1 .. n |-> IF Layers[i] \in Thing /\ Lies(Layers[i])
                                           THEN Rgb(Pixel(Layers[i])) ELSE White]
    <2>6. \A i \in 1 .. n : Is(Layers[i]) = Belongs(Layers[i])
        BY <2>2, <2>3, <2>4, <2>5
    <2>7. claims = truth /\ claims \in [1 .. n -> BOOLEAN]
        BY <2>4, <2>6
    <2>8. \A i \in 1 .. n : claims[i] => colours[i] = others[i]
        <3> SUFFICES ASSUME NEW i \in 1 .. n, claims[i], Layers[i] \in Thing
                     PROVE  word[Layers[i]] = Pixel(Layers[i]) /\ Lies(Layers[i])
            OBVIOUS
        <3> QED
            BY <2>2, <2>5, <2>6
    <2>9. color_data = First(claims, colours) /\ TrueColour = First(truth, others)
        BY <2>5 DEF color_data, TrueColour
    <2> HIDE DEF claims, truth, colours, others
    <2>10. First(claims, colours) = First(claims, others)
        BY <2>7, <2>8, FirstDecides
    <2> QED
        BY <2>7, <2>9, <2>10
<1> QED
    BY <1>1, PictureSafe, PTL
=============================================================================
