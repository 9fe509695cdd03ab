------------------------------ MODULE Lab8Proof -------------------------------
(***************************************************************************)
(* The whole board, for every board, formation, screen format and image    *)
(* that satisfy the assumptions: what the proofs of the game take for      *)
(* granted of the sync generator, and those of the picture of the game,    *)
(* each keeps for the other.                                               *)
(***************************************************************************)
EXTENDS Lab8, GameProof

(* The theorems on generator and picture, about the same variables as      *)
(* Drawing.                                                                *)
Shown == INSTANCE VgaProof WITH scene <- Scene, since <- gap, Words <- W

LEMMA AllFits == Shown!VgaFits /\ Shown!ImagesFit /\ Shown!LogosFit
BY Lab8Assumption DEF Shown!VgaFits, Drawing!VgaFits, Shown!ImagesFit, Drawing!ImagesFit,
   Shown!LogosFit, Drawing!LogosFit, Shown!Thing, Drawing!Thing, Shown!Foe, Drawing!Foe

LEMMA SameInit == Lab8Init => Shown!VgaInit /\ word = [o \in Things |-> Shown!Black]
BY DEF Lab8Init, Shown!VgaInit, Drawing!VgaInit, Shown!Black, Drawing!Black

LEMMA SameEdge == Drawing!ClkEdge <=> Shown!ClkEdge
BY DEF Shown!ClkEdge, Drawing!ClkEdge, Shown!VgaClock, Drawing!VgaClock, Shown!Detect, Drawing!Detect,
   Shown!Count, Drawing!Count, Shown!SyncReset, Drawing!SyncReset, Shown!Scan, Drawing!Scan,
   Shown!InSync, Drawing!InSync, Shown!NextPixel, Drawing!NextPixel, Shown!NextLine,
   Drawing!NextLine, Shown!sync, Drawing!sync

LEMMA SameReading == Drawing!ReadMemories <=> Shown!ReadMemories
BY DEF Shown!ReadMemories, Drawing!ReadMemories, Shown!Ram, Drawing!Ram, Shown!Kind, Drawing!Kind,
   Shown!PixelAddress, Drawing!PixelAddress, Shown!Addressed, Drawing!Addressed, Shown!InBox,
   Drawing!InBox, Shown!Sum, Drawing!Sum, Shown!Thing, Drawing!Thing, Shown!Foe, Drawing!Foe,
   Shown!Black, Drawing!Black

LEMMA SameStutter == UNCHANGED lab8vars => UNCHANGED <<Shown!vvars, Shown!drawvars>>
BY DEF lab8vars, cvars, vars, beamvars, Shown!vvars, Shown!sync, Shown!drawvars, Scene, Position

-----------------------------------------------------------------------------
(* The sync generator runs on, whatever the game does. *)
LEMMA GeneratorInvariant == Lab8Spec => []Shown!VgaInv
<1>1. [Lab8Edge]_lab8vars => [Shown!ClkEdge]_Shown!vvars
    BY SameEdge, SameStutter DEF Lab8Edge
<1> QED
    BY <1>1, SameInit, AllFits, Shown!VgaSafe, PTL DEF Lab8Spec

(* An edge without a reset is one of the game: a tick only comes when the  *)
(* clock of the game is ready for it.                                      *)
LEMMA EdgeIsClock ==
    ASSUME Shown!VgaInv, Lab8Edge, ~reset
    PROVE  rising \in BOOLEAN /\ Clock(rising, keycode)
<1>1. /\ gap' = IF rising THEN 0 ELSE IF gap < MinGap THEN gap + 1 ELSE gap
      /\ Registers(rising, keycode)
    BY DEF Lab8Edge, Drawing!ClkEdge, Drawing!Count
<1>2. rising \in BOOLEAN
    BY DEF Shown!VgaInv, Shown!VgaTypes
<1>3. rising => gap = MinGap
    BY AllFits, Shown!TickIsFree
<1> QED
    BY <1>1, <1>2, <1>3 DEF Clock, GapClock

LEMMA EdgeIsNext ==
    ASSUME Shown!VgaInv, Lab8Edge, keycode \in Keys
    PROVE  Next /\ keycode' \in Keys
<1>1. CASE reset
    BY <1>1 DEF Lab8Edge, ConsoleReset, Next
<1>2. CASE ~reset
    <2>1. Frame(keycode) \/ Cycle(keycode)
        BY <1>2, EdgeIsClock DEF Frame, Cycle
    <2>2. keycode' \in Keys
        BY <1>2 DEF Lab8Edge, Keep, Take
    <2> QED
        BY <2>1, <2>2 DEF Next
<1> QED
    BY <1>1, <1>2

(* The board implements the game of GameController, and with it everything *)
(* that is proved of the game.                                             *)
THEOREM TicksKeepTheirDistance == Lab8Spec => TicksAreReal
<1> DEFINE PortOK == keycode \in Keys
<1>1. Lab8Init => Init /\ PortOK
    BY DEF Lab8Init, ConsoleInit, Keys
<1>2. Shown!VgaInv /\ PortOK /\ [Lab8Edge]_lab8vars => [Next]_vars /\ PortOK'
    BY EdgeIsNext DEF lab8vars, cvars
<1> QED
    BY <1>1, <1>2, GeneratorInvariant, PTL DEF Lab8Spec, TicksAreReal, Spec

(* The board implements Console too: every edge is one at which the port   *)
(* keeps its code, one at which it takes another, or a reset.  So the      *)
(* screens of the board turn as they do there.                             *)
THEOREM ThePortIsReal == Lab8Spec => ConsoleInit /\ [][ConsoleNext]_cvars
<1>1. Lab8Init => ConsoleInit
    BY DEF Lab8Init
<1>2. Shown!VgaInv /\ [Lab8Edge]_lab8vars => [ConsoleNext]_cvars
    <2> SUFFICES ASSUME Shown!VgaInv, Lab8Edge PROVE ConsoleNext
        BY DEF lab8vars
    <2>1. CASE reset
        BY <2>1 DEF Lab8Edge, ConsoleNext
    <2>2. CASE ~reset
        <3>1. rising \in BOOLEAN /\ Clock(rising, keycode) /\ (Keep \/ Take)
            BY <2>2, EdgeIsClock DEF Lab8Edge
        <3>2. HoldAt(rising) \/ WriteAt(rising)
            BY <3>1 DEF HoldAt, WriteAt
        <3> QED
            BY <3>1, <3>2 DEF ConsoleNext, Hold, Write
    <2> QED
        BY <2>1, <2>2
<1> QED
    BY <1>1, <1>2, GeneratorInvariant, PTL DEF Lab8Spec

-----------------------------------------------------------------------------
LEMMA Names ==
    /\ Shown!Thing = Things /\ Shown!Foe = Enemy
    /\ "ship" \notin Enemy /\ "laser" \notin Enemy /\ "boss" \notin Enemy
BY Lab8Assumption DEF Shown!Thing, Shown!Foe, Things

SceneOK == Scene \in Shown!Scenes

LEMMA SceneType == TypeOK => SceneOK
<1> SUFFICES ASSUME TypeOK PROVE Scene \in Shown!Scenes
    BY DEF SceneOK
<1> DEFINE Point == [x : 0 .. W - 1, y : 0 .. W - 1]
<1>1. ShipY \in 0 .. W - 1
    BY WordAssumption, PlayfieldAssumption DEF ShipY, Word
<1>2. ASSUME NEW o \in Things PROVE Position(o) \in Point
    BY <1>1, <1>2, Names DEF TypeOK, ShipTypeOK, Position, Things, Body, Word
<1>3. [o \in Things |-> Position(o)] \in [Things -> Point]
    BY <1>2
<1>4. {e \in Enemy : hit[e]} \cup (IF bossHit THEN {"boss"} ELSE {}) \in SUBSET Things
    BY DEF Things
<1>5. state \in Shown!Screen /\ laser.space \in BOOLEAN
    BY DEF TypeOK, State, Shown!Screen
<1> HIDE DEF Point
<1> QED
    BY <1>3, <1>4, <1>5, Names DEF Scene, Shown!Scenes, Point

(* Which things are drawn on which screen. *)
DrawnWhere ==
    \A o \in Shown!Drawn :
        /\ o \in Things /\ o \notin Scene.gone /\ (o = "laser" => laser.space)
        /\ o = "laser" => play \/ boss_fight
        /\ o = "boss" => boss_fight
        /\ o \in Enemy => play

LEMMA DrawnOn == TypeOK => DrawnWhere
<1> SUFFICES ASSUME TypeOK, NEW o \in Shown!Drawn
             PROVE  /\ o \in Things /\ o \notin Scene.gone /\ (o = "laser" => laser.space)
                    /\ o = "laser" => play \/ boss_fight
                    /\ o = "boss" => boss_fight
                    /\ o \in Enemy => play
    BY DEF DrawnWhere
<1>1. o \in Things /\ o \notin Scene.gone /\ (o = "laser" => Scene.space)
    BY Names DEF Shown!Drawn, Shown!Shows
<1>2. PICK i \in DOMAIN Shown!Layers : Shown!Layers[i] = o
    BY DEF Shown!Drawn
<1>3. Scene.screen = state /\ Scene.space = laser.space /\ state \in State
    BY DEF Scene, TypeOK
<1>4. o \notin {"galaga", "press_start", "boss_logo", "gameover", "you_win"}
    BY <1>1, Lab8Assumption DEF Things
<1>5. CASE o = "ship"
    BY <1>1, <1>5, Names
<1>6. CASE o # "ship"
    <2>1. state \notin {"START", "BOSS_LOGO", "GAMEOVER", "WIN"}
        BY <1>2, <1>3, <1>4, <1>6 DEF Shown!Layers, Shown!StartLayers, Shown!BossLogoLayers,
                                      Shown!GameoverLayers, Shown!WinLayers
    <2>2. play \/ boss_fight
        BY <1>3, <2>1 DEF State, play, boss_fight
    <2>3. boss_fight => o \in {"boss", "laser"}
        BY <1>2, <1>3, <1>6 DEF boss_fight, Shown!Layers, Shown!BossFightLayers
    <2>4. play => o # "boss"
        <3> SUFFICES ASSUME play PROVE o # "boss"
            OBVIOUS
        <3>1. Shown!Layers = <<"ship", "laser">> \o Foes
            BY <1>3 DEF play, Shown!Layers, Shown!PlayLayers
        <3>2. Foes \in Seq(Enemy)
            BY AllFits, Names DEF Shown!ImagesFit
        <3>3. CASE i \in 1 .. 2
            BY <1>2, <3>1, <3>2, <3>3
        <3>4. CASE i \notin 1 .. 2
            <4>1. o \in Enemy
                BY <1>2, <3>1, <3>2, <3>4
            <4> QED
                BY <4>1, Names
        <3> QED
            BY <3>3, <3>4
    <2> QED
        BY <1>1, <1>3, <2>2, <2>3, <2>4, Names
<1> QED
    BY <1>5, <1>6

(* What stands still in the game stands still in the picture. *)
LEMMA SceneStands ==
    ASSUME TypeOK, TypeOK', DrawnWhere', StandsStill, NEW o \in Shown!Drawn'
    PROVE  Scene'.at[o] = Scene.at[o] /\ o \notin Scene.gone
<1>1. /\ o \in Things /\ o \notin Scene'.gone /\ (o = "laser" => laser'.space)
      /\ o = "laser" => play' \/ boss_fight'
      /\ o = "boss" => boss_fight'
      /\ o \in Enemy => play'
    BY DEF DrawnWhere
<1>2. Scene'.at[o] = Position(o)' /\ Scene.at[o] = Position(o)
    BY <1>1 DEF Scene, Things
<1>3. /\ Scene.gone = {e \in Enemy : hit[e]} \cup (IF bossHit THEN {"boss"} ELSE {})
      /\ Scene'.gone = {e \in Enemy : hit'[e]} \cup (IF bossHit' THEN {"boss"} ELSE {})
    BY DEF Scene
<1>4. CASE o = "ship"
    BY <1>2, <1>3, <1>4, Names DEF StandsStill, Position, ShipY
<1>5. CASE o = "laser"
    <2>1. laser' = laser
        BY <1>1, <1>5 DEF StandsStill
    <2> QED
        BY <1>2, <1>3, <1>5, <2>1, Names DEF Position
<1>6. CASE o = "boss"
    <2>1. ~bossHit' /\ ~bossHit /\ boss' = boss
        BY <1>1, <1>3, <1>6 DEF StandsStill, TypeOK
    <2> QED
        BY <1>2, <1>3, <1>6, <2>1, Names DEF Position
<1>7. CASE o \in Enemy
    <2>1. ~hit'[o] /\ ~hit[o] /\ enemy'[o] = enemy[o]
        BY <1>1, <1>3, <1>7 DEF StandsStill, TypeOK
    <2> QED
        BY <1>2, <1>3, <1>7, <2>1, Names DEF Position
<1> QED
    BY <1>1, <1>4, <1>5, <1>6, <1>7 DEF Things

(* All that is known of the game when nothing moves in it. *)
Rest == TypeOK /\ RoundInv /\ QuietInv /\ AllHome /\ CalmInv

LEMMA EdgeDraws ==
    ASSUME Rest, TypeOK', SceneOK', DrawnWhere', Shown!VgaInv, keycode \in Keys, Lab8Edge
    PROVE  Shown!DrawEdge
<1>1. Shown!ClkEdge /\ Shown!ReadMemories
    BY SameEdge, SameReading DEF Lab8Edge
<1>2. Scene' \in Shown!Scenes
    BY DEF SceneOK
<1>3. ASSUME ~reset, ~rising, gap # 0
      PROVE  \A o \in Shown!Drawn' : Scene'.at[o] = Scene.at[o] /\ o \notin Scene.gone
    <2>1. Clock(FALSE, keycode)
        BY <1>3, EdgeIsClock
    <2>2. gap >= 1
        BY <1>3, GapAssumption DEF Rest, TypeOK
    <2>3. StandsStill
        BY <2>1, <2>2, CalmStands DEF Rest
    <2> QED
        BY <2>3, SceneStands DEF Rest
<1> QED
    BY <1>1, <1>2, <1>3 DEF Shown!DrawEdge, Shown!SceneStep

(* The game is a scene as Picture knows it: between the ticks it moves     *)
(* nothing that is drawn.                                                  *)
LEMMA BoardDraws == Lab8Spec => Shown!DrawSpec
<1> DEFINE PortOK == keycode \in Keys
<1>1. Lab8Init => PortOK
    BY DEF Lab8Init, ConsoleInit, Keys
<1>2. Shown!VgaInv /\ PortOK /\ [Lab8Edge]_lab8vars => PortOK'
    BY EdgeIsNext DEF lab8vars, cvars
<1>3. Lab8Spec => []PortOK
    BY <1>1, <1>2, GeneratorInvariant, PTL DEF Lab8Spec
<1>4. Lab8Spec => []Rest
    <2>1. TypeOK /\ RoundInv /\ QuietInv /\ FormationInv /\ CalmInv => Rest
        BY DEF Rest, FormationInv
    <2> QED
        BY <2>1, TicksKeepTheirDistance, TypeCorrect, RoundInvariant, QuietInvariant,
           FormationInvariant, CalmInvariant, PTL DEF TicksAreReal
<1>5. Rest => TypeOK /\ SceneOK /\ DrawnWhere
    BY SceneType, DrawnOn DEF Rest
<1>6. Lab8Init /\ SceneOK => Shown!VgaInit /\ Shown!DrawInit
    BY SameInit, Names DEF SceneOK, Shown!DrawInit
<1>7. /\ Rest /\ (TypeOK /\ SceneOK /\ DrawnWhere)' /\ Shown!VgaInv /\ PortOK
      /\ [Lab8Edge]_lab8vars
      => [Shown!DrawEdge]_<<Shown!vvars, Shown!drawvars>>
    BY EdgeDraws, SameStutter
<1> QED
    BY <1>3, <1>4, <1>5, <1>6, <1>7, GeneratorInvariant, PTL DEF Lab8Spec, Shown!DrawSpec

(* The two instances speak of one picture: word for word the same. *)
LEMMA SamePicture == Drawing!PictureIsTrue <=> Shown!PictureIsTrue
BY DEF Drawing!PictureIsTrue, Shown!PictureIsTrue, Drawing!BlankFollowsBeam,
   Shown!BlankFollowsBeam, Drawing!color_data, Shown!color_data, Drawing!TrueColour,
   Shown!TrueColour, Drawing!Overhang, Shown!Overhang, Drawing!First, Shown!First, Drawing!Is,
   Shown!Is, Drawing!Belongs, Shown!Belongs, Drawing!Layers, Shown!Layers, Drawing!StartLayers,
   Shown!StartLayers, Drawing!PlayLayers, Shown!PlayLayers, Drawing!BossLogoLayers,
   Shown!BossLogoLayers, Drawing!BossFightLayers, Shown!BossFightLayers, Drawing!GameoverLayers,
   Shown!GameoverLayers, Drawing!WinLayers, Shown!WinLayers, Drawing!Thing, Shown!Thing,
   Drawing!Foe, Shown!Foe, Drawing!Rgb, Shown!Rgb, Drawing!White, Shown!White, Drawing!Background,
   Shown!Background, Drawing!Lies, Shown!Lies, Drawing!Pixel, Shown!Pixel, Drawing!Transparent,
   Shown!Transparent, Drawing!Stands, Shown!Stands, Drawing!Column, Shown!Column, Drawing!Line,
   Shown!Line, Drawing!Kind, Shown!Kind, Drawing!Shows, Shown!Shows, Drawing!IsThing,
   Shown!IsThing, Drawing!Addressed, Shown!Addressed, Drawing!InBox, Shown!InBox, Drawing!Sum,
   Shown!Sum, Drawing!IsLogo, Shown!IsLogo, Drawing!LogoBox, Shown!LogoBox, Drawing!LogoBit,
   Shown!LogoBit

(* What the beam shows is the game: no ship, shot or hit is torn by a move *)
(* and no pixel is another one's.                                          *)
THEOREM TheGameIsSeen == Lab8Spec => []PictureIsOfTheGame
BY BoardDraws, AllFits, Shown!PixelsAreTrue, SamePicture, PTL DEF PictureIsOfTheGame
=============================================================================
