------------------------------- MODULE Picture --------------------------------
(***************************************************************************)
(* How the board is drawn: every ship, the laser and the boss look whether *)
(* the beam is in their box and read their colour from a memory, one edge  *)
(* of Clk later; the logos read a row of bits at once; game_controller.sv  *)
(* takes the first that claims the pixel.  The screen takes a colour at    *)
(* every edge of VGA_CLK, the edge at which the beam goes on.              *)
(***************************************************************************)
EXTENDS VgaController, Integers, Sequences

CONSTANTS
    Words,    \* coordinates are words below it: 1024
    Foes,     \* the enemy ships in the order of game_controller.sv
    Size,     \* width and height of "ship", "laser", "enemy" and "boss": 40x40, 20x49, 30x30
    File,     \* image.txt, laser.txt and bad-guy.txt, twice: words by address, row after row
    Logo      \* the logos: box, how many rows their address counts, bits driven, bits lit

Foe == {Foes[i] : i \in DOMAIN Foes}
Thing == {"ship", "laser", "boss"} \cup Foe
Screen == {"START", "PLAY", "BOSS_LOGO", "BOSS_FIGHT", "GAMEOVER", "WIN"}

ImagesFit ==
    /\ HTotal < Words /\ VTotal < Words
    /\ \A k \in DOMAIN Size : DOMAIN File[k] = 0 .. Size[k].w * Size[k].h - 1
    /\ {"ship", "laser", "enemy", "boss"} \subseteq DOMAIN Size
    \* what is cut off by the wrap lies beyond the visible screen
    /\ Words \in Nat
    /\ \A k \in DOMAIN Size :
           /\ Size[k].w \in Nat \ {0} /\ HVisible + Size[k].w <= Words
           /\ Size[k].h \in Nat \ {0} /\ VVisible + Size[k].h <= Words
    /\ Foes \in Seq(Foe)

(* The lit bits of a logo are in the box, and the rows of the box that are *)
(* read from the first rows again are dark: the first rows are, in the     *)
(* logos whose address wraps.                                              *)
LogosFit ==
    \A l \in {"galaga", "press_start", "boss_logo", "gameover", "you_win"} :
        /\ Logo[l].left \in Nat /\ Logo[l].top \in Nat /\ Logo[l].rows \in Nat \ {0}
        /\ Logo[l].right \in Nat /\ Logo[l].bottom \in Nat
        /\ Logo[l].lit \subseteq (0 .. Logo[l].rows - 1) \X (0 .. Logo[l].right - Logo[l].left)
        /\ \A bit \in Logo[l].lit : bit[1] <= Logo[l].bottom - Logo[l].top
        /\ \A r \in Logo[l].rows .. Logo[l].bottom - Logo[l].top :
               \A c \in 0 .. Logo[l].right - Logo[l].left :
                   <<r % Logo[l].rows, c>> \notin Logo[l].lit

ASSUME PictureAssumption == ImagesFit
ASSUME LogoAssumption == LogosFit

VARIABLES
    scene,  \* the game: screen, where each thing is, the hit ones, space_pressed
    word    \* the output register of every memory

drawvars == <<scene, word>>

(* Colours as they are in memory; a pixel of a sprite's background is not  *)
(* drawn.                                                                  *)
Transparent == <<0, 32, 0>>
Black == <<0, 0, 0>>

Kind(o) == IF o \in Foe THEN "enemy" ELSE o
Sum(a, b) == (a + b) % Words

InBox(o) ==
    /\ h >= scene.at[o].x /\ h < Sum(scene.at[o].x, Size[Kind(o)].w)
    /\ v >= scene.at[o].y /\ v < Sum(scene.at[o].y, Size[Kind(o)].h)

(* Enemies and boss are not drawn once they are hit. *)
Addressed(o) == InBox(o) /\ o \notin scene.gone

(* Mutant of PixelAddress: rows as long as columns. *)
PixelAddress_tall(o) ==
    IF Addressed(o) THEN (v - scene.at[o].y) * Size[Kind(o)].h + h - scene.at[o].x ELSE 0

PixelAddress(o) ==
    IF Addressed(o) THEN (v - scene.at[o].y) * Size[Kind(o)].w + h - scene.at[o].x ELSE 0

(* ram.sv: an address behind the file reads black. *)
Ram(file, a) == IF a \in DOMAIN file THEN file[a] ELSE Black

ReadMemories == word' = [o \in Thing |-> Ram(File[Kind(o)], PixelAddress(o))]

IsThing(o) == Addressed(o) /\ word[o] # Transparent /\ (o = "laser" => scene.space)

(* galaga_logo.sv.  Every box is a row and a column larger than the bits   *)
(* in sprite_rom.sv: the row counter wraps, and a bit that is not there    *)
(* may read as anything.                                                   *)
LogoBox(l) == h \in Logo[l].left .. Logo[l].right /\ v \in Logo[l].top .. Logo[l].bottom
LogoBit(l) == <<(v - Logo[l].top) % Logo[l].rows, h - Logo[l].left>>
Overhang(l) == LogoBox(l) /\ LogoBit(l) \notin Logo[l].driven
IsLogo(l) == LogoBox(l) /\ LogoBit(l) \in Logo[l].lit

(* The colour assignment of game_controller.sv: what is asked first on     *)
(* each screen.                                                            *)
StartLayers == <<"galaga", "press_start", "ship">>
PlayLayers == <<"ship", "laser">> \o Foes
BossLogoLayers == <<"boss_logo", "press_start">>
BossFightLayers == <<"boss", "ship", "laser">>
GameoverLayers == <<"gameover", "press_start">>
WinLayers == <<"you_win", "press_start">>

Layers ==
    [START |-> StartLayers, PLAY |-> PlayLayers, BOSS_LOGO |-> BossLogoLayers,
     BOSS_FIGHT |-> BossFightLayers, GAMEOVER |-> GameoverLayers, WIN |-> WinLayers][scene.screen]

White == <<255, 255, 255>>
Background == <<32, 0, 0>>

(* Red is the middle byte of a word, green the upper one. *)
Rgb(w) == <<w[2], w[1], w[3]>>

First(claims, colours) ==
    IF \E i \in DOMAIN claims : claims[i]
    THEN colours[CHOOSE i \in DOMAIN claims : claims[i] /\ \A k \in 1 .. i - 1 : ~claims[k]]
    ELSE Background

Is(x) == IF x \in Thing THEN IsThing(x) ELSE IsLogo(x)

color_data ==
    First([i \in DOMAIN Layers |-> Is(Layers[i])],
          [i \in DOMAIN Layers |-> IF Layers[i] \in Thing THEN Rgb(word[Layers[i]]) ELSE White])

Scenes ==
    [screen : Screen, at : [Thing -> [x : 0 .. Words - 1, y : 0 .. Words - 1]],
     gone : SUBSET Thing, space : BOOLEAN]

Shows(o) == o \notin scene.gone /\ (o = "laser" => scene.space)
Drawn == {o \in Thing : Shows(o) /\ \E i \in DOMAIN Layers : Layers[i] = o}

(* What the game does to the scene: screens may change at any edge, but    *)
(* between the ticks what is drawn has not moved (GameController's         *)
(* NothingMoves).                                                          *)
SceneStep ==
    /\ scene' \in Scenes
    /\ \/ reset \/ rising \/ since = 0
       \/ \A o \in Drawn' : scene'.at[o] = scene.at[o] /\ o \notin scene.gone

DrawInit == scene \in Scenes /\ word = [o \in Thing |-> Black]

(* An edge of Clk. *)
DrawEdge == ClkEdge /\ ReadMemories /\ SceneStep

DrawSpec == VgaInit /\ DrawInit /\ [][DrawEdge]_<<vvars, drawvars>>

-----------------------------------------------------------------------------
(* What belongs at the beam, by the plane and not by words, memories and   *)
(* registers: the part of the image that lies there.                       *)
Column(o) == h - scene.at[o].x
Line(o) == v - scene.at[o].y
Lies(o) ==
    /\ Column(o) \in 0 .. Size[Kind(o)].w - 1 /\ Line(o) \in 0 .. Size[Kind(o)].h - 1
    /\ Shows(o)
Pixel(o) == File[Kind(o)][Line(o) * Size[Kind(o)].w + Column(o)]
Stands(l) == <<v - Logo[l].top, h - Logo[l].left>> \in Logo[l].lit

Belongs(x) == IF x \in Thing THEN Lies(x) /\ Pixel(x) # Transparent ELSE Stands(x)

TrueColour ==
    First([i \in DOMAIN Layers |-> Belongs(Layers[i])],
          [i \in DOMAIN Layers |-> IF Layers[i] \in Thing /\ Lies(Layers[i])
                                   THEN Rgb(Pixel(Layers[i])) ELSE White])

(* The colour the screen takes at the end of a pixel is the right one,     *)
(* although it comes out of a memory that is one edge behind the beam and  *)
(* is compared with the colour that is not drawn before it has settled:    *)
(* the address is in the file, nothing is shifted by a pixel, things that  *)
(* stand over the edge of the screen leave nothing on the other side.      *)
(* Only a bit of a logo that no memory drives may be anything.  (Not the   *)
(* pixels between a reset and the tick that follows it: that tick comes    *)
(* with the first pixel, and things move there.)  And the screen shows     *)
(* colours exactly while the beam is on it.                                *)
PictureIsTrue ==
    /\ BlankFollowsBeam
    /\ vclk /\ blank /\ ~reset /\ ~fresh /\ since > 1 =>
        \/ color_data = TrueColour
        \/ \E i \in DOMAIN Layers : Layers[i] \in DOMAIN Logo /\ Overhang(Layers[i])
=============================================================================
