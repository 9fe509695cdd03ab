------------------------------- MODULE MCBoard -------------------------------
(***************************************************************************)
(* What lies around the game on the board, in one run: the sync generator, *)
(* the drawing, the bus to the USB chip, the chip's walk through the lists *)
(* and the console.  They share no state; "part" says which one moves.     *)
(***************************************************************************)
EXTENDS Picture, HpiIo, UsbLists, JtagUart

(* A small screen with the things of the game at its edges and over each   *)
(* other.                                                                  *)
MCFoes == <<"e1", "e2">>
MCSize ==
    [ship |-> [w |-> 2, h |-> 2], laser |-> [w |-> 1, h |-> 2],
     enemy |-> [w |-> 2, h |-> 1], boss |-> [w |-> 2, h |-> 1]]
MCFile ==
    [ship |-> [a \in 0 .. 3 |-> IF a = 1 THEN Transparent ELSE <<1, a, 0>>],
     laser |-> [a \in 0 .. 1 |-> <<2, a, 0>>],
     enemy |-> [a \in 0 .. 1 |-> IF a = 1 THEN Transparent ELSE <<3, a, 0>>],
     boss |-> [a \in 0 .. 1 |-> IF a = 0 THEN Transparent ELSE <<4, a, 0>>]]
MCBigLogo ==
    [left |-> 1, right |-> 3, top |-> 0, bottom |-> 2, rows |-> 2,
     driven |-> {0, 1} \X {0, 1}, lit |-> {<<1, 0>>}]
MCLogo ==
    [l \in {"galaga", "boss_logo", "gameover", "you_win", "press_start"} |->
        IF l # "press_start" THEN MCBigLogo
        ELSE [left |-> 0, right |-> 1, top |-> 1, bottom |-> 2, rows |-> 4,
              driven |-> {<<0, 1>>}, lit |-> {<<0, 1>>}]]
Spots(xs, y) == {[x |-> x, y |-> y] : x \in xs}
Place ==
    [ship |-> Spots({0, 15}, 1), laser |-> Spots({1}, 0) \cup Spots({1}, 15),
     boss |-> Spots({3}, 1), e1 |-> Spots({0, 2}, 0), e2 |-> Spots({1}, 0),
     gone |-> {{}, {"e1", "boss"}}]

VARIABLE part

boardvars == <<part, vvars, drawvars, hvars, lvars, uartvars>>

BoardInit ==
    /\ part \in {"sync", "picture", "bus", "lists", "console"}
    /\ VgaInit /\ HpiInit /\ ListsInit /\ UartInit
    /\ part \notin {"sync", "picture"} => vclk
    /\ scene \in [screen : IF part = "picture" THEN Screen ELSE {"START"},
                  gone : {{}}, space : {FALSE}, at : {[o \in Thing |-> CHOOSE p \in Place[o] : TRUE]}]
    /\ DrawInit
    /\ part # "console" => timeout = Timeout /\ attached

(* One thing at a time. *)
SceneChange ==
    \/ \E s \in Screen : scene' = [scene EXCEPT !.screen = s]
    \/ /\ rising \/ since = 0
       /\ \/ \E o \in Thing : \E p \in Place[o] : scene' = [scene EXCEPT !.at[o] = p]
          \/ \E g \in Place["gone"] : scene' = [scene EXCEPT !.gone = g]
          \/ scene' = [scene EXCEPT !.space = ~@]

SyncEdge == part = "sync" /\ ClkEdge /\ UNCHANGED <<part, drawvars, hvars, lvars, uartvars>>
PictureEdge ==
    /\ part = "picture" /\ SceneChange /\ DrawEdge
    /\ reset' => h = 2 /\ v = 1 /\ scene.screen = "PLAY"
    /\ UNCHANGED <<part, hvars, lvars, uartvars>>
Bus == part = "bus" /\ HpiNext /\ UNCHANGED <<part, vvars, drawvars, lvars, uartvars>>
OfLists(A) == part = "lists" /\ A /\ UNCHANGED <<part, vvars, drawvars, hvars, uartvars>>
OfConsole(A) == part = "console" /\ A /\ UNCHANGED <<part, vvars, drawvars, hvars, lvars>>

(* The enumeration is over, or was given up. *)
Enumerated ==
    /\ part = "lists" /\ ~Busy
    /\ place = "retry" \/ (place = "check" /\ request = Requests)
    /\ UNCHANGED boardvars

BoardSpec ==
    /\ BoardInit
    /\ [][SyncEdge \/ PictureEdge \/ Bus \/ OfLists(ListsNext) \/ Enumerated \/ OfConsole(UartNext)]_boardvars
    /\ WF_boardvars(SyncEdge) /\ WF_boardvars(PictureEdge)
    /\ WF_boardvars(OfLists(TakePointer)) /\ WF_boardvars(OfLists(Fetch))
    /\ WF_boardvars(OfLists(Transact \/ GiveUp))
    /\ WF_boardvars(OfLists(EndStray)) /\ WF_boardvars(OfLists(Program))

(* FramesKeepComing where there is a picture. *)
FramesComeHere == part = "sync" => FramesKeepComing
=============================================================================
