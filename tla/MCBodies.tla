------------------------------ MODULE MCBodies -------------------------------
(***************************************************************************)
(* The real board, as a whole and body by body: either the game is played  *)
(* by the script of MCReal, or the ship, the laser, the enemy ships or the *)
(* boss moves alone under all its inputs while the others stay where the   *)
(* reset puts them.                                                        *)
(***************************************************************************)
EXTENDS MCReal, MCLaser, MCFormation, MCBoss

VARIABLE body  \* which one moves, or "all", for the whole behaviour

fvars == <<enemy, hit>>

bodies == <<state, ship, lvars, fvars, bvars, body>>

Played(A) ==
    /\ body = "all" /\ A
    /\ UNCHANGED <<key, live, fighting, body>>

ShipAlone ==
    /\ body = "ship" /\ ShipNext
    /\ UNCHANGED <<state, lvars, fvars, bvars, body>>

LaserAlone(tick) ==
    /\ body = "laser" /\ LaserEdge(tick)
    /\ UNCHANGED <<state, ship, fvars, bvars, body>>

FormationAlone ==
    /\ body = "enemy ships" /\ FormationNext
    /\ UNCHANGED <<ship, lvars, bvars, body>>

BossAlone(tick) ==
    /\ body = "boss" /\ \E code \in {"Space", "None"} : BossStepNext(tick, code)
    /\ UNCHANGED <<state, ship, lvars, fvars, body>>

BodiesInit ==
    /\ ShipInit /\ ShotInit /\ FormationInit /\ FightInit
    /\ body \in {"all", "ship", "laser", "enemy ships", "boss"}

BodiesNext ==
    \/ Played(ScriptNext)
    \/ ShipAlone
    \/ \E tick \in BOOLEAN : LaserAlone(tick) \/ BossAlone(tick)
    \/ FormationAlone

(* The clock and the frame tick never stop, as in Console. *)
BodiesSpec ==
    /\ BodiesInit /\ [][BodiesNext]_bodies
    /\ WF_bodies(Played(ScriptFrame)) /\ WF_bodies(Played(ScriptCycle))
    /\ WF_bodies(LaserAlone(TRUE)) /\ WF_bodies(LaserAlone(FALSE))
=============================================================================
