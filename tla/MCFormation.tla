----------------------------- MODULE MCFormation -----------------------------
(***************************************************************************)
(* The eighteen enemy ships alone on the real board, no shot fired: the    *)
(* whole way of every ship from its slot to the player's row, and round    *)
(* after round.  Ships do not influence each other, so this is the way of  *)
(* any ship not hit.                                                       *)
(***************************************************************************)
EXTENDS Formation

FormationInit == EnemyInit /\ SignalInit

FormationNext ==
    \E tick \in BOOLEAN, key \in {"Enter", "None"} :
        /\ EnemyClock(tick, play, Idle(XCenter), RowGameover(play))
        /\ SignalClock(key, RowGameover(play), FALSE, FALSE)
=============================================================================
