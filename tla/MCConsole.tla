------------------------------ MODULE MCConsole ------------------------------
(* The console with one enemy ship on a scaled-down board.                 *)
EXTENDS Console

CONSTANT e1

MCEnemy == {e1}
MCSlot == [e \in MCEnemy |-> [x |-> 3, y |-> 0]]
=============================================================================
