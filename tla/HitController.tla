---------------------------- MODULE HitController ----------------------------
(***************************************************************************)
(* hit_controller.sv and hit_controller_boss.sv: the overlap test of the   *)
(* laser with one ship, and the latch that remembers that it was hit.      *)
(* enemy_ship and boss each instantiate one; the latch register itself is  *)
(* a variable of those modules.                                            *)
(***************************************************************************)
EXTENDS Playfield

(* One edge of the laser lies inside the closed interval of the ship. *)
Within(v, lo) == v >= lo /\ v <= Add(lo, EnemySize)

(* The left or right edge of the laser is inside the ship and so is its    *)
(* top or bottom edge.                                                     *)
Overlaps(s, l) ==
    /\ Within(l.x, s.x) \/ Within(Add(l.x, LaserW), s.x)
    /\ Within(l.y, s.y) \/ Within(Add(l.y, LaserH), s.y)

(* Mutant of EnemyLatch: the hit is not remembered. *)
EnemyLatch_unlatched(h, s, l, done) == ~done /\ Overlaps(s, l)

(* The latch of an enemy ship: cleared by done, else sticky.  Nothing here *)
(* looks at the screen.                                                    *)
EnemyLatch(h, s, l, done) == ~done /\ (h \/ Overlaps(s, l))

(* Mutant of BossLatch: done does not clear it. *)
BossLatch_kept(h, s, l, done, fighting) == fighting /\ (h \/ Overlaps(s, l))

(* The latch of the boss: it only lives during the boss fight.             *)
BossLatch(h, s, l, done, fighting) ==
    fighting /\ ~done /\ (h \/ Overlaps(s, l))
=============================================================================
