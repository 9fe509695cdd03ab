--------------------------- MODULE GameController ----------------------------
(***************************************************************************)
(* game_controller.sv: the whole game, the signal controller, the ship,    *)
(* the laser, the enemy rows and the boss wired together on one 50 MHz     *)
(* clock.  Every register takes its next value in the same step, from the  *)
(* values all of them had before it.                                       *)
(***************************************************************************)
EXTENDS SignalController, UserShip, UserLaser, EnemyShips, Boss, FrameClock

vars == <<state, ship, laser, enemy, hit, boss, bossHit, gap>>

(* Combinational wiring, with a mutant of done (winning is forgotten).     *)
Score == RowScore + (IF bossHit THEN 1 ELSE 0)
killed_all1 == Score = Cardinality(Enemy)
killed_all2 == Score = Cardinality(Enemy) + 1
died == RowGameover(play) \/ BossGameover(boss_fight)
done_by_death == died
done == died \/ killed_all2
laser_hit == RowLaserHit(play, laser) \/ BossLaserHit(boss_fight, laser)

Init ==
    /\ SignalInit /\ ShipInit /\ LaserInit /\ EnemyInit /\ BossInit
    /\ GapInit

(* One rising edge of Clk without reset, at which the tick is high or low. *)
Registers(tick, key) ==
    /\ SignalClock(key, died, killed_all1, killed_all2)
    /\ ShipClock(tick, key)
    /\ LaserClock(tick, key, play \/ boss_fight, ship.x, laser_hit)
    /\ EnemyClock(tick, play, laser, done)
    /\ BossClock(tick, key, boss_fight, laser, done)

Clock(tick, key) == Registers(tick, key) /\ GapClock(tick)

(* The cycle at which the frame tick is high, and any other cycle. *)
Frame(key) == Clock(TRUE, key)
Cycle(key) == Clock(FALSE, key)

(* KEY[0] is down: every register is set. *)
Reset ==
    /\ SignalReset /\ ShipReset /\ LaserReset /\ EnemyReset /\ BossReset
    /\ GapReset

Next ==
    \/ \E key \in Keys : Frame(key)
    \/ \E key \in Keys : Cycle(key)
    \/ Reset

Spec == Init /\ [][Next]_vars
-----------------------------------------------------------------------------
(* Every register holds a value of its width.  The ship's horizontal       *)
(* motion and the laser's vertical motion have only the values listed.     *)
TypeOK ==
    /\ state \in State
    /\ ShipTypeOK
    /\ laser \in [x : Word, y : Word, ym : {0, Up}, space : BOOLEAN]
    /\ enemy \in [Enemy -> Body]
    /\ hit \in [Enemy -> BOOLEAN]
    /\ boss \in Body
    /\ bossHit \in BOOLEAN
    /\ gap \in 0 .. MinGap

(* The boss round is entered, and stays, with every enemy ship hit: no     *)
(* latch is lost between the cycle killed_all1 is seen and the end of the  *)
(* fight, so the score counts the boss as the one hit that is missing.     *)
BossRoundCleared ==
    state \in {"BOSS_LOGO", "BOSS_FIGHT"} => \A e \in Enemy : hit[e]

(* The boss only counts while it is fought.                                *)
BossCountsOnlyInFight == bossHit => boss_fight

(* A won game leaves nothing behind: done clears the latches in the same   *)
(* cycle the machine moves to WIN, and the laser is back in the ship, so   *)
(* none of them is set again before the next game.                         *)
WinIsClean == state = "WIN" => Score = 0

(* The end of a game wins over the hits of the same cycle.  The score      *)
(* falls at no other moment than the end of a game, and then to 0; a       *)
(* running game never forgets a kill.                                      *)
ScoreFallsAtEnd ==
    [][Score' < Score => Reset \/ (state' \in {"GAMEOVER", "WIN"} /\ Score' = 0)]_vars

(* A live laser that touches something is answered: the score rises, or    *)
(* the game ends.  A ship that was hit is moved away before the next shot  *)
(* can meet it, so a shot is never swallowed by a dead ship.               *)
NoSwallowedShot ==
    [][laser_hit => Reset \/ Score' > Score \/ done]_vars

(* What scores in a running game is a laser the player fired: an idle      *)
(* laser lies in the ship, below every row an enemy can be hit at.  (A     *)
(* laser past the top is still out for one frame.)                         *)
OnlyShotsScore ==
    [][Score' > Score /\ play => laser.space \/ PastTop]_vars

(* What the colour mapper is shown of the game stays as it is, whatever    *)
(* screen this edge leads to.  (Things that are not drawn may move.)       *)
StandsStill ==
    /\ ship' = ship
    /\ play' => \A e \in Enemy : hit'[e] = hit[e] /\ (~hit[e] => enemy'[e] = enemy[e])
    /\ boss_fight' => bossHit' = bossHit /\ (~bossHit => boss' = boss)
    /\ play' \/ boss_fight' =>
           IF state' = state THEN laser' = laser ELSE ~laser'.space

(* Nothing moves, shows up or goes out on the screen but at the frame tick *)
(* and in the one cycle after it: by then every hit, landing and return    *)
(* that the tick leads to is done with, and none leads to another.  So a   *)
(* picture, once begun, shows one moment of the game, even while Enter     *)
(* turns the screens.                                                      *)
NothingMoves == [][gap >= 1 /\ gap' # 0 => Reset \/ StandsStill]_vars

(* The round always ends: enemies that are not hit come down.              *)
RoundEnds == state = "PLAY" ~> state # "PLAY"

(* The boss can dodge but not stay away: the fight always ends.            *)
FightEnds == state = "BOSS_FIGHT" ~> state # "BOSS_FIGHT"

(* The board implements the rules of the match: every clock edge is one    *)
(* of its steps or leaves it alone.                                        *)
Rules == INSTANCE Match WITH kills <- {e \in Enemy : hit[e]}, bossDown <- bossHit
ImplementsMatch == Rules!MatchSpec

(* What is drawn of a live enemy and of a fired laser share a pixel box.   *)
Touches(s, l) ==
    /\ s.x < l.x + LaserW /\ l.x < s.x + EnemySize
    /\ s.y < l.y + LaserH /\ l.y < s.y + EnemySize

(* enemy-ship.sv:133 says the hit controller "detects when enemy is hit by *)
(* laser".  The test asks for an edge of the laser inside the ship, and a  *)
(* laser taller than a ship can lie across it with no edge inside.         *)
EveryTouchSeen ==
    play => \A e \in Enemy :
        laser.space /\ ~PastTop /\ Touches(enemy[e], laser) => Overlaps(enemy[e], laser)

(* enemy-ship.sv:21 and eship_row.sv:12 say of done that it resets the     *)
(* score when the game is over.  The latches can be set again one cycle    *)
(* later, when the ships are already at home and the laser is still out.   *)
GameOverScoreZero == state = "GAMEOVER" => Score = 0
=============================================================================
