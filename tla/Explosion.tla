----------------------------- MODULE Explosion -----------------------------
(***************************************************************************)
(* Game::explode_bomb (src/src/client/game.cpp) as the loops it is: four   *)
(* `for` loops over a 16-bit counter, one for each arm of the cross, each  *)
(* left by `break` at the first block, then the insertion of the bomb's    *)
(* own cell.  One step of the model is one iteration of a loop.            *)
(*                                                                         *)
(* Several bombs may explode in one turn.  They all add to the same set    *)
(* `explosions`, and no block disappears before the end of the turn, so    *)
(* `blocks` does not change here.                                          *)
(***************************************************************************)
EXTENDS Board, FiniteSets

CONSTANTS MaxCord,   \* largest value of cord_t, 65535 in the code
          MaxBombs   \* bound: cells on which bombs explode in one turn

ASSUME CordAssumption == /\ MaxCord \in Nat
                         /\ SizeX <= MaxCord /\ SizeY <= MaxCord
                         /\ Radius <= MaxCord
                         /\ MaxBombs \in Nat

VARIABLES blocks,       \* the blocks on the board
          explosions,   \* the set the loops fill
          pos,          \* cell of the exploding bomb
          arm,          \* the loop being executed
          i,            \* its counter
          exploded      \* history: cells of the bombs that have exploded

vars == <<blocks, explosions, pos, arm, i, exploded>>

Arms == {"right", "left", "up", "down"}

\* The order of the loops in the code; the cell of the bomb comes last.
NextArm == [right |-> "left", left |-> "up", up |-> "down", down |-> "centre"]

\* The cell examined by iteration n of a loop.
Along(a, p, n) == CASE a = "right" -> <<p[1] + n, p[2]>>
                    [] a = "left"  -> <<p[1] - n, p[2]>>
                    [] a = "up"    -> <<p[1], p[2] + n>>
                    [] a = "down"  -> <<p[1], p[2] - n>>

\* MUTANT: `<=` for `<` at the right and upper edges.
OnBoardOffByOne(a, p, n) == CASE a = "right" -> p[1] + n <= SizeX
                              [] a = "left"  -> p[1] - n >= 0
                              [] a = "up"    -> p[2] + n <= SizeY
                              [] a = "down"  -> p[2] - n >= 0

\* The test of the loop: each arm is checked against one edge only.
OnBoard(a, p, n) == CASE a = "right" -> p[1] + n < SizeX
                      [] a = "left"  -> p[1] - n >= 0
                      [] a = "up"    -> p[2] + n < SizeY
                      [] a = "down"  -> p[2] - n >= 0

\* i++ on a cord_t.
Increment(n) == IF n = MaxCord THEN 0 ELSE n + 1

TypeOK == /\ blocks \subseteq Cell
          /\ explosions \subseteq Cell
          /\ pos \in Cell
          /\ arm \in Arms \cup {"centre", "done"}
          /\ i \in 0 .. MaxCord
          /\ exploded \subseteq Cell

Init == /\ blocks \in SUBSET Cell
        /\ explosions = {}
        /\ pos = <<0, 0>>
        /\ arm = "done"
        /\ i = 0
        /\ exploded = {}

\* A BombExploded event: explode_bomb is called for a bomb on cell p.
Explode == /\ arm = "done"
           /\ Cardinality(exploded) < MaxBombs
           /\ \E p \in Cell : pos' = p
           /\ arm' = "right"
           /\ i' = 0
           /\ UNCHANGED <<blocks, explosions, exploded>>

\* MUTANT: an iteration beyond the edge does not count.
SkipCellAgain == /\ arm \in Arms
                 /\ i <= Radius
                 /\ ~ OnBoard(arm, pos, i)
                 /\ i' = i
                 /\ UNCHANGED <<blocks, explosions, pos, arm, exploded>>

\* An iteration that looks beyond the edge of the board and does nothing.
SkipCell == /\ arm \in Arms
            /\ i <= Radius
            /\ ~ OnBoard(arm, pos, i)
            /\ i' = Increment(i)
            /\ UNCHANGED <<blocks, explosions, pos, arm, exploded>>

\* An iteration on a free cell of the board.
BurnCell == /\ arm \in Arms
            /\ i <= Radius
            /\ OnBoard(arm, pos, i)
            /\ Along(arm, pos, i) \notin blocks
            /\ explosions' = explosions \cup {Along(arm, pos, i)}
            /\ i' = Increment(i)
            /\ UNCHANGED <<blocks, pos, arm, exploded>>

\* MUTANT: `break` is forgotten and the arm goes on behind the block.
HitBlockGoesOn == /\ arm \in Arms
                  /\ i <= Radius
                  /\ OnBoard(arm, pos, i)
                  /\ Along(arm, pos, i) \in blocks
                  /\ explosions' = explosions \cup {Along(arm, pos, i)}
                  /\ arm' = arm
                  /\ i' = Increment(i)
                  /\ UNCHANGED <<blocks, pos, exploded>>

\* An iteration on a cell with a block: the block burns and the arm ends there.
HitBlock == /\ arm \in Arms
            /\ i <= Radius
            /\ OnBoard(arm, pos, i)
            /\ Along(arm, pos, i) \in blocks
            /\ explosions' = explosions \cup {Along(arm, pos, i)}
            /\ arm' = NextArm[arm]
            /\ i' = 0
            /\ UNCHANGED <<blocks, pos, exploded>>

\* The loop condition fails.
LeaveArm == /\ arm \in Arms
            /\ i > Radius
            /\ arm' = NextArm[arm]
            /\ i' = 0
            /\ UNCHANGED <<blocks, explosions, pos, exploded>>

\* explosions.insert(bomb.pos), the last statement that matters here.
Finish == /\ arm = "centre"
          /\ explosions' = explosions \cup {pos}
          /\ arm' = "done"
          /\ i' = 0
          /\ exploded' = exploded \cup {pos}
          /\ UNCHANGED <<blocks, pos>>

Loops == SkipCell \/ BurnCell \/ HitBlock \/ LeaveArm \/ Finish

Next == Explode \/ Loops

\* The thread that runs explode_bomb keeps running.
Spec == Init /\ [][Next]_vars /\ WF_vars(Loops)

-----------------------------------------------------------------------------

\* When no explode_bomb is running, `explosions` is the union of the blasts of
\* the bombs that have exploded, each taken on its own: the four loops neither
\* miss a cell, nor pass a block, nor leave the board, and the bombs of one turn
\* do not influence each other (game.cpp:142-174).
ExplosionsAreUnionOfBlasts ==
    arm = "done" => explosions = UNION {BlastArea(p, blocks) : p \in exploded}

\* Every call of explode_bomb returns: the counter leaves 0..Radius although it
\* is only 16 bits wide (game.cpp:142, 150, 158, 166).
ExplodeBombReturns == (arm # "done") ~> (arm = "done")

=============================================================================
