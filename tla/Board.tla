------------------------------- MODULE Board -------------------------------
(***************************************************************************)
(* The rectangular board of the game and the reach of an exploding bomb.   *)
(*                                                                         *)
(* A cell is a pair <<x, y>>, the `Position` of src/src/client/utils.h.    *)
(* BlastArea says declaratively which cells one explosion covers.  It is   *)
(* what the four loops of Game::explode_bomb compute: module Explosion     *)
(* models these loops step by step and shows that they compute it, and     *)
(* every other module uses it directly.                                    *)
(***************************************************************************)
EXTENDS Integers

CONSTANTS SizeX, SizeY,   \* width and height of the board
          Radius          \* explosion_radius: length of an arm of the cross

ASSUME BoardAssumption == /\ SizeX \in Nat \ {0}
                          /\ SizeY \in Nat \ {0}
                          /\ Radius \in Nat

Cell == (0 .. SizeX - 1) \X (0 .. SizeY - 1)

\* b lies between a and c on the number line, ends included.
Between(a, b, c) == (a <= b /\ b <= c) \/ (c <= b /\ b <= a)

\* A block on cell b keeps an explosion at p from reaching cell c: b is on the
\* way from p to c.  The block on c itself does not protect c, a block on the
\* cell of the bomb protects every other cell.
Shields(b, p, c) == /\ b # c
                    /\ Between(p[1], b[1], c[1])
                    /\ Between(p[2], b[2], c[2])

\* c is on the cross of the bomb at p: same row or same column, not too far.
InRange(p, c) == \/ p[2] = c[2] /\ p[1] - Radius <= c[1] /\ c[1] <= p[1] + Radius
                 \/ p[1] = c[1] /\ p[2] - Radius <= c[2] /\ c[2] <= p[2] + Radius

\* MUTANT: the loops do not stop at the edge of the board.
BlastAreaNoEdge(p, blocked) ==
    {c \in (0 - Radius .. SizeX + Radius) \X (0 - Radius .. SizeY + Radius) :
        InRange(p, c) /\ \A b \in blocked : ~ Shields(b, p, c)}

\* The cells on which a bomb at p destroys robots and blocks.
BlastArea(p, blocked) ==
    {c \in Cell : InRange(p, c) /\ \A b \in blocked : ~ Shields(b, p, c)}

=============================================================================
