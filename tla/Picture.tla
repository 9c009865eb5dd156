------------------------------ MODULE Picture ------------------------------
(***************************************************************************)
(* What the system draw of src/src/bin/gui.rs puts on the screen for a     *)
(* message: texts, and shapes on the cells of the board.                   *)
(***************************************************************************)
EXTENDS Game, FiniteSets

Colors == 10   \* length of COLORS

\* What hides what: the z coordinate of a shape.
Height == [Grid |-> 0, Block |-> 1, Bomb |-> 2, Player |-> 3, Explosion |-> 4]

\* A shape on a cell; robots have their own color.
Shape(what, cell, color) == [what |-> what, cell |-> cell, color |-> color]

Shapes(what, cells) == {Shape(what, c, what) : c \in cells}

\* The robots of which score and position are known; the others are left out.
Drawn(v) == {p \in DOMAIN v.players : p \in DOMAIN v.scores \cap DOMAIN v.positions}

\* Players are taken in the order of their ids, drawn or not.
Color(v, p) == Cardinality({q \in DOMAIN v.players : q < p}) % Colors

Robots(v) == {Shape("Player", v.positions[p], Color(v, p)) : p \in Drawn(v)}

\* One line for each robot: its score in its color.
ScoreTable(v) == [p \in Drawn(v) |-> [deaths |-> v.scores[p], color |-> Color(v, p)]]

\* The entities spawned for a message; the lobby is a single text.
Picture(v) ==
    IF v.t = "lobby"
    THEN [text |-> v.players, table |-> EmptyMap, shapes |-> {}]
    ELSE [text   |-> v.turn,
          table  |-> ScoreTable(v),
          shapes |-> Shapes("Grid", Cell) \cup Shapes("Block", v.blocks)
                     \cup Shapes("Explosion", v.explosions)
                     \cup Shapes("Bomb", {v.bombs[b].pos : b \in DOMAIN v.bombs})
                     \cup Robots(v)]

\* What is visible on a cell: the shapes nothing else hides.
OnTop(v, c) ==
    LET here == {s \in Picture(v).shapes : s.cell = c}
    IN  {s \in here : \A other \in here : Height[other.what] <= Height[s.what]}

=============================================================================
