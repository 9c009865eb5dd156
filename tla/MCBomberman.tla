---------------------------- MODULE MCBomberman ----------------------------
(***************************************************************************)
(* Model checking of Bomberman: the datagrams that reach the client.  The  *)
(* other constants are plain values and are set in the configurations.     *)
(***************************************************************************)
EXTENDS Bomberman

\* The key for a bomb, and nothing else.
BombKey == {[len |-> 1, code |-> 0, dir |-> 0]}

\* A move as well, and two datagrams the client has to drop: a direction that
\* does not exist and a move without direction.
Datagrams == BombKey \cup {[len |-> 2, code |-> 2, dir |-> 1],
                           [len |-> 2, code |-> 2, dir |-> 4],
                           [len |-> 1, code |-> 2, dir |-> 0]}

=============================================================================
