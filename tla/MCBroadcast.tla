---------------------------- MODULE MCBroadcast ----------------------------
(***************************************************************************)
(* Model checking of Broadcast: the datagrams that reach the client.  The  *)
(* other constants are plain values and are set in the configurations.     *)
(***************************************************************************)
EXTENDS Broadcast

NoInputs == {}

\* The key for a bomb, alone and with a datagram the client has to drop.
BombKeyOnly == {[len |-> 1, code |-> 0, dir |-> 0]}
BombKey == BombKeyOnly \cup {[len |-> 2, code |-> 2, dir |-> 4]}

=============================================================================
