---------------------------- MODULE MCExplosion ----------------------------
(***************************************************************************)
(* Model checking of Explosion.  The constants are plain numbers and are   *)
(* set in the configurations: MCExplosion.cfg keeps the radius below the   *)
(* largest value of the counter, MCExplosionMaxRadius.cfg makes them       *)
(* equal, as 65535 would be in the code.                                   *)
(***************************************************************************)
EXTENDS Explosion

=============================================================================
