---------------------------- MODULE MCMarioRollout ----------------------------
(* A small instance of MarioRollout.                                       *)
EXTENDS MarioRollout

MC_Penalty == -2

=============================================================================
