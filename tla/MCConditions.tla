---------------------------- MODULE MCConditions ----------------------------
(* A small instance of Conditions.tla for TLC.                                *)
EXTENDS Conditions

CONSTANTS c1, c2, c3, ready, info

=============================================================================
