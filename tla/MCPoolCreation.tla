--------------------------- MODULE MCPoolCreation ---------------------------
(***************************************************************************)
(* Two creators of one pool, one of whom is the fee owner.                 *)
(***************************************************************************)
EXTENDS PoolCreationProperties

CONSTANTS alice, bob, nobody

=============================================================================
