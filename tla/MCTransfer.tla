----------------------------- MODULE MCTransfer -----------------------------
(***************************************************************************)
(* Transfer for TLC: calls of one chunk and of enough chunks to use a slot *)
(* more than twice; axes that collide with the 2 of K and V and with the   *)
(* number of blocks.                                                       *)
(***************************************************************************)
EXTENDS Transfer

=============================================================================
