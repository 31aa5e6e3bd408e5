------------------------------- MODULE MCKeccak -------------------------------
(***************************************************************************)
(* Keccak with chunks that end before, at and behind the boundaries of one *)
(* and of two blocks.                                                      *)
(***************************************************************************)
EXTENDS Keccak

MCChunks == {0, 64, 71, 72, 136, 272}
===============================================================================
