--------------------------- MODULE MCGameSession ---------------------------
(***************************************************************************)
(* Clients that log in the same character.                                 *)
(***************************************************************************)
EXTENDS GameSession, TLC

ClientSymmetry == Permutations(Protocols)
=============================================================================
