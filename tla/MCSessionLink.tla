---------------------------- MODULE MCSessionLink ----------------------------
(* Small instances of SessionLink for TLC.                                   *)
EXTENDS SessionLink, TLC

RunSymmetry == Permutations(Runs)
=============================================================================
