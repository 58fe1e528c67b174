----------------------------- MODULE MCIlmStore -----------------------------
(* TLC instance of the queue; the operators of Commands, what a frame in it *)
(* says, are evaluated with it.                                            *)
EXTENDS IlmStore, Commands

CONSTANTS m1, m2, m3, c1, c2, c3
=============================================================================
