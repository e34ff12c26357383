-------------------------- MODULE MCDepthController --------------------------
(* Two requests and the average of seven rounds: long enough for the sixth *)
(* accepted round to follow a rejected one.                                 *)
EXTENDS DepthController, TLC

MCSymmetry == Permutations(Requests)
=============================================================================
