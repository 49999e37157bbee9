--------------------------- MODULE MCSecondFactor ---------------------------
(* Two requests at a time on one account.                                   *)
EXTENDS SecondFactor, TLC

MCSymmetry == Permutations(Requests)
=============================================================================
