----------------------------- MODULE MCSessions -----------------------------
(* Two requests at a time on one account.                                   *)
EXTENDS Sessions, TLC

MCSymmetry == Permutations(Requests)
=============================================================================
