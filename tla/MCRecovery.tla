----------------------------- MODULE MCRecovery -----------------------------
(* Symmetric sets of the small instances of Recovery.                      *)
EXTENDS Recovery, TLC

KeySymmetry == Permutations(Keys) \cup Permutations(TxIds)
=============================================================================
