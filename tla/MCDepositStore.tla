--------------------------- MODULE MCDepositStore ---------------------------
(* Symmetric sets of the small instances of DepositStore.                  *)
EXTENDS DepositStore, TLC

ProcessSymmetry == Permutations(Processes) \cup Permutations(Keys)
=============================================================================
