------------------------------ MODULE MCMerkle -------------------------------
(* Small instances of Merkle.                                                *)
EXTENDS Merkle

(* The logarithm by its definition.                                        *)
Logarithm == [n \in 1..MaxTransactions |-> CHOOSE k \in 0..n : 2^k <= n /\ n < 2^(k + 1)]
=============================================================================
