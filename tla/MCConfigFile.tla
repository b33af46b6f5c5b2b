---------------------------- MODULE MCConfigFile -----------------------------
(* Small instances of ConfigFile.                                            *)
EXTENDS ConfigFile, TLC

(* A table with the RPC instead of the other API, and one with both, which *)
(* the parse refuses: what docs/advanced.md asks for, done and half done.  *)
Edited == [Default EXCEPT !.rpc = TRUE]
SomeTables == {Default, Edited, [Edited EXCEPT !.esplora = NULL]}

(* Two providers of one network: Mempool.space, whose URL is the default,  *)
(* and Blockstream.info.                                                   *)
CONSTANTS mempool, blockstream
Menu == [n \in Required |-> {mempool, blockstream}]

ProcessSymmetry == Permutations(Processes)
=============================================================================
