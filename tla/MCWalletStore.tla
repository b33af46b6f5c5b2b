--------------------------- MODULE MCWalletStore ----------------------------
(* Small instances of WalletStore: the wallet files "generated elsewhere"  *)
(* and the symmetric sets.                                                 *)
EXTENDS WalletStore, TLC

CONSTANTS k1, k2, w1, l1

(* A good file, one whose address is not its key's, one that lost its      *)
(* mnemonic, one of a bare key, one whose key is another than its          *)
(* mnemonic's, and one of a bare key with a mnemonic.                      *)
ForeignCipher == [secret |-> k1, pass |-> w1]
GoodFile == [label |-> l1, addr |-> [secret |-> k1, purpose |-> "deposit"],
             mnemonic |-> ForeignCipher, key |-> ForeignCipher, imported |-> FALSE,
             original |-> NULL, method |-> NULL]
MixedUpFile == [GoodFile EXCEPT !.addr.secret = k2]
LostMnemonicFile == [GoodFile EXCEPT !.mnemonic = NULL]
BareKeyFile == [GoodFile EXCEPT !.mnemonic = NULL, !.imported = TRUE,
                  !.original = "private_key_import", !.method = "file_import"]

TwoKeysFile == [GoodFile EXCEPT !.key.secret = k2]
BothFile == [BareKeyFile EXCEPT !.mnemonic = ForeignCipher]

SomeForeignFiles ==
  {GoodFile, MixedUpFile, LostMnemonicFile, BareKeyFile, TwoKeysFile, BothFile}
NoForeignFiles == {}

HomeSymmetry == Permutations(Homes)

RaceSymmetry == Permutations(Processes) \cup Permutations(Labels)
                  \cup Permutations(Secrets) \cup Permutations(Passphrases)
=============================================================================
