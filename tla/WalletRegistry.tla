--------------------------- MODULE WalletRegistry ---------------------------
(***************************************************************************)
(* What the wallet component promises, with no table, no file and no       *)
(* command: each home holds a set of wallets, a wallet joins it in one     *)
(* step under a label and an address nobody in that home uses, with its    *)
(* own key in the half that was opened, and never changes or leaves.       *)
(* WalletStore implements this specification.                              *)
(***************************************************************************)
CONSTANTS
  Homes,
  Labels,
  KeyOf       \* KeyOf[a]: the key address a is derived from

VARIABLE registry

Addresses == DOMAIN KeyOf

Entry == [label: Labels, addr: Addresses, key: {KeyOf[a] : a \in Addresses}]

(* A wallet can only join under a free label and a free address, holding   *)
(* the key its address is derived from.                                    *)
Admissible(h, e) ==
  /\ e.key = KeyOf[e.addr]
  /\ \A w \in registry[h] : w.label # e.label /\ w.addr # e.addr

Init == registry = [h \in Homes |-> {}]

Add(h, e) ==
  /\ Admissible(h, e)
  /\ registry' = [registry EXCEPT ![h] = @ \cup {e}]

Next == \E h \in Homes : \E e \in Entry : Add(h, e)

Spec == Init /\ [][Next]_registry
=============================================================================
