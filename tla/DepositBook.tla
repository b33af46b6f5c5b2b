---------------------------- MODULE DepositBook -----------------------------
(***************************************************************************)
(* What starting a deposit promises, with no table, no request and no      *)
(* interleaving: the book of a home lists the deposit addresses the user   *)
(* may send funds to, each with the terms it commits to.  A page is added  *)
(* once, when the bridge already knows the address, and never changes.     *)
(* DepositStore implements this specification, Recovery builds on it.      *)
(***************************************************************************)
CONSTANTS
  Networks,
  LocalNetworks,   \* networks without a bridge backend
  Terms            \* what the address of a deposit commits to

VARIABLES
  book,            \* book[n]: the terms the book of network n lists
  known            \* known[n]: the terms the bridge watches on network n

Bridged == Networks \ LocalNetworks

Init ==
  /\ book = [n \in Networks |-> {}]
  /\ known = [n \in Networks |-> {}]

(* The bridge learns of an address, whether or not the user gets to keep   *)
(* it: the answer to the request may be lost.                              *)
Learn(n, t) ==
  /\ n \in Bridged
  /\ known' = [known EXCEPT ![n] = @ \cup {t}]
  /\ UNCHANGED book

Record(n, t) ==
  /\ n \in Bridged => t \in known[n]
  /\ book' = [book EXCEPT ![n] = @ \cup {t}]
  /\ UNCHANGED known

Next == \E n \in Networks, t \in Terms : Learn(n, t) \/ Record(n, t)

Spec == Init /\ [][Next]_<<book, known>>
=============================================================================
