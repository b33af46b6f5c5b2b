---------------------------- MODULE MCWithdrawal ----------------------------
(* Small instances of Withdrawal: the tables of the configuration file.    *)
EXTENDS Withdrawal

(* The defaults, a dust amount the user sent instead, other payouts.       *)
Default == [dust |-> 1, optimistic |-> 10, operator |-> 9]
OtherDust == [Default EXCEPT !.dust = 2]
OtherPayouts == [Default EXCEPT !.optimistic = 9, !.operator = 8]

AllTables == {Default, OtherDust, OtherPayouts}
=============================================================================
