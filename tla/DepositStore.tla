---------------------------- MODULE DepositStore ----------------------------
(***************************************************************************)
(* "deposit start": the address of a deposit is computed from the user's   *)
(* arguments and the configuration, compared with the one the bridge's     *)
(* backend computes, and recorded in the deposits table.  Runs of the CLI  *)
(* interleave between any two statements; requests are lost before or      *)
(* after the backend has acted on them; the configuration file and the     *)
(* backend's parameters change between commands.                           *)
(*                                                                         *)
(* Abstractions.  A deposit address is the taproot hash of its scripts:    *)
(* two addresses of a network are equal exactly when they commit to the    *)
(* same terms, so the terms stand for the address.  Networks are taken     *)
(* with different address prefixes: the table's UNIQUE column is the       *)
(* address alone.  A definition named after another one with an ending     *)
(* (Insert and InsertAgain) is a faulty form of it, what a property is     *)
(* tried against.                                                          *)
(***************************************************************************)
EXTENDS Naturals, FiniteSets

CONSTANTS
  Processes,       \* runs of the CLI that may be alive at the same time
  Networks,
  LocalNetworks,   \* regtest: the address is not checked with a backend
  CitreaAddrs,
  RecoveryAddrs,   \* keys of the user's recovery addresses
  Keys,            \* aggregated keys of the bridge's signers
  Delays,          \* values of user_takes_after
  NULL,
  MaxCommands      \* bound: commands started in a behaviour

VARIABLES
  config,          \* config[n]: table n of bridge_cli_config.toml
  backend,         \* backend[n]: the parameters network n's backend uses
  accounts,        \* accounts[n]: addresses the backend of n has accounts for
  rows,            \* the deposits table
  data,            \* data[p]: the record run p is about to store
  result,          \* result[p]: the step p is at, or how it ended
  started          \* commands started so far

vars == <<config, backend, accounts, rows, data, result, started>>

Purposes == {"deposit", "withdrawal"}
Parameters == [agg: Keys, delay: Delays]
Terms == [citrea: CitreaAddrs, recovery: RecoveryAddrs, agg: Keys, delay: Delays]

(* DepositData: the address beside the values it was computed from, and    *)
(* when it was created (the ordinal of the command).                       *)
Record == [network: Networks, address: Terms, recovery: RecoveryAddrs,
           agg: Keys, citrea: CitreaAddrs, delay: Delays, created: 1..MaxCommands]

Pending == {"account", "exists", "insert"}
Outcomes == {"NewlyStored", "Exists", "InvalidPurpose", "RequestFailed",
             "AddressMismatch", "aborted"}

ASSUME ConstantsAssumption ==
  /\ MaxCommands \in Nat
  /\ LocalNetworks \subseteq Networks
  /\ NULL \notin Record
-----------------------------------------------------------------------------
(* calculate_deposit_address_with_tap_tree                                 *)
DepositAddress(citrea, recovery, params) ==
  [citrea |-> citrea, recovery |-> recovery, agg |-> params.agg, delay |-> params.delay]

(* The record says what its address commits to.                            *)
TermsOf(r) == [citrea |-> r.citrea, recovery |-> r.recovery, agg |-> r.agg, delay |-> r.delay]

NewRecordUnstamped(n, citrea, recovery) ==
  [network |-> n, address |-> DepositAddress(citrea, recovery, config[n]),
   recovery |-> recovery, agg |-> config[n].agg, citrea |-> citrea,
   delay |-> config[n].delay, created |-> 0]

NewRecord(n, citrea, recovery) ==
  [network |-> n, address |-> DepositAddress(citrea, recovery, config[n]),
   recovery |-> recovery, agg |-> config[n].agg, citrea |-> citrea,
   delay |-> config[n].delay, created |-> started + 1]

DepositExists(r) == \E row \in rows : row.network = r.network /\ row.address = r.address

Go(p, step) == result' = [result EXCEPT ![p] = step]
-----------------------------------------------------------------------------
(* get_deposit_address up to its first request.                            *)
Start(p, n, citrea, recovery, purpose) ==
  /\ result[p] \notin Pending
  /\ started < MaxCommands
  /\ started' = started + 1
  /\ data' = [data EXCEPT ![p] = NewRecord(n, citrea, recovery)]
  /\ Go(p, IF purpose # "deposit" THEN "InvalidPurpose"
           ELSE IF n \in LocalNetworks THEN "exists" ELSE "account")
  /\ UNCHANGED <<config, backend, accounts, rows>>

(* create_deposit_account: the backend computes the address from its own   *)
(* parameters; the request or its answer may be lost (20 s timeout), and   *)
(* an answer that is not the computed address ends the command.            *)
CreateAccountUnchecked(p) ==
  LET r == data[p]
      answer == DepositAddress(r.citrea, r.recovery, backend[r.network])
  IN /\ result[p] = "account"
     /\ \/ /\ accounts' = [accounts EXCEPT ![r.network] = @ \cup {answer}]
           /\ Go(p, "exists") \/ Go(p, "RequestFailed")
        \/ Go(p, "RequestFailed") /\ UNCHANGED accounts
     /\ UNCHANGED <<config, backend, rows, data, started>>

CreateAccount(p) ==
  LET r == data[p]
      answer == DepositAddress(r.citrea, r.recovery, backend[r.network])
  IN /\ result[p] = "account"
     /\ \/ /\ accounts' = [accounts EXCEPT ![r.network] = @ \cup {answer}]
           /\ \/ Go(p, IF answer = r.address THEN "exists" ELSE "AddressMismatch")
              \/ Go(p, "RequestFailed")
        \/ Go(p, "RequestFailed") /\ UNCHANGED accounts
     /\ UNCHANGED <<config, backend, rows, data, started>>

(* store_deposit_address: SELECT, then INSERT ... ON CONFLICT DO NOTHING.  *)
CheckExists(p) ==
  /\ result[p] = "exists"
  /\ Go(p, IF DepositExists(data[p]) THEN "Exists" ELSE "insert")
  /\ UNCHANGED <<config, backend, accounts, rows, data, started>>

InsertAgain(p) ==
  /\ result[p] = "insert"
  /\ rows' = rows \cup {data[p]}
  /\ Go(p, "NewlyStored")
  /\ UNCHANGED <<config, backend, accounts, data, started>>

InsertOrReplace(p) ==
  LET same(row) == row.citrea = data[p].citrea /\ row.recovery = data[p].recovery
  IN /\ result[p] = "insert"
     /\ rows' = {row \in rows : ~same(row)} \cup {data[p]}
     /\ Go(p, "NewlyStored")
     /\ UNCHANGED <<config, backend, accounts, data, started>>

Insert(p) ==
  /\ result[p] = "insert"
  /\ rows' = IF DepositExists(data[p]) THEN rows ELSE rows \cup {data[p]}
  /\ Go(p, "NewlyStored")
  /\ UNCHANGED <<config, backend, accounts, data, started>>

(* The process ends before its command does.                               *)
Abort(p) ==
  /\ result[p] \in Pending
  /\ Go(p, "aborted")
  /\ UNCHANGED <<config, backend, accounts, rows, data, started>>

(* update-config, or an editor, changes the file between commands.         *)
EditConfig(n, params) ==
  /\ config' = [config EXCEPT ![n] = params]
  /\ UNCHANGED <<backend, accounts, rows, data, result, started>>

(* The bridge changes its signers or its delay.                            *)
Reconfigure(n, params) ==
  /\ backend' = [backend EXCEPT ![n] = params]
  /\ UNCHANGED <<config, accounts, rows, data, result, started>>

Init ==
  /\ config \in [Networks -> Parameters]
  /\ backend = config
  /\ accounts = [n \in Networks |-> {}]
  /\ rows = {}
  /\ data = [p \in Processes |-> NULL]
  /\ result = [p \in Processes |-> "idle"]
  /\ started = 0

Step(p) == CreateAccount(p) \/ CheckExists(p) \/ Insert(p) \/ Abort(p)

Next ==
  \/ \E p \in Processes :
       \/ \E n \in Networks, citrea \in CitreaAddrs, recovery \in RecoveryAddrs,
             purpose \in Purposes : Start(p, n, citrea, recovery, purpose)
       \/ Step(p)
  \/ \E n \in Networks, params \in Parameters : EditConfig(n, params) \/ Reconfigure(n, params)

Spec == Init /\ [][Next]_vars
-----------------------------------------------------------------------------
(* Every variable keeps its type; a pending command has its record.        *)
TypeOK ==
  /\ config \in [Networks -> Parameters]
  /\ backend \in [Networks -> Parameters]
  /\ accounts \in [Networks -> SUBSET Terms]
  /\ rows \subseteq Record
  /\ data \in [Processes -> Record \cup {NULL}]
  /\ result \in [Processes -> Pending \cup Outcomes \cup {"idle"}]
  /\ started \in 0..MaxCommands
  /\ \A p \in Processes : result[p] # "idle" => data[p] \in Record

(* One row per address, and the row says what its address commits to,      *)
(* whatever the configuration was changed to since: the details the user   *)
(* reads back are the ones the funds are locked with.                      *)
RowsTellTheirTerms ==
  /\ \A r \in rows : TermsOf(r) = r.address
  /\ \A r, s \in rows : r.network = s.network /\ r.address = s.address => r = s

(* An address the user was given is in the table, with its own terms: a    *)
(* second run that inserts between the SELECT and the INSERT of the first  *)
(* can only have stored the same terms.                                    *)
GivenAddressIsRecorded ==
  \A p \in Processes :
    result[p] \in {"NewlyStored", "Exists"} =>
      \E r \in rows : r.network = data[p].network /\ TermsOf(r) = data[p].address

(* The bridge has an account for every address in the table, so funds sent *)
(* there are seen, although requests fail and parameters differ.           *)
RecordedIsKnown ==
  \A r \in rows : r.network \notin LocalNetworks => r.address \in accounts[r.network]

(* What RecordedIsKnown rests on: only a network with a backend is asked,  *)
(* and past its answer the backend has an account for the address.         *)
PendingIsKnown ==
  \A p \in Processes :
    /\ result[p] = "account" => data[p].network \notin LocalNetworks
    /\ result[p] \in {"exists", "insert"} /\ data[p].network \notin LocalNetworks =>
         data[p].address \in accounts[data[p].network]

DataTellsItsTerms == \A p \in Processes : data[p] # NULL => TermsOf(data[p]) = data[p].address

StoreInv ==
  /\ RowsTellTheirTerms
  /\ GivenAddressIsRecorded
  /\ RecordedIsKnown
  /\ PendingIsKnown
  /\ DataTellsItsTerms

(* The table implements the book: pages are added once, of addresses the   *)
(* bridge knows, and are never changed or lost.                            *)
Book == INSTANCE DepositBook
  WITH book <- [n \in Networks |-> {TermsOf(r) : r \in {x \in rows : x.network = n}}],
       known <- accounts

ImplementsBook == Book!Spec
=============================================================================
