------------------------------ MODULE Recovery ------------------------------
(***************************************************************************)
(* A deposit after its address was given out: the user's payments, the     *)
(* bridge that moves them to the vault, "deposit status" with the recovery *)
(* commands it prints, and "create-signed-recovery-tx", "verify-recovery-  *)
(* tx" and "broadcast-recovery-tx".  Blocks are found, deposits move and   *)
(* the configuration changes between any two requests of a status run.     *)
(*                                                                         *)
(* Abstractions.  An address is the terms it commits to (DepositStore      *)
(* keeps the book of them).  Blocks are not reorganised.  A spend counts   *)
(* from its broadcast.  A fee is one amount.  A definition named after     *)
(* another one with an ending is a faulty form of it, what a property is   *)
(* tried against.                                                          *)
(***************************************************************************)
EXTENDS Integers, Sequences, FiniteSets

CONSTANTS
  CitreaAddrs,
  RecoveryAddrs,   \* recovery addresses users give to "deposit start"
  Owned,           \* those with a wallet in the user's home
  Keys,            \* aggregated keys of the bridge's signers
  Delays,          \* values of user_takes_after
  Values,          \* amounts of payments
  BridgeAmount,    \* config.bridge_amount
  Fee,             \* what a recovery transaction costs
  Dust,            \* 546 sats
  MaxCsv,          \* 65535, the largest relative lock in blocks
  TxIds,           \* payments
  MaxOutputs,      \* bound: outputs of a payment to its address
  MaxHeight,       \* bound: blocks of the chain
  NULL

VARIABLES
  config,          \* the network's table of bridge_cli_config.toml
  book,            \* terms of the recorded deposit addresses
  tip,             \* height of the chain
  txs,             \* txs[t]: payment t, or NULL
  spent,           \* outputs spent by the bridge or by a recovery
  moved,           \* outputs the bridge spent
  run,             \* the status run in progress, or NULL
  advice,          \* what the last status run printed about recoveries
  signed           \* the last recovery transaction signed, or NULL

chain == <<tip, txs, spent, moved>>
vars == <<config, book, chain, run, advice, signed>>

Parameters == [agg: Keys, delay: Delays]
Terms == [citrea: CitreaAddrs, recovery: RecoveryAddrs, agg: Keys, delay: Delays]
OutPoint == [tx: TxIds, vout: 1..MaxOutputs]

(* A payment of one or more outputs to one address; height 0 is unmined.   *)
Payment == [terms: Terms, outputs: UNION {[1..n -> Values] : n \in 1..MaxOutputs},
            height: 0..MaxHeight]

(* UtxoInfo; a block_height of None is height 0.                           *)
UtxoInfo == [outpoint: OutPoint, value: Values, height: 0..MaxHeight]

StatusRun == [at: {"utxos", "height", "deposits"}, terms: Terms, config: Parameters,
              utxos: SUBSET UtxoInfo, height: 0..MaxHeight]

(* What is printed about the recovery of a deposit: the blocks to wait     *)
(* and, with "command", the arguments the printed command has filled in.   *)
Advice == [deposit: OutPoint, outpoint: OutPoint, amount: Values \cup {NULL},
           config: Parameters, command: BOOLEAN, remaining: Nat, height: 0..MaxHeight]

Arguments == [outpoint: OutPoint, citrea: CitreaAddrs, recovery: RecoveryAddrs,
              agg: Keys, amount: Values]

RecoveryTx == [outpoint: OutPoint, terms: Terms, amount: Values, sequence: Int,
               out: Int]

ASSUME ConstantsAssumption ==
  /\ MaxHeight \in Nat /\ MaxOutputs \in Nat \ {0} /\ MaxCsv \in Nat
  /\ Values \subseteq Nat /\ Delays \subseteq Nat /\ Fee \in Nat /\ Dust \in Nat
  /\ BridgeAmount \in Values /\ Owned \subseteq RecoveryAddrs
  /\ NULL \notin Payment \cup StatusRun \cup RecoveryTx \cup Values
-----------------------------------------------------------------------------
(* The chain.                                                              *)
Paid(o) == txs[o.tx] # NULL /\ o.vout \in DOMAIN txs[o.tx].outputs
Funded == {o \in OutPoint : Paid(o)}
ValueOf(o) == txs[o.tx].outputs[o.vout]
HeightOf(o) == txs[o.tx].height
Unspent(terms) == {o \in Funded \ spent : txs[o.tx].terms = terms}

(* Consensus: the revealed script hashes to the output's address, the      *)
(* signature commits to its value, and the relative lock of the input is   *)
(* at least the script's and has passed by the next block.                 *)
Collects(tx, o) ==
  /\ tx.outpoint = o /\ o \in Funded \ spent
  /\ tx.terms = txs[o.tx].terms /\ tx.amount = ValueOf(o)
  /\ tx.sequence >= tx.terms.delay
  /\ HeightOf(o) # 0 /\ tip + 1 >= HeightOf(o) + tx.sequence
-----------------------------------------------------------------------------
(* Signing and verification.  The aggregated key is an argument, the delay *)
(* is always the configuration's.                                          *)
TermsFor(args, params) ==
  [citrea |-> args.citrea, recovery |-> args.recovery, agg |-> args.agg,
   delay |-> params.delay]

SignError(args, params) ==
  IF args.recovery \notin Owned THEN "WalletNotFound"
  ELSE IF params.delay > MaxCsv THEN "CsvLimit"
  ELSE IF args.amount < Fee THEN "InsufficientFunds"
  ELSE IF args.amount - Fee < Dust THEN "BelowDust" ELSE NULL

SignedTxEarly(args, params) ==
  [outpoint |-> args.outpoint, terms |-> TermsFor(args, params), amount |-> args.amount,
   sequence |-> params.delay - 1, out |-> args.amount - Fee]

SignedTx(args, params) ==
  [outpoint |-> args.outpoint, terms |-> TermsFor(args, params), amount |-> args.amount,
   sequence |-> params.delay, out |-> args.amount - Fee]

Verifies(tx, args, params) ==
  tx.terms = TermsFor(args, params) /\ tx.amount = args.amount
-----------------------------------------------------------------------------
(* deposit_status.  recovery_blocks_remaining: None is NULL.               *)
RemainingFromZero(height, full, params, now) ==
  IF height + params.delay > now THEN height + params.delay - now ELSE 0

RemainingUnclamped(height, full, params, now) ==
  IF height # 0 THEN height + params.delay - now
  ELSE IF full THEN params.delay ELSE NULL

Remaining(height, full, params, now) ==
  IF height # 0
  THEN IF height + params.delay > now THEN height + params.delay - now ELSE 0
  ELSE IF full THEN params.delay ELSE NULL

(* A payment of a wrong amount always gets its command and its countdown.  *)
IncorrectAdviceOfBridge(r, u) ==
  [deposit |-> u.outpoint, outpoint |-> u.outpoint, amount |-> BridgeAmount,
   config |-> r.config, command |-> TRUE, height |-> tip,
   remaining |-> Remaining(u.height, TRUE, r.config, tip)]

IncorrectAdvice(r, u) ==
  [deposit |-> u.outpoint, outpoint |-> u.outpoint, amount |-> u.value,
   config |-> r.config, command |-> TRUE, height |-> tip,
   remaining |-> Remaining(u.height, TRUE, r.config, tip)]

(* A deposit the backend lists is matched with the first of the unspent    *)
(* outputs of its transaction (the lowest, in this model); its own output  *)
(* is taken to be the first one that pays the address, or the one the      *)
(* backend says when the transaction's details are not found.              *)
Corresponding(r, o) ==
  LET same == {u \in r.utxos : u.outpoint.tx = o.tx}
  IN IF same = {} THEN NULL
     ELSE CHOOSE u \in same : \A v \in same : u.outpoint.vout <= v.outpoint.vout

ListedAdvice(r, o, found) ==
  LET u         == Corresponding(r, o)
      remaining == IF u = NULL THEN NULL
                   ELSE Remaining(u.height, FALSE, r.config, r.height)
  IN IF o \in moved \/ remaining = NULL \/ remaining > (3 * r.config.delay) \div 4
     THEN {}
     ELSE {[deposit |-> o, outpoint |-> IF o \in found THEN [o EXCEPT !.vout = 1] ELSE o,
            amount |-> u.value, config |-> r.config, command |-> remaining = 0,
            height |-> r.height, remaining |-> remaining]}

StartStatus(terms) ==
  /\ run = NULL
  /\ run' = [at |-> "utxos", terms |-> terms, config |-> config, utxos |-> {}, height |-> 0]
  /\ advice' = {}
  /\ UNCHANGED <<config, book, chain, signed>>

(* get_utxos; a failed request is taken for no output.                     *)
ReadUtxos ==
  /\ run # NULL /\ run.at = "utxos"
  /\ \E answer \in {Unspent(run.terms), {}} :
       run' = [run EXCEPT !.at = "height",
                 !.utxos = {[outpoint |-> o, value |-> ValueOf(o), height |-> HeightOf(o)] :
                              o \in answer}]
  /\ UNCHANGED <<config, book, chain, advice, signed>>

(* get_current_block_height, whose failure ends the command; then the      *)
(* payments of a wrong amount are printed.                                 *)
ReadHeight ==
  /\ run # NULL /\ run.at = "height"
  /\ \/ /\ run' = [run EXCEPT !.at = "deposits", !.height = tip]
        /\ advice' = {IncorrectAdvice(run, u) : u \in {x \in run.utxos : x.value # BridgeAmount}}
     \/ run' = NULL /\ UNCHANGED advice
  /\ UNCHANGED <<config, book, chain, signed>>

(* backend_deposit_status, whose failure is taken for no deposit.  The     *)
(* backend lists mined payments of the bridge amount, when it has seen     *)
(* them; the details of some of their transactions can be read.            *)
ReadDeposits ==
  /\ run # NULL /\ run.at = "deposits"
  /\ \E listed \in SUBSET {o \in Funded : /\ txs[o.tx].terms = run.terms /\ HeightOf(o) # 0
                                          /\ ValueOf(o) = BridgeAmount} :
       \E found \in SUBSET listed :
         advice' = advice \cup UNION {ListedAdvice(run, o, found) : o \in listed}
  /\ run' = NULL
  /\ UNCHANGED <<config, book, chain, signed>>
-----------------------------------------------------------------------------
(* deposit_create_signed_recovery_tx                                       *)
Sign(args) ==
  /\ SignError(args, config) = NULL
  /\ signed' = SignedTx(args, config)
  /\ UNCHANGED <<config, book, chain, run, advice>>

(* broadcast_recovery_tx: sends the transaction without looking at it.     *)
Broadcast ==
  /\ signed # NULL
  /\ Collects(signed, signed.outpoint)
  /\ spent' = spent \cup {signed.outpoint}
  /\ UNCHANGED <<config, book, tip, txs, moved, run, advice, signed>>

StartDeposit(citrea, recovery) ==
  /\ book' = book \cup {[citrea |-> citrea, recovery |-> recovery,
                         agg |-> config.agg, delay |-> config.delay]}
  /\ UNCHANGED <<config, chain, run, advice, signed>>

EditConfig(params) ==
  /\ config' = params
  /\ UNCHANGED <<book, chain, run, advice, signed>>

(* The user pays a recorded address.                                       *)
Pay(t, terms, outputs) ==
  /\ txs[t] = NULL
  /\ txs' = [txs EXCEPT ![t] = [terms |-> terms, outputs |-> outputs, height |-> 0]]
  /\ UNCHANGED <<config, book, tip, spent, moved, run, advice, signed>>

Mine(mined) ==
  /\ tip < MaxHeight
  /\ tip' = tip + 1
  /\ txs' = [t \in TxIds |-> IF t \in mined THEN [txs[t] EXCEPT !.height = tip + 1] ELSE txs[t]]
  /\ UNCHANGED <<config, book, spent, moved, run, advice, signed>>

(* The bridge moves a mined deposit of the right amount to the vault.      *)
Move(o) ==
  /\ o \in Funded \ spent
  /\ HeightOf(o) # 0 /\ ValueOf(o) = BridgeAmount
  /\ spent' = spent \cup {o}
  /\ moved' = moved \cup {o}
  /\ UNCHANGED <<config, book, tip, txs, run, advice, signed>>

Init ==
  /\ config \in Parameters
  /\ book = {}
  /\ tip = 0
  /\ txs = [t \in TxIds |-> NULL]
  /\ spent = {} /\ moved = {}
  /\ run = NULL
  /\ advice = {}
  /\ signed = NULL

Next ==
  \/ \E terms \in book : StartStatus(terms)
  \/ ReadUtxos \/ ReadHeight \/ ReadDeposits
  \/ \E args \in Arguments : Sign(args)
  \/ Broadcast
  \/ \E citrea \in CitreaAddrs, recovery \in RecoveryAddrs : StartDeposit(citrea, recovery)
  \/ \E params \in Parameters : EditConfig(params)
  \/ \E t \in TxIds, terms \in book, n \in 1..MaxOutputs :
       \E outputs \in [1..n -> Values] : Pay(t, terms, outputs)
  \/ \E mined \in SUBSET {t \in TxIds : txs[t] # NULL /\ txs[t].height = 0} : Mine(mined)
  \/ \E o \in OutPoint : Move(o)

Spec == Init /\ [][Next]_vars
-----------------------------------------------------------------------------
(* Every variable keeps its type.                                          *)
TypeOK ==
  /\ config \in Parameters
  /\ book \subseteq Terms
  /\ tip \in 0..MaxHeight
  /\ txs \in [TxIds -> Payment \cup {NULL}]
  /\ spent \subseteq Funded /\ moved \subseteq spent
  /\ run \in StatusRun \cup {NULL}
  /\ advice \subseteq Advice
  /\ signed \in RecoveryTx \cup {NULL}

TermsOf(o) == txs[o.tx].terms
Agrees(params, terms) == params.agg = terms.agg /\ params.delay = terms.delay

(* Whoever waits the blocks a status run told him can recover: although    *)
(* outputs, height and deposits are read at different times, the countdown *)
(* is never too short for a deposit made with the configuration in effect. *)
AdviceIsTimely ==
  \A a \in advice :
    Agrees(a.config, TermsOf(a.deposit)) /\ tip >= a.height + a.remaining
      /\ HeightOf(a.deposit) # 0 /\ HeightOf(a.deposit) <= a.height
        => tip + 1 >= HeightOf(a.deposit) + TermsOf(a.deposit).delay

(* The command printed with "You can send the recovery tx now using:",     *)
(* completed with the addresses the deposit was started with, makes a      *)
(* transaction that collects the deposit, while nobody else has spent it.  *)
CommandArguments(a) ==
  [outpoint |-> a.outpoint, citrea |-> TermsOf(a.deposit).citrea,
   recovery |-> TermsOf(a.deposit).recovery, agg |-> a.config.agg, amount |-> a.amount]

CommandCollects(a) ==
  LET args == CommandArguments(a)
  IN a.command /\ a.remaining = 0 /\ a.deposit \notin spent
       /\ SignError(args, a.config) = NULL
     => Collects(SignedTx(args, a.config), a.deposit)

PrintedCommandCollects == \A a \in advice : CommandCollects(a)

(* It does while the configuration is the one the deposit was started      *)
(* with and its transaction pays the address once; with a delay of 0 the   *)
(* command of a payment is ready before it is mined.                       *)
PlainCommandCollects ==
  \A a \in advice :
    /\ Agrees(a.config, TermsOf(a.deposit)) /\ Len(txs[a.deposit.tx].outputs) = 1
    /\ a.config.delay # 0 \/ HeightOf(a.deposit) # 0
    => CommandCollects(a)

(* What these rest on.  The heights a status run has read are those of its *)
(* payments or older; a countdown ends when the delay has passed, and not  *)
(* before the payment is old enough; a payment of one output is told by    *)
(* its own outpoint and value; a payment was mined in a block that there   *)
(* is; a recovery waits the delay of its script.                           *)
ReadsInv ==
  run # NULL =>
    /\ run.at = "deposits" => run.height <= tip
    /\ \A u \in run.utxos :
         /\ Paid(u.outpoint) /\ u.value = ValueOf(u.outpoint)
         /\ u.height \in {0, HeightOf(u.outpoint)}

AdviceInv ==
  \A a \in advice :
    /\ Paid(a.deposit) /\ a.height <= tip
    /\ HeightOf(a.deposit) # 0 /\ HeightOf(a.deposit) <= a.height =>
         a.height + a.remaining >= HeightOf(a.deposit) + a.config.delay
    /\ a.remaining = 0 /\ a.config.delay # 0 =>
         HeightOf(a.deposit) # 0 /\ a.height >= HeightOf(a.deposit) + a.config.delay
    /\ Len(txs[a.deposit.tx].outputs) = 1 =>
         a.outpoint = a.deposit /\ a.amount = ValueOf(a.deposit)

MinedInv == \A t \in TxIds : txs[t] # NULL => txs[t].height <= tip

SignedInv == signed # NULL => signed.sequence = signed.terms.delay

(* A recovery transaction that verifies for the terms and the value of a   *)
(* deposit collects it once the deposit is old enough, whatever the        *)
(* configuration was when it was signed.                                   *)
ArgumentsOf(o) ==
  [outpoint |-> o, citrea |-> TermsOf(o).citrea, recovery |-> TermsOf(o).recovery,
   agg |-> TermsOf(o).agg, amount |-> ValueOf(o)]

VerifiesFor(o) == signed.outpoint = o /\ Verifies(signed, ArgumentsOf(o), config)

Old(o) == HeightOf(o) # 0 /\ tip + 1 >= HeightOf(o) + TermsOf(o).delay

VerifiedCollects ==
  \A o \in Funded \ spent :
    signed # NULL /\ VerifiesFor(o) /\ config.delay = TermsOf(o).delay /\ Old(o)
      => Collects(signed, o)

(* "Recovery transaction verified! [...] Once this condition has been      *)
(* satisfied and the transaction is broadcast, an amount of ... will be    *)
(* sent": verified with the recorded addresses, key and amount.            *)
VerifiedMeansCollects ==
  \A o \in Funded \ spent :
    signed # NULL /\ VerifiesFor(o) /\ HeightOf(o) # 0 /\ tip >= HeightOf(o) + config.delay
      => Collects(signed, o)
=============================================================================
