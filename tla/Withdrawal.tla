----------------------------- MODULE Withdrawal ------------------------------
(***************************************************************************)
(* A withdrawal: the user pays dust to a signer address, "withdraw scan"   *)
(* finds it, "generate-withdrawal-signatures" signs the two payouts,       *)
(* "send" and "send-safe-withdraw" prepare the call of the bridge          *)
(* contract, "send-withdrawal-signature-to-operators" posts the other      *)
(* signature.  Blocks are found and reorganised, the backend indexes       *)
(* Citrea and the configuration changes between any two requests.          *)
(*                                                                         *)
(* Abstractions.  A signature is what its hash commits to.  A dust         *)
(* transaction has one output that matters, so its id is its outpoint.     *)
(* The contract and the backend are external: whether they accept a call   *)
(* is left open.  A definition named after another one with an ending is a *)
(* faulty form of it, what a property is tried against.                    *)
(***************************************************************************)
EXTENDS Naturals, Sequences, FiniteSets

CONSTANTS
  Signers,         \* the user's wallets with the purpose withdrawal
  Destinations,    \* addresses a user may want to be paid at
  OwnWithdrawal,   \* those that are his wallets with the purpose withdrawal
  Outpoints,       \* dust outputs
  Parameters,      \* tables of the configuration file, see ConstantsAssumption
  DustValues,
  Amounts,         \* payouts
  MaxHeight,       \* bound: height of the chain
  Forks,           \* bound: blocks of one height
  MaxRequests,     \* bound: calls of the contract prepared in a behaviour
  NULL

VARIABLES
  config,          \* the network's table of bridge_cli_config.toml
  outputs,         \* outputs[o]: the dust output o, or NULL
  contents,        \* contents[b]: the dust transactions in block b, when found
  best,            \* the best chain, as its sequence of blocks
  spent,           \* dust outputs a payout has spent
  run,             \* the command in progress, or NULL
  offer,           \* what a scan offered, NULL from the next command on
  plan,            \* what the last generate printed, or NULL
  requests,        \* calls of the contract that were prepared
  registered,      \* dust outputs with a withdrawal on Citrea
  seen,            \* those the backend has indexed
  operators        \* operators[o]: what the operators were sent, or NULL

chain == <<outputs, contents, best, spent>>
citrea == <<requests, registered, seen, operators>>
vars == <<config, chain, run, offer, plan, citrea>>

Output == [signer: Signers, value: DustValues]
Block == [height: 1..MaxHeight, fork: Forks]
Arguments == [signer: Signers, destination: Destinations, outpoint: Outpoints]
Signature == [args: Arguments, amount: Amounts, dust: DustValues]

Scan == [at: {"utxos", "status"}, signer: Signers, config: Parameters,
         left: SUBSET Outpoints, free: SUBSET Outpoints, known: SUBSET Outpoints]

(* The steps of a sending command; its block is known from "block" on.     *)
Located == {"block", "call", "receipt"}
Sending == {"onchain", "info"} \cup Located
Send == [at: Sending, args: Arguments, sig: Signature, config: Parameters,
         block: Block \cup {NULL}]

Offer == [signer: Signers, config: Parameters, free: SUBSET Outpoints,
          known: SUBSET Outpoints]
Plan == [args: Arguments, config: Parameters, optimistic: Signature, operator: Signature]
Request == [args: Arguments, sig: Signature, config: Parameters, block: Block,
            height: 1..MaxHeight]
OperatorRequest == [args: Arguments, sig: Signature, amount: Amounts]

ASSUME ConstantsAssumption ==
  /\ Parameters \subseteq [dust: DustValues, optimistic: Amounts, operator: Amounts]
  /\ MaxHeight \in Nat /\ MaxRequests \in Nat
  /\ OwnWithdrawal \subseteq Destinations /\ IsFiniteSet(Outpoints)
  /\ NULL \notin Output \cup Block \cup Scan \cup Send \cup Offer \cup Plan
                 \cup OperatorRequest
-----------------------------------------------------------------------------
Found(b) == b \in DOMAIN contents
MinedIn(o) == {i \in DOMAIN best : o \in contents[best[i]]}
OnChain(o) == MinedIn(o) # {}
BlockOf(o) == best[CHOOSE i \in MinedIn(o) : TRUE]

(* create_withdrawal_transaction, create_withdrawal_prevout and the hash   *)
(* of the two: the spent value is the configuration's.                     *)
Signed(args, amount, params) == [args |-> args, amount |-> amount, dust |-> params.dust]

(* verify_withdrawal_signature *)
Verifies(sig, args, params) == sig = Signed(args, params.optimistic, params)

(* The payout is valid on Bitcoin: the signature covers it and the output  *)
(* it spends, as that output really is.                                    *)
Pays(sig, args, amount) ==
  /\ sig.args = args /\ sig.amount = amount
  /\ outputs[args.outpoint] = [signer |-> args.signer, value |-> sig.dust]

(* is_withdrawal_address_wallet_address: found under the withdrawal prefix *)
(* only, so a wallet with the purpose deposit is a destination like others.*)
Refused(destination) == destination \in OwnWithdrawal
-----------------------------------------------------------------------------
(* cli_scan_withdrawals: the outputs, then one status request for each of  *)
(* the expected value.                                                     *)
StartScan(signer) ==
  /\ run = NULL
  /\ run' = [at |-> "utxos", signer |-> signer, config |-> config,
             left |-> {}, free |-> {}, known |-> seen]
  /\ offer' = NULL
  /\ UNCHANGED <<config, chain, plan, citrea>>

Unspent(signer) == {o \in Outpoints \ spent : outputs[o] # NULL /\ outputs[o].signer = signer}

ReadUtxosUnfiltered ==
  /\ run # NULL /\ run.at = "utxos"
  /\ run' = [run EXCEPT !.at = "status", !.left = Unspent(run.signer)]
  /\ UNCHANGED <<config, chain, offer, plan, citrea>>

ReadUtxos ==
  /\ run # NULL /\ run.at = "utxos"
  /\ run' = [run EXCEPT !.at = "status",
               !.left = {o \in Unspent(run.signer) : outputs[o].value = run.config.dust}]
  /\ UNCHANGED <<config, chain, offer, plan, citrea>>

AskStatusAgain(o) ==
  /\ run # NULL /\ run.at = "status" /\ o \in run.left
  /\ run' = IF o \in seen THEN run
            ELSE [run EXCEPT !.left = @ \ {o}, !.free = @ \cup {o}]
  /\ UNCHANGED <<config, chain, offer, plan, citrea>>

AskStatus(o) ==
  /\ run # NULL /\ run.at = "status" /\ o \in run.left
  /\ run' = [run EXCEPT !.left = @ \ {o}, !.free = IF o \in seen THEN @ ELSE @ \cup {o}]
  /\ UNCHANGED <<config, chain, offer, plan, citrea>>

PrintOffer ==
  /\ run # NULL /\ run.at = "status" /\ run.left = {}
  /\ offer' = [signer |-> run.signer, config |-> run.config, free |-> run.free,
               known |-> run.known]
  /\ run' = NULL
  /\ UNCHANGED <<config, chain, plan, citrea>>

(* A request that fails, or is not answered in time, ends the command.     *)
Fail ==
  /\ run # NULL /\ (run.at = "status" => run.left # {})
  /\ run' = NULL
  /\ UNCHANGED <<config, chain, offer, plan, citrea>>
-----------------------------------------------------------------------------
(* generate_withdrawal_signatures: nothing is read but the wallet table.   *)
GenerateSwapped(args) ==
  /\ ~Refused(args.destination)
  /\ plan' = [args |-> args, config |-> config,
              optimistic |-> Signed(args, config.operator, config),
              operator |-> Signed(args, config.optimistic, config)]
  /\ offer' = NULL
  /\ UNCHANGED <<config, chain, run, citrea>>

Generate(args) ==
  /\ ~Refused(args.destination)
  /\ plan' = [args |-> args, config |-> config,
              optimistic |-> Signed(args, config.optimistic, config),
              operator |-> Signed(args, config.operator, config)]
  /\ offer' = NULL
  /\ UNCHANGED <<config, chain, run, citrea>>

(* safe_withdraw and send_safe_withdrawal: verify the signature, then      *)
(* prepare_withdrawal_params.  Which of the two it is shows when the call  *)
(* is prepared.                                                            *)
StartSendUnverified(args, sig) ==
  /\ run = NULL /\ Cardinality(requests) < MaxRequests
  /\ run' = [at |-> "onchain", args |-> args, sig |-> sig, config |-> config,
             block |-> NULL]
  /\ offer' = NULL
  /\ UNCHANGED <<config, chain, plan, citrea>>

StartSend(args, sig) ==
  /\ run = NULL /\ Cardinality(requests) < MaxRequests
  /\ Verifies(sig, args, config)
  /\ run' = [at |-> "onchain", args |-> args, sig |-> sig, config |-> config,
             block |-> NULL]
  /\ offer' = NULL
  /\ UNCHANGED <<config, chain, plan, citrea>>

(* is_tx_on_chain *)
CheckOnChain ==
  /\ run # NULL /\ run.at = "onchain"
  /\ run' = IF OnChain(run.args.outpoint) THEN [run EXCEPT !.at = "info"] ELSE NULL
  /\ UNCHANGED <<config, chain, offer, plan, citrea>>

(* get_tx_details: the transaction, then height and hash of its block in   *)
(* one answer, then the block of that hash.                                *)
ReadInfoUnchecked ==
  /\ run # NULL /\ run.at = "info"
  /\ run' = [run EXCEPT !.at = "block",
               !.block = IF OnChain(run.args.outpoint) THEN BlockOf(run.args.outpoint) ELSE NULL]
  /\ UNCHANGED <<config, chain, offer, plan, citrea>>

ReadInfoRetried ==
  /\ run # NULL /\ run.at = "info"
  /\ run' = IF OnChain(run.args.outpoint)
            THEN [run EXCEPT !.at = "block", !.block = BlockOf(run.args.outpoint)]
            ELSE [run EXCEPT !.at = "onchain"]
  /\ UNCHANGED <<config, chain, offer, plan, citrea>>

ReadInfo ==
  /\ run # NULL /\ run.at = "info"
  /\ run' = IF OnChain(run.args.outpoint)
            THEN [run EXCEPT !.at = "block", !.block = BlockOf(run.args.outpoint)]
            ELSE NULL
  /\ UNCHANGED <<config, chain, offer, plan, citrea>>

(* get_citrea_safe_withdraw_params: the merkle proof and the header are    *)
(* taken from the block, the height from the answer before.                *)
PreparedAtTip ==
  [args |-> run.args, sig |-> run.sig, config |-> run.config, block |-> run.block,
   height |-> Len(best)]

Prepared ==
  [args |-> run.args, sig |-> run.sig, config |-> run.config, block |-> run.block,
   height |-> run.block.height]

(* safe_withdraw ends here, with a call that the user's browser signs and  *)
(* sends; send_safe_withdrawal goes on to send it itself.                  *)
ReadBlock ==
  /\ run # NULL /\ run.at = "block"
  /\ \/ requests' = requests \cup {Prepared} /\ run' = NULL
     \/ run' = [run EXCEPT !.at = "call"] /\ UNCHANGED requests
  /\ UNCHANGED <<config, chain, offer, plan, registered, seen, operators>>

(* The contract's .send(): Citrea has the call, but the answer may be lost *)
(* and the command end with an error.                                      *)
SendCall ==
  /\ run # NULL /\ run.at = "call"
  /\ requests' = requests \cup {Prepared}
  /\ run' \in {[run EXCEPT !.at = "receipt"], NULL}
  /\ UNCHANGED <<config, chain, offer, plan, registered, seen, operators>>

(* .get_receipt(): it is there once the call is mined or has reverted.     *)
GetReceipt ==
  /\ run # NULL /\ run.at = "receipt"
  /\ run' = NULL
  /\ UNCHANGED <<config, chain, offer, plan, citrea>>

(* send_withdrawal_signature_to_operators: the signature is posted as it   *)
(* is, with the amount of the configuration.  The backend refuses an       *)
(* output without a withdrawal, and a second signature.                    *)
SendToOperators(args, sig) ==
  /\ args.outpoint \in seen /\ operators[args.outpoint] = NULL
  /\ operators' = [operators EXCEPT ![args.outpoint] =
                     [args |-> args, sig |-> sig, amount |-> config.operator]]
  /\ offer' = NULL
  /\ UNCHANGED <<config, chain, run, plan, requests, registered, seen>>
-----------------------------------------------------------------------------
(* The rest of the world.                                                  *)
EditConfig(params) ==
  /\ config' = params
  /\ offer' = NULL
  /\ UNCHANGED <<chain, run, plan, citrea>>

PayDust(o, output) ==
  /\ outputs[o] = NULL
  /\ outputs' = [outputs EXCEPT ![o] = output]
  /\ UNCHANGED <<config, contents, best, spent, run, offer, plan, citrea>>

Mine(b, held) ==
  /\ ~Found(b) /\ b.height = Len(best) + 1
  /\ contents' = [x \in DOMAIN contents \cup {b} |-> IF x = b THEN held ELSE contents[x]]
  /\ best' = Append(best, b)
  /\ UNCHANGED <<config, outputs, spent, run, offer, plan, citrea>>

(* The tip gives way to another block; its own block is still found by its *)
(* hash.                                                                   *)
Reorganise ==
  /\ best # <<>>
  /\ best' = SubSeq(best, 1, Len(best) - 1)
  /\ UNCHANGED <<config, outputs, contents, spent, run, offer, plan, citrea>>

(* A prepared call is signed and mined on Citrea; a bad proof reverts.     *)
Register(r) ==
  /\ r \in requests
  /\ registered' = registered \cup {r.args.outpoint}
  /\ UNCHANGED <<config, chain, run, offer, plan, requests, seen, operators>>

Index(o) ==
  /\ o \in registered
  /\ seen' = seen \cup {o}
  /\ UNCHANGED <<config, chain, run, offer, plan, requests, registered, operators>>

(* The bridge or an operator pays out with a signature it was given.       *)
Payout(o) ==
  /\ o \in registered \ spent
  /\ \/ \E r \in requests : r.args.outpoint = o /\ Pays(r.sig, r.args, r.config.optimistic)
     \/ operators[o] # NULL /\ Pays(operators[o].sig, operators[o].args, operators[o].amount)
  /\ spent' = spent \cup {o}
  /\ UNCHANGED <<config, outputs, contents, best, run, offer, plan, citrea>>

Init ==
  /\ config \in Parameters
  /\ outputs = [o \in Outpoints |-> NULL]
  /\ contents = <<>>
  /\ best = <<>>
  /\ spent = {}
  /\ run = NULL /\ offer = NULL /\ plan = NULL
  /\ requests = {} /\ registered = {} /\ seen = {}
  /\ operators = [o \in Outpoints |-> NULL]

(* The steps of a command in progress: the requests that are bounded by    *)
(* HTTP_TIMEOUT_SECS, and the two answers of Citrea that nothing bounds.   *)
Step ==
  \/ ReadUtxos \/ PrintOffer
  \/ \E o \in Outpoints : AskStatus(o)
  \/ CheckOnChain \/ ReadInfo \/ ReadBlock

Contract == SendCall \/ GetReceipt

User ==
  \/ \E signer \in Signers : StartScan(signer)
  \/ \E args \in Arguments : Generate(args)
  \/ \E args \in Arguments : plan # NULL /\
       \E sig \in {plan.optimistic, plan.operator} :
         StartSend(args, sig) \/ SendToOperators(args, sig)
  \/ \E params \in Parameters : EditConfig(params)
  \/ \E o \in Outpoints, output \in Output : PayDust(o, output)

Outside ==
  \/ \E b \in Block : \E held \in SUBSET {o \in Outpoints : outputs[o] # NULL /\ ~OnChain(o)} :
       Mine(b, held)
  \/ Reorganise
  \/ \E r \in requests : Register(r)
  \/ \E o \in Outpoints : Index(o) \/ Payout(o)

Next == Step \/ Contract \/ Fail \/ User \/ Outside

Spec == Init /\ [][Next]_vars

(* Every request of services::http_client is answered, or given up after   *)
(* HTTP_TIMEOUT_SECS, and the command goes on or ends.  The provider of    *)
(* the contract has no timeout: its two steps are not fair.                *)
FairSpec == Spec /\ WF_vars(Step)
-----------------------------------------------------------------------------
(* Every variable keeps its type.                                          *)
TypeOK ==
  /\ config \in Parameters
  /\ outputs \in [Outpoints -> Output \cup {NULL}]
  /\ DOMAIN contents \subseteq Block /\ \A b \in DOMAIN contents : contents[b] \subseteq Outpoints
  /\ best \in Seq(Block)
  /\ spent \subseteq registered
  /\ run \in Scan \cup Send \cup {NULL}
  /\ run # NULL /\ run.at \in Located => run.block \in Block
  /\ offer \in Offer \cup {NULL}
  /\ plan \in Plan \cup {NULL}
  /\ requests \subseteq Request
  /\ seen \subseteq registered /\ registered \subseteq Outpoints
  /\ operators \in [Outpoints -> OperatorRequest \cup {NULL}]

(* What a finished scan offers can be used: an output the backend had a    *)
(* withdrawal for when the scan started is not offered, however the        *)
(* requests interleave with blocks and indexing, and the signatures the    *)
(* printed command makes, with the configuration of the scan, pay out.     *)
OffersAreUsable ==
  offer # NULL =>
    /\ offer.free \cap offer.known = {}
    /\ \A o \in offer.free, destination \in Destinations :
         LET args == [signer |-> offer.signer, destination |-> destination, outpoint |-> o]
             sig  == Signed(args, offer.config.optimistic, offer.config)
         IN Verifies(sig, args, offer.config) /\ Pays(sig, args, offer.config.optimistic)

(* The two commands "generate" prints work until the configuration is      *)
(* edited: "send" accepts the optimistic signature, the operators get the  *)
(* amount their signature is for, and both pay out if the dust is what the *)
(* configuration says.                                                     *)
PlanWorks ==
  plan # NULL /\ config = plan.config =>
    /\ Verifies(plan.optimistic, plan.args, config)
    /\ outputs[plan.args.outpoint] = [signer |-> plan.args.signer, value |-> config.dust] =>
         /\ Pays(plan.optimistic, plan.args, config.optimistic)
         /\ Pays(plan.operator, plan.args, config.operator)

(* Funds go to the contract only for a payout that can be made: a prepared *)
(* call carries a signature that pays the amount to the destination the    *)
(* user named, if the dust is his and worth what the configuration said,   *)
(* whichever signature he passed and whatever he edited in between.        *)
RequestsPay ==
  \A r \in requests :
    outputs[r.args.outpoint] = [signer |-> r.args.signer, value |-> r.config.dust]
      => Pays(r.sig, r.args, r.config.optimistic)

(* The proof in a prepared call is of the transaction, in the block whose  *)
(* header and height go with it, although blocks are reorganised between   *)
(* the three requests it is made from.                                     *)
ProofsMatch ==
  \A r \in requests :
    /\ Found(r.block) /\ r.args.outpoint \in contents[r.block]
    /\ r.height = r.block.height

(* What these rest on.  A scan keeps the outputs of its signer that are    *)
(* worth the dust amount, free of what was indexed when it started; a plan *)
(* and a call hold the signatures of their arguments and configuration;    *)
(* the best chain, and the block a call is about to read, have been found. *)
ScanInv ==
  /\ run # NULL /\ run.at \in {"utxos", "status"} =>
       /\ run.known \subseteq seen /\ run.free \cap run.known = {}
       /\ \A o \in run.left \cup run.free :
            outputs[o] = [signer |-> run.signer, value |-> run.config.dust]
  /\ offer # NULL =>
       /\ offer.free \cap offer.known = {}
       /\ \A o \in offer.free :
            outputs[o] = [signer |-> offer.signer, value |-> offer.config.dust]

PlanInv ==
  plan # NULL =>
    /\ plan.optimistic = Signed(plan.args, plan.config.optimistic, plan.config)
    /\ plan.operator = Signed(plan.args, plan.config.operator, plan.config)

SendInv ==
  /\ \A r \in requests : Verifies(r.sig, r.args, r.config)
  /\ run # NULL /\ run.at \in Sending =>
       Verifies(run.sig, run.args, run.config)

ChainInv ==
  /\ \A i \in DOMAIN best : Found(best[i])
  /\ run # NULL /\ run.at \in Located =>
       Found(run.block) /\ run.args.outpoint \in contents[run.block]

(* What is ahead of a command: its requests, the contract's two answers    *)
(* included, and the printing of a scan.                                   *)
Ahead(r) ==
  IF r = NULL THEN 0
  ELSE CASE r.at = "utxos"   -> Cardinality(Outpoints) + 2
         [] r.at = "status"  -> Cardinality(r.left) + 1
         [] r.at = "onchain" -> 5
         [] r.at = "info"    -> 4
         [] r.at = "block"   -> 3
         [] r.at = "call"    -> 2
         [] r.at = "receipt" -> 1

(* Nothing takes a command back, whatever is paid, found or reorganised    *)
(* between its requests: it never asks again, and asks about an output     *)
(* once, so that the requests of a scan are bounded by its first answer.   *)
CommandsGoOn == [][run # NULL => Ahead(run') < Ahead(run)]_run

(* Every command comes to its end or to the contract's call: no scan and   *)
(* no preparation of a call goes on for ever, however the chain changes    *)
(* meanwhile.  There send_safe_withdrawal may wait for Citrea without end. *)
AwaitsCitrea == run # NULL /\ run.at \in {"call", "receipt"}

CommandsEnd == run # NULL ~> (run = NULL \/ AwaitsCitrea)
=============================================================================
