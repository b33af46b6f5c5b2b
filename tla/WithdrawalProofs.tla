-------------------------- MODULE WithdrawalProofs ---------------------------
(***************************************************************************)
(* The theorems of Withdrawal: its types and the four safety properties    *)
(* of the withdrawal, for every set of signers, outputs, tables, amounts   *)
(* and blocks.                                                             *)
(***************************************************************************)
EXTENDS Withdrawal, FiniteSetTheorems, TLAPS

(* A table of the configuration file has the fields a signature needs.     *)
LEMMA TableType ==
  ASSUME NEW params \in Parameters
  PROVE  params.dust \in DustValues /\ params.optimistic \in Amounts
           /\ params.operator \in Amounts
BY ConstantsAssumption

(* The null value is none of the records it stands beside.                 *)
LEMMA NotNull ==
  NULL \notin Output /\ NULL \notin Block /\ NULL \notin Scan /\ NULL \notin Send
    /\ NULL \notin Offer /\ NULL \notin Plan /\ NULL \notin OperatorRequest
BY ConstantsAssumption

(* What is signed with a table of the configuration is a signature.        *)
LEMMA SignedType ==
  ASSUME NEW args \in Arguments, NEW amount \in Amounts, NEW params \in Parameters
  PROVE  Signed(args, amount, params) \in Signature
BY TableType DEF Signed, Signature

(* A command is a scan or a call, told apart by its step.                  *)
LEMMA RunIs ==
  ASSUME run \in Scan \cup Send \cup {NULL}, run # NULL
  PROVE  /\ run.at \in {"utxos", "status"} => run \in Scan
         /\ run.at \in Sending => run \in Send
         /\ run.at \in {"utxos", "status"} \cup Sending
BY DEF Scan, Send, Sending, Located

(* A block is on the chain where its transaction is mined.                 *)
LEMMA BlockIsBest ==
  ASSUME NEW o, OnChain(o)
  PROVE  \E i \in DOMAIN best : BlockOf(o) = best[i] /\ o \in contents[best[i]]
<1>1. PICK i : i \in MinedIn(o)
  BY DEF OnChain
<1>2. (CHOOSE j \in MinedIn(o) : TRUE) \in MinedIn(o)
  BY <1>1
<1> QED
  BY <1>2 DEF BlockOf, MinedIn

LEMMA TypeInit == Init => TypeOK
BY DEF Init, TypeOK, Block, Located
-----------------------------------------------------------------------------
LEMMA TypeNext == TypeOK /\ [Next]_vars => TypeOK'
<1> SUFFICES ASSUME TypeOK, [Next]_vars PROVE TypeOK'
  OBVIOUS
<1> USE NotNull
<1>1. CASE UNCHANGED vars
  BY <1>1 DEF vars, chain, citrea, TypeOK
<1>2. ASSUME NEW signer \in Signers, StartScan(signer) PROVE TypeOK'
  BY <1>2 DEF StartScan, TypeOK, Scan, Located, chain, citrea
<1>3. CASE ReadUtxos
  <2>1. run \in Scan
    BY <1>3, RunIs DEF ReadUtxos, TypeOK
  <2>2. run' \in Scan
    BY <1>3, <2>1 DEF ReadUtxos, Unspent, Scan
  <2> QED
    BY <1>3, <2>2 DEF ReadUtxos, TypeOK, Scan, Located, chain, citrea
<1>4. ASSUME NEW o \in Outpoints, AskStatus(o) PROVE TypeOK'
  <2>1. run \in Scan
    BY <1>4, RunIs DEF AskStatus, TypeOK
  <2>2. run' \in Scan
    BY <1>4, <2>1 DEF AskStatus, Scan
  <2> QED
    BY <1>4, <2>2 DEF AskStatus, TypeOK, Scan, chain, citrea
<1>5. CASE PrintOffer
  <2>1. run \in Scan
    BY <1>5, RunIs DEF PrintOffer, TypeOK
  <2>2. offer' \in Offer
    BY <1>5, <2>1 DEF PrintOffer, Scan, Offer
  <2> QED
    BY <1>5, <2>2 DEF PrintOffer, TypeOK, chain, citrea
<1>6. CASE Fail
  BY <1>6 DEF Fail, TypeOK, chain, citrea
<1>7. ASSUME NEW args \in Arguments, Generate(args) PROVE TypeOK'
  <2>1. plan' \in Plan
    BY <1>7, SignedType, TableType DEF Generate, TypeOK, Plan
  <2> QED
    BY <1>7, <2>1 DEF Generate, TypeOK, chain, citrea
<1>8. ASSUME NEW args \in Arguments, plan # NULL,
             NEW sig \in {plan.optimistic, plan.operator}
      PROVE  /\ StartSend(args, sig) => TypeOK'
             /\ SendToOperators(args, sig) => TypeOK'
  <2>1. sig \in Signature
    BY <1>8 DEF TypeOK, Plan
  <2>2. ASSUME StartSend(args, sig) PROVE TypeOK'
    <3>1. run' \in Send /\ run'.at \notin Located
      BY <2>1, <2>2 DEF StartSend, TypeOK, Send, Sending, Located
    <3> QED
      BY <2>2, <3>1 DEF StartSend, TypeOK, chain, citrea
  <2>3. ASSUME SendToOperators(args, sig) PROVE TypeOK'
    <3>1. operators' \in [Outpoints -> OperatorRequest \cup {NULL}]
      BY <2>1, <2>3, TableType DEF SendToOperators, TypeOK, OperatorRequest, Arguments
    <3> QED
      BY <2>3, <3>1 DEF SendToOperators, TypeOK, chain
  <2> QED
    BY <2>2, <2>3
<1>9. CASE CheckOnChain
  <2>1. run \in Send
    BY <1>9, RunIs DEF CheckOnChain, TypeOK, Sending
  <2>2. run' \in Send \cup {NULL} /\ (run' # NULL => run'.at \notin Located)
    BY <1>9, <2>1 DEF CheckOnChain, Send, Sending, Located
  <2> QED
    BY <1>9, <2>2 DEF CheckOnChain, TypeOK, chain, citrea
<1>10. CASE ReadInfo
  <2>1. run \in Send
    BY <1>10, RunIs DEF ReadInfo, TypeOK, Sending
  <2>2. OnChain(run.args.outpoint) => BlockOf(run.args.outpoint) \in Block
    BY BlockIsBest DEF TypeOK
  <2>3. run' \in Send \cup {NULL} /\ (run' # NULL => run'.block \in Block)
    BY <1>10, <2>1, <2>2 DEF ReadInfo, Send, Sending, Located
  <2> QED
    BY <1>10, <2>3 DEF ReadInfo, TypeOK, chain, citrea
<1>11. CASE ReadBlock \/ SendCall
  <2>1. run \in Send /\ run.block \in Block
    BY <1>11, RunIs DEF ReadBlock, SendCall, TypeOK, Sending, Located
  <2>2. Prepared \in Request
    BY <2>1 DEF Prepared, Request, Send, Block
  <2>3. requests' \subseteq Request
    BY <1>11, <2>2 DEF ReadBlock, SendCall, TypeOK
  <2>4. run' \in Send \cup {NULL} /\ (run' # NULL => run'.block \in Block)
    BY <1>11, <2>1 DEF ReadBlock, SendCall, Send, Sending, Located
  <2> QED
    BY <1>11, <2>3, <2>4 DEF ReadBlock, SendCall, TypeOK, chain
<1>19. CASE GetReceipt
  BY <1>19 DEF GetReceipt, TypeOK, chain, citrea
<1>12. ASSUME NEW params \in Parameters, EditConfig(params) PROVE TypeOK'
  BY <1>12 DEF EditConfig, TypeOK, chain, citrea
<1>13. ASSUME NEW o \in Outpoints, NEW output \in Output, PayDust(o, output) PROVE TypeOK'
  BY <1>13 DEF PayDust, TypeOK, citrea
<1>14. ASSUME NEW b \in Block, NEW held \in SUBSET Outpoints, Mine(b, held) PROVE TypeOK'
  <2>1. DOMAIN contents' \subseteq Block /\ \A x \in DOMAIN contents' : contents'[x] \subseteq Outpoints
    BY <1>14 DEF Mine, TypeOK
  <2>2. best' \in Seq(Block)
    BY <1>14 DEF Mine, TypeOK
  <2> QED
    BY <1>14, <2>1, <2>2 DEF Mine, TypeOK, citrea
<1>15. CASE Reorganise
  <2>1. best' \in Seq(Block)
    BY <1>15 DEF Reorganise, TypeOK
  <2> QED
    BY <1>15, <2>1 DEF Reorganise, TypeOK, citrea
<1>16. ASSUME NEW r \in requests, Register(r) PROVE TypeOK'
  BY <1>16 DEF Register, TypeOK, Request, Arguments, chain
<1>17. ASSUME NEW o \in Outpoints, Index(o) PROVE TypeOK'
  BY <1>17 DEF Index, TypeOK, chain
<1>18. ASSUME NEW o \in Outpoints, Payout(o) PROVE TypeOK'
  BY <1>18 DEF Payout, TypeOK, citrea
<1> QED
  BY <1>1, <1>2, <1>3, <1>4, <1>5, <1>6, <1>7, <1>8, <1>9, <1>10, <1>11, <1>12,
     <1>13, <1>14, <1>15, <1>16, <1>17, <1>18, <1>19
     DEF Next, Step, Contract, User, Outside

(* Every variable keeps its type.                                          *)
THEOREM TypeCorrect == Spec => []TypeOK
BY TypeInit, TypeNext, PTL DEF Spec
-----------------------------------------------------------------------------
(* An output that was paid stays what it is.                               *)
LEMMA OutputsStay ==
  ASSUME TypeOK, [Next]_vars, NEW o \in Outpoints, outputs[o] # NULL
  PROVE  outputs'[o] = outputs[o]
<1>1. CASE UNCHANGED vars
  BY <1>1 DEF vars, chain
<1>2. ASSUME NEW x \in Outpoints, NEW output \in Output, PayDust(x, output)
      PROVE  outputs'[o] = outputs[o]
  BY <1>2 DEF PayDust, TypeOK
<1>3. CASE \E params \in Parameters : EditConfig(params)
  BY <1>3 DEF EditConfig, chain
<1>4. CASE Step \/ Contract \/ Fail
  BY <1>4 DEF Step, Contract, Fail, ReadUtxos, PrintOffer, AskStatus, CheckOnChain, ReadInfo,
              ReadBlock, SendCall, GetReceipt, chain
<1>5. CASE Outside
  BY <1>5 DEF Outside, Mine, Reorganise, Register, Index, Payout, chain
<1>6. ASSUME NEW args, NEW sig,
             \/ StartScan(sig) \/ Generate(args) \/ StartSend(args, sig)
             \/ SendToOperators(args, sig)
      PROVE  outputs'[o] = outputs[o]
  BY <1>6 DEF StartScan, Generate, StartSend, SendToOperators, chain
<1> QED
  BY <1>1, <1>2, <1>3, <1>4, <1>5, <1>6 DEF Next, User

LEMMA ScanInit == Init => ScanInv
BY DEF Init, ScanInv

LEMMA ScanNext == TypeOK /\ ScanInv /\ [Next]_vars => ScanInv'
<1> SUFFICES ASSUME TypeOK, ScanInv, [Next]_vars PROVE ScanInv'
  OBVIOUS
<1> DEFINE Scans(r) ==
      r # NULL /\ r.at \in {"utxos", "status"} =>
        /\ r.known \subseteq seen' /\ r.free \cap r.known = {}
        /\ \A o \in r.left \cup r.free :
             outputs'[o] = [signer |-> r.signer, value |-> r.config.dust]
    Offers(f) ==
      f # NULL =>
        /\ f.free \cap f.known = {}
        /\ \A o \in f.free :
             outputs'[o] = [signer |-> f.signer, value |-> f.config.dust]
<1> USE NotNull
<1>1. seen \subseteq seen'
  <2>1. CASE UNCHANGED vars \/ Step \/ Contract \/ Fail
    BY <2>1 DEF vars, citrea, Step, Contract, Fail, ReadUtxos, PrintOffer, AskStatus,
                CheckOnChain, ReadInfo, ReadBlock, SendCall, GetReceipt
  <2>2. CASE User
    BY <2>2 DEF User, citrea, StartScan, Generate, StartSend, SendToOperators, EditConfig,
                PayDust
  <2>3. CASE Outside
    BY <2>3 DEF Outside, Mine, Reorganise, Register, Index, Payout, citrea
  <2> QED
    BY <2>1, <2>2, <2>3 DEF Next
<1>2. run' = run => Scans(run')
  <2> SUFFICES ASSUME run # NULL, run.at \in {"utxos", "status"}
               PROVE  Scans(run)
    OBVIOUS
  <2>1. run \in Scan
    BY RunIs DEF TypeOK
  <2>2. [signer |-> run.signer, value |-> run.config.dust] \in Output
    BY <2>1, TableType DEF Scan, Output
  <2>3. \A o \in run.left \cup run.free : o \in Outpoints /\ outputs[o] # NULL
    BY <2>1, <2>2 DEF Scan, ScanInv
  <2> QED
    BY <1>1, <2>3, OutputsStay DEF ScanInv
<1>3. offer' \in {offer, NULL} => Offers(offer')
  <2> SUFFICES ASSUME offer # NULL PROVE Offers(offer)
    OBVIOUS
  <2>1. offer \in Offer
    BY DEF TypeOK
  <2>2. [signer |-> offer.signer, value |-> offer.config.dust] \in Output
    BY <2>1, TableType DEF Offer, Output
  <2>3. \A o \in offer.free : o \in Outpoints /\ outputs[o] # NULL
    BY <2>1, <2>2 DEF Offer, ScanInv
  <2> QED
    BY <2>3, OutputsStay DEF ScanInv
<1>4. Scans(run') /\ Offers(offer') => ScanInv'
  BY DEF ScanInv
<1>5. CASE UNCHANGED vars
  BY <1>2, <1>3, <1>4, <1>5 DEF vars
<1>6. ASSUME NEW signer \in Signers, StartScan(signer) PROVE ScanInv'
  <2>1. Scans(run')
    BY <1>6 DEF StartScan, citrea
  <2> QED
    BY <1>3, <1>4, <1>6, <2>1 DEF StartScan
<1>7. CASE ReadUtxos
  <2>1. run \in Scan /\ outputs' = outputs /\ seen' = seen /\ offer' = offer
    BY <1>7, RunIs DEF ReadUtxos, TypeOK, chain, citrea
  <2>2. /\ run'.known = run.known /\ run'.free = run.free /\ run'.signer = run.signer
        /\ run'.config = run.config
        /\ run'.left = {o \in Unspent(run.signer) : outputs[o].value = run.config.dust}
    BY <1>7, <2>1 DEF ReadUtxos, Scan
  <2>3. \A o \in run'.left : outputs[o] = [signer |-> run.signer, value |-> run.config.dust]
    BY <2>2 DEF Unspent, TypeOK, Output
  <2>4. Scans(run')
    BY <1>7, <2>1, <2>2, <2>3 DEF ReadUtxos, ScanInv
  <2> QED
    BY <1>3, <1>4, <2>1, <2>4
<1>8. ASSUME NEW o \in Outpoints, AskStatus(o) PROVE ScanInv'
  <2>1. run \in Scan /\ outputs' = outputs /\ seen' = seen /\ offer' = offer
    BY <1>8, RunIs DEF AskStatus, TypeOK, chain, citrea
  <2>2. /\ run'.known = run.known /\ run'.signer = run.signer /\ run'.config = run.config
        /\ run'.left = run.left \ {o} /\ o \in run.left
        /\ run'.free = IF o \in seen THEN run.free ELSE run.free \cup {o}
    BY <1>8, <2>1 DEF AskStatus, Scan
  <2>3. /\ run.known \subseteq seen /\ run.free \cap run.known = {}
        /\ \A x \in run.left \cup run.free :
             outputs[x] = [signer |-> run.signer, value |-> run.config.dust]
    BY <1>8 DEF AskStatus, ScanInv
  <2>4. run'.free \subseteq run.left \cup run.free /\ run'.free \cap run.known = {}
    BY <2>2, <2>3
  <2>5. Scans(run')
    BY <2>1, <2>2, <2>3, <2>4
  <2> QED
    BY <1>3, <1>4, <2>1, <2>5
<1>9. CASE PrintOffer
  <2>1. run \in Scan /\ outputs' = outputs
    BY <1>9, RunIs DEF PrintOffer, TypeOK, chain
  <2>2. Offers(offer')
    BY <1>9, <2>1 DEF PrintOffer, ScanInv
  <2>3. Scans(run')
    BY <1>9 DEF PrintOffer
  <2> QED
    BY <1>4, <2>2, <2>3
<1>10. CASE Fail
  <2>1. Scans(run')
    BY <1>10 DEF Fail
  <2> QED
    BY <1>3, <1>4, <1>10, <2>1 DEF Fail
<1>11. CASE CheckOnChain \/ ReadInfo \/ ReadBlock \/ Contract
  <2>1. run \in Send
    BY <1>11, RunIs DEF CheckOnChain, ReadInfo, ReadBlock, Contract, SendCall, GetReceipt,
                        TypeOK, Sending, Located
  <2>2. run' = NULL \/ run'.at \in {"info", "block", "call", "receipt"}
    BY <1>11, <2>1 DEF CheckOnChain, ReadInfo, ReadBlock, Contract, SendCall, GetReceipt, Send
  <2>3. Scans(run')
    BY <2>2
  <2>4. offer' = offer
    BY <1>11 DEF CheckOnChain, ReadInfo, ReadBlock, Contract, SendCall, GetReceipt
  <2> QED
    BY <1>3, <1>4, <2>3, <2>4
<1>12. ASSUME NEW args \in Arguments, NEW sig, StartSend(args, sig) PROVE ScanInv'
  <2>1. Scans(run')
    BY <1>12 DEF StartSend
  <2> QED
    BY <1>3, <1>4, <1>12, <2>1 DEF StartSend
<1>13. ASSUME NEW args, NEW sig,
              \/ Generate(args) \/ SendToOperators(args, sig) \/ EditConfig(sig)
              \/ PayDust(args, sig)
       PROVE  ScanInv'
  <2>1. run' = run /\ offer' \in {offer, NULL}
    BY <1>13 DEF Generate, SendToOperators, EditConfig, PayDust
  <2> QED
    BY <1>2, <1>3, <1>4, <2>1
<1>14. CASE Outside
  <2>1. run' = run /\ offer' = offer
    BY <1>14 DEF Outside, Mine, Reorganise, Register, Index, Payout
  <2> QED
    BY <1>2, <1>3, <1>4, <2>1
<1> QED
  BY <1>5, <1>6, <1>7, <1>8, <1>9, <1>10, <1>11, <1>12, <1>13, <1>14
     DEF Next, Step, User

(* What a scan offers is free, as far as was known when it started, and    *)
(* the signatures made for it pay out: a payment to the signer is not      *)
(* changed by whatever happens during the scan.                            *)
THEOREM OfferedIsUsable == Spec => []OffersAreUsable
<1>1. TypeOK /\ ScanInv => OffersAreUsable
  BY DEF ScanInv, OffersAreUsable, Signed, Verifies, Pays, TypeOK, Offer
<1> QED
  BY <1>1, TypeCorrect, ScanInit, ScanNext, PTL DEF Spec
-----------------------------------------------------------------------------
LEMMA PlanNext == PlanInv /\ [Next]_vars => PlanInv'
<1> SUFFICES ASSUME PlanInv, [Next]_vars PROVE PlanInv'
  OBVIOUS
<1>1. ASSUME NEW args \in Arguments, Generate(args) PROVE PlanInv'
  BY <1>1 DEF Generate, PlanInv, Signed
<1>2. ASSUME plan' = plan PROVE PlanInv'
  BY <1>2 DEF PlanInv, Signed
<1>3. CASE UNCHANGED vars \/ Step \/ Contract \/ Fail
  BY <1>2, <1>3 DEF vars, Step, Contract, Fail, ReadUtxos, PrintOffer, AskStatus,
                    CheckOnChain, ReadInfo, ReadBlock, SendCall, GetReceipt
<1>4. ASSUME NEW args, NEW sig,
             \/ StartScan(sig) \/ StartSend(args, sig) \/ SendToOperators(args, sig)
             \/ EditConfig(sig) \/ PayDust(args, sig)
      PROVE  PlanInv'
  BY <1>2, <1>4 DEF StartScan, StartSend, SendToOperators, EditConfig, PayDust
<1>5. CASE Outside
  BY <1>2, <1>5 DEF Outside, Mine, Reorganise, Register, Index, Payout
<1> QED
  BY <1>1, <1>3, <1>4, <1>5 DEF Next, User

(* The commands printed by "generate-withdrawal-signatures" work until the *)
(* configuration is edited: each signature is the one of its own command.  *)
THEOREM PlansWork == Spec => []PlanWorks
<1>1. Init => PlanInv
  BY DEF Init, PlanInv
<1>2. PlanInv => PlanWorks
  BY DEF PlanInv, PlanWorks, Verifies, Pays, Signed
<1> QED
  BY <1>1, <1>2, PlanNext, PTL DEF Spec
-----------------------------------------------------------------------------
LEMMA SendNext == TypeOK /\ SendInv /\ [Next]_vars => SendInv'
<1> SUFFICES ASSUME TypeOK, SendInv, [Next]_vars PROVE SendInv'
  OBVIOUS
<1> USE NotNull
<1>1. ASSUME requests' = requests, run' \in {run, NULL} PROVE SendInv'
  BY <1>1 DEF SendInv, Verifies, Signed
<1>2. CASE UNCHANGED vars
  BY <1>1, <1>2 DEF vars, citrea
<1>3. ASSUME NEW args \in Arguments, NEW sig, StartSend(args, sig) PROVE SendInv'
  BY <1>3 DEF StartSend, SendInv, Verifies, Signed, citrea
<1>4. ASSUME NEW signer, StartScan(signer) PROVE SendInv'
  BY <1>4 DEF StartScan, SendInv, Verifies, Signed, citrea, Sending, Located
<1>5. CASE ReadUtxos \/ \E o \in Outpoints : AskStatus(o)
  <2>1. run \in Scan /\ requests' = requests
    BY <1>5, RunIs DEF ReadUtxos, AskStatus, TypeOK, citrea
  <2>2. run'.at = "status"
    BY <1>5, <2>1 DEF ReadUtxos, AskStatus, Scan
  <2> QED
    BY <2>1, <2>2 DEF SendInv, Verifies, Signed, Sending, Located
<1>6. CASE CheckOnChain \/ ReadInfo \/ ReadBlock \/ SendCall
  <2>1. run \in Send /\ Verifies(run.sig, run.args, run.config)
    BY <1>6, RunIs DEF CheckOnChain, ReadInfo, ReadBlock, SendCall, TypeOK, SendInv,
                       Sending, Located
  <2>2. run' # NULL => run'.sig = run.sig /\ run'.args = run.args /\ run'.config = run.config
    BY <1>6, <2>1 DEF CheckOnChain, ReadInfo, ReadBlock, SendCall, Send
  <2>3. requests' = requests \/ requests' = requests \cup {Prepared}
    BY <1>6 DEF CheckOnChain, ReadInfo, ReadBlock, SendCall, citrea
  <2>4. \A r \in requests' : Verifies(r.sig, r.args, r.config)
    BY <2>1, <2>3 DEF Prepared, SendInv
  <2> QED
    BY <2>1, <2>2, <2>4 DEF SendInv, Verifies, Signed
<1>8. CASE PrintOffer \/ Fail \/ GetReceipt
  BY <1>1, <1>8 DEF PrintOffer, Fail, GetReceipt, citrea
<1>9. ASSUME NEW args, NEW sig,
             \/ Generate(args) \/ SendToOperators(args, sig) \/ EditConfig(sig)
             \/ PayDust(args, sig)
      PROVE  SendInv'
  BY <1>1, <1>9 DEF Generate, SendToOperators, EditConfig, PayDust, citrea
<1>10. CASE Outside
  BY <1>1, <1>10 DEF Outside, Mine, Reorganise, Register, Index, Payout, citrea
<1> QED
  BY <1>2, <1>3, <1>4, <1>5, <1>6, <1>8, <1>9, <1>10 DEF Next, Step, Contract, User

(* Every call of the contract that was prepared carries a signature that   *)
(* pays what the user asked for, whatever signature he passed and however  *)
(* the configuration was edited.                                           *)
THEOREM PreparedCallsPay == Spec => []RequestsPay
<1>1. Init => SendInv
  BY DEF Init, SendInv
<1>2. SendInv => RequestsPay
  <2> SUFFICES ASSUME SendInv, NEW r \in requests,
                      outputs[r.args.outpoint] = [signer |-> r.args.signer, value |-> r.config.dust]
               PROVE  Pays(r.sig, r.args, r.config.optimistic)
    BY DEF RequestsPay
  <2>1. r.sig = [args |-> r.args, amount |-> r.config.optimistic, dust |-> r.config.dust]
    BY DEF SendInv, Verifies, Signed
  <2>2. r.sig.args = r.args /\ r.sig.amount = r.config.optimistic /\ r.sig.dust = r.config.dust
    BY <2>1
  <2> QED
    BY <2>2 DEF Pays
<1> QED
  BY <1>1, <1>2, TypeCorrect, SendNext, PTL DEF Spec
-----------------------------------------------------------------------------
(* Blocks that were found stay, with the transactions they hold.           *)
LEMMA BlocksStay ==
  ASSUME [Next]_vars
  PROVE  \A b \in DOMAIN contents : b \in DOMAIN contents' /\ contents'[b] = contents[b]
<1>1. ASSUME NEW b, NEW held, Mine(b, held)
      PROVE  \A x \in DOMAIN contents : x \in DOMAIN contents' /\ contents'[x] = contents[x]
  BY <1>1 DEF Mine, Found
<1>2. CASE UNCHANGED vars \/ Step \/ Contract \/ Fail
  BY <1>2 DEF vars, chain, Step, Contract, Fail, ReadUtxos, PrintOffer, AskStatus,
              CheckOnChain, ReadInfo, ReadBlock, SendCall, GetReceipt
<1>3. CASE User
  BY <1>3 DEF User, StartScan, Generate, StartSend, SendToOperators, EditConfig, PayDust, chain
<1>4. CASE Reorganise \/ (\E r \in requests : Register(r))
             \/ (\E o \in Outpoints : Index(o) \/ Payout(o))
  BY <1>4 DEF Reorganise, Register, Index, Payout, chain
<1> QED
  BY <1>1, <1>2, <1>3, <1>4 DEF Next, Outside

LEMMA ChainNext == TypeOK /\ ChainInv /\ [Next]_vars => ChainInv'
<1> SUFFICES ASSUME TypeOK, ChainInv, [Next]_vars PROVE ChainInv'
  OBVIOUS
<1> USE NotNull
<1> DEFINE Best == \A i \in DOMAIN best : Found(best[i])
           Reads(r) == r # NULL /\ r.at \in Located =>
                         /\ r.block \in DOMAIN contents'
                         /\ r.args.outpoint \in contents'[r.block]
<1>1. best' = best => Best'
  BY BlocksStay DEF ChainInv, Found
<1>2. Reads(run)
  BY BlocksStay DEF ChainInv, Found
<1>3. Best' /\ Reads(run') => ChainInv'
  BY DEF ChainInv, Found
<1>4. CASE UNCHANGED vars
  BY <1>1, <1>2, <1>3, <1>4 DEF vars, chain
<1>5. CASE ReadUtxos \/ \E o \in Outpoints : AskStatus(o)
  <2>1. run \in Scan /\ best' = best
    BY <1>5, RunIs DEF ReadUtxos, AskStatus, TypeOK, chain
  <2>2. run'.at = "status"
    BY <1>5, <2>1 DEF ReadUtxos, AskStatus, Scan
  <2> QED
    BY <1>1, <1>3, <2>1, <2>2 DEF Located
<1>6. CASE ReadInfo
  <2>1. run \in Send /\ UNCHANGED chain
    BY <1>6, RunIs DEF ReadInfo, TypeOK, Sending
  <2>2. ASSUME OnChain(run.args.outpoint) PROVE Reads(run')
    <3>1. PICK i \in DOMAIN best : /\ BlockOf(run.args.outpoint) = best[i]
                                   /\ run.args.outpoint \in contents[best[i]]
      BY <2>2, BlockIsBest
    <3>2. run'.block = best[i] /\ run'.args = run.args
      BY <1>6, <2>1, <2>2, <3>1 DEF ReadInfo, Send
    <3> QED
      BY <2>1, <3>1, <3>2 DEF ChainInv, Found, chain
  <2>3. Reads(run')
    BY <1>6, <2>2 DEF ReadInfo
  <2> QED
    BY <1>1, <1>3, <2>1, <2>3 DEF chain
<1>7. CASE CheckOnChain
  <2>1. run \in Send /\ best' = best
    BY <1>7, RunIs DEF CheckOnChain, TypeOK, chain, Sending
  <2>2. run' = NULL \/ run'.at = "info"
    BY <1>7, <2>1 DEF CheckOnChain, Send
  <2> QED
    BY <1>1, <1>3, <2>1, <2>2 DEF Located
<1>8. ASSUME NEW args, NEW sig, StartScan(sig) \/ StartSend(args, sig) PROVE ChainInv'
  <2>1. best' = best /\ run'.at \notin Located
    BY <1>8 DEF StartScan, StartSend, chain, Located
  <2> QED
    BY <1>1, <1>3, <2>1
<1>9. CASE PrintOffer \/ Fail \/ GetReceipt
  BY <1>1, <1>3, <1>9 DEF PrintOffer, Fail, GetReceipt, chain
<1>14. CASE ReadBlock \/ SendCall
  <2>1. run \in Send /\ run.at \in Located /\ run # NULL /\ best' = best
    BY <1>14, RunIs DEF ReadBlock, SendCall, TypeOK, chain, Sending, Located
  <2>2. run' # NULL => run'.block = run.block /\ run'.args = run.args
    BY <1>14, <2>1 DEF ReadBlock, SendCall, Send
  <2> QED
    BY <1>1, <1>2, <1>3, <2>1, <2>2
<1>10. ASSUME NEW args, NEW sig,
              \/ Generate(args) \/ SendToOperators(args, sig) \/ EditConfig(sig)
              \/ PayDust(args, sig)
       PROVE  ChainInv'
  BY <1>1, <1>2, <1>3, <1>10 DEF Generate, SendToOperators, EditConfig, PayDust, chain
<1>11. ASSUME NEW b \in Block, NEW held, Mine(b, held) PROVE ChainInv'
  <2>1. b \in DOMAIN contents' /\ best' = Append(best, b) /\ run' = run
    BY <1>11 DEF Mine
  <2>2. best \in Seq(Block)
    BY DEF TypeOK
  <2>3. \A i \in DOMAIN best' : best'[i] = b \/ (i \in DOMAIN best /\ best'[i] = best[i])
    BY <2>1, <2>2
  <2>4. Best'
    BY <2>1, <2>3, BlocksStay DEF ChainInv, Found
  <2> QED
    BY <1>2, <1>3, <2>1, <2>4
<1>12. CASE Reorganise
  <2>1. best' = SubSeq(best, 1, Len(best) - 1) /\ best # <<>> /\ run' = run
    BY <1>12 DEF Reorganise
  <2>2. best \in Seq(Block)
    BY DEF TypeOK
  <2>3. \A i \in DOMAIN best' : i \in DOMAIN best /\ best'[i] = best[i]
    BY <2>1, <2>2
  <2>4. Best'
    BY <2>3, BlocksStay DEF ChainInv, Found
  <2> QED
    BY <1>2, <1>3, <2>1, <2>4
<1>13. ASSUME NEW o, Register(o) \/ Index(o) \/ Payout(o) PROVE ChainInv'
  BY <1>1, <1>2, <1>3, <1>13 DEF Register, Index, Payout, chain
<1> QED
  BY <1>4, <1>5, <1>6, <1>7, <1>8, <1>9, <1>10, <1>11, <1>12, <1>13, <1>14
     DEF Next, Step, Contract, User, Outside

LEMMA ProofsNext == TypeOK /\ ChainInv /\ ProofsMatch /\ [Next]_vars => ProofsMatch'
<1> SUFFICES ASSUME TypeOK, ChainInv, ProofsMatch, [Next]_vars PROVE ProofsMatch'
  OBVIOUS
<1>1. requests' = requests => ProofsMatch'
  BY BlocksStay DEF ProofsMatch, Found
<1>2. CASE ReadBlock \/ SendCall
  <2>1. Found(run.block) /\ run.args.outpoint \in contents[run.block] /\ UNCHANGED contents
    BY <1>2 DEF ReadBlock, SendCall, ChainInv, chain, Located
  <2>2. requests' = requests \/ requests' = requests \cup {Prepared}
    BY <1>2 DEF ReadBlock, SendCall
  <2> QED
    BY <1>1, <2>1, <2>2 DEF Prepared, ProofsMatch, Found
<1>3. CASE UNCHANGED vars
  BY <1>1, <1>3 DEF vars, citrea
<1>4. CASE ReadUtxos \/ PrintOffer \/ (\E o \in Outpoints : AskStatus(o))
             \/ CheckOnChain \/ ReadInfo \/ GetReceipt \/ Fail
  BY <1>1, <1>4 DEF ReadUtxos, PrintOffer, AskStatus, CheckOnChain, ReadInfo, GetReceipt,
                    Fail, citrea
<1>5. CASE User
  BY <1>1, <1>5 DEF User, StartScan, Generate, StartSend, SendToOperators, EditConfig,
                    PayDust, citrea
<1>6. CASE Outside
  BY <1>1, <1>6 DEF Outside, Mine, Reorganise, Register, Index, Payout, citrea
<1> QED
  BY <1>2, <1>3, <1>4, <1>5, <1>6 DEF Next, Step, Contract

(* The proof, header and height of a prepared call belong to one block     *)
(* that holds the transaction, however blocks are reorganised between the  *)
(* requests it is made from.                                               *)
THEOREM ProofsAreOfTheirBlock == Spec => []ProofsMatch
<1>1. Init => ChainInv /\ ProofsMatch
  BY DEF Init, ChainInv, ProofsMatch
<1> QED
  BY <1>1, TypeCorrect, ChainNext, ProofsNext, PTL DEF Spec
-----------------------------------------------------------------------------
LEMMA AheadAt ==
  ASSUME NEW r
  PROVE  /\ r = NULL => Ahead(r) = 0
         /\ r # NULL /\ r.at = "utxos" => Ahead(r) = Cardinality(Outpoints) + 2
         /\ r # NULL /\ r.at = "status" => Ahead(r) = Cardinality(r.left) + 1
         /\ r # NULL /\ r.at = "onchain" => Ahead(r) = 5
         /\ r # NULL /\ r.at = "info" => Ahead(r) = 4
         /\ r # NULL /\ r.at = "block" => Ahead(r) = 3
         /\ r # NULL /\ r.at = "call" => Ahead(r) = 2
         /\ r # NULL /\ r.at = "receipt" => Ahead(r) = 1
<1>1. r = NULL => Ahead(r) = 0
  BY DEF Ahead
<1>2. r # NULL /\ r.at = "utxos" => Ahead(r) = Cardinality(Outpoints) + 2
  BY DEF Ahead
<1>3. r # NULL /\ r.at = "status" => Ahead(r) = Cardinality(r.left) + 1
  BY DEF Ahead
<1>4. r # NULL /\ r.at = "onchain" => Ahead(r) = 5
  BY DEF Ahead
<1>5. r # NULL /\ r.at = "info" => Ahead(r) = 4
  BY DEF Ahead
<1>6. r # NULL /\ r.at = "block" => Ahead(r) = 3
  BY DEF Ahead
<1>7. r # NULL /\ r.at = "call" => Ahead(r) = 2
  BY DEF Ahead
<1>8. r # NULL /\ r.at = "receipt" => Ahead(r) = 1
  BY DEF Ahead
<1>9. QED
  BY <1>1, <1>2, <1>3, <1>4, <1>5, <1>6, <1>7, <1>8

LEMMA SomeLeft ==
  ASSUME NEW S \in SUBSET Outpoints
  PROVE  /\ IsFiniteSet(S) /\ Cardinality(S) \in Nat /\ Cardinality(Outpoints) \in Nat
         /\ Cardinality(S) <= Cardinality(Outpoints)
         /\ \A o \in S : Cardinality(S \ {o}) = Cardinality(S) - 1
<1>1. IsFiniteSet(Outpoints)
  BY ConstantsAssumption
<1>2. IsFiniteSet(S) /\ Cardinality(S) <= Cardinality(Outpoints)
  BY <1>1, FS_Subset
<1>3. Cardinality(S) \in Nat /\ Cardinality(Outpoints) \in Nat
  BY <1>1, <1>2, FS_CardinalityType
<1>4. \A o \in S : Cardinality(S \ {o}) = Cardinality(S) - 1
  BY <1>2, FS_RemoveElement
<1>5. QED
  BY <1>2, <1>3, <1>4

LEMMA GoesOn ==
  ASSUME TypeOK, [Next]_vars, run # NULL, run' # run
  PROVE  Ahead(run') < Ahead(run)
<1> USE NotNull
<1>1. run \in Scan \cup Send
      /\ run.at \in {"utxos", "status", "onchain", "info", "block", "call", "receipt"}
      /\ (run.at \in {"utxos", "status"} => run \in Scan)
      /\ (run.at \in {"onchain", "info", "block", "call", "receipt"} => run \in Send)
  BY RunIs DEF TypeOK, Sending, Located
<1>2. run.at = "status" => run.left \subseteq Outpoints
  BY <1>1 DEF Scan
<1>3. ASSUME run' = NULL PROVE Ahead(run') < Ahead(run)
  <2>1. Ahead(run') = 0
    BY <1>3, AheadAt
  <2>2. Cardinality(Outpoints) \in Nat
    BY SomeLeft
  <2>3. run.at = "status" => Cardinality(run.left) \in Nat
    BY <1>2, SomeLeft
  <2>4. Ahead(run) > 0
    <3>1. CASE run.at = "utxos"
      BY <3>1, <2>2, AheadAt
    <3>2. CASE run.at = "status"
      BY <3>2, <2>3, AheadAt
    <3>3. CASE run.at \in {"onchain", "info", "block", "call", "receipt"}
      BY <3>3, AheadAt
    <3>4. QED
      BY <1>1, <3>1, <3>2, <3>3
  <2>5. QED
    BY <2>1, <2>4
<1>4. CASE ReadUtxos
  <2>1. run.at = "utxos" /\ run \in Scan
    BY <1>1, <1>4 DEF ReadUtxos
  <2>2. PICK S \in SUBSET Outpoints : run' = [run EXCEPT !.at = "status", !.left = S]
    BY <1>4 DEF ReadUtxos, Unspent
  <2>3. run' \in Scan /\ run'.at = "status" /\ run'.left = S
    BY <2>1, <2>2 DEF Scan
  <2>4. Ahead(run') = Cardinality(S) + 1 /\ Ahead(run) = Cardinality(Outpoints) + 2
    BY <2>1, <2>3, AheadAt
  <2>5. QED
    BY <2>4, SomeLeft
<1>5. ASSUME NEW o \in Outpoints, AskStatus(o)
      PROVE  Ahead(run') < Ahead(run)
  <2>1. run.at = "status" /\ run \in Scan /\ o \in run.left
    BY <1>1, <1>5 DEF AskStatus
  <2>2. run'.at = "status" /\ run'.left = run.left \ {o} /\ run' \in Scan
    BY <1>5, <2>1 DEF AskStatus, Scan
  <2>3. Ahead(run') = Cardinality(run.left \ {o}) + 1 /\ Ahead(run) = Cardinality(run.left) + 1
    BY <2>1, <2>2, AheadAt
  <2>4. Cardinality(run.left) \in Nat /\ Cardinality(run.left \ {o}) = Cardinality(run.left) - 1
    BY <1>2, <2>1, SomeLeft
  <2>5. QED
    BY <2>3, <2>4
<1>6. CASE CheckOnChain
  <2>1. run.at = "onchain" /\ run \in Send
    BY <1>1, <1>6 DEF CheckOnChain
  <2>2. run' = NULL \/ (run' \in Send /\ run'.at = "info")
    BY <1>6, <2>1 DEF CheckOnChain, Send, Sending
  <2>3. CASE run' \in Send /\ run'.at = "info"
    <3>1. Ahead(run) = 5 /\ Ahead(run') = 4
      BY <2>1, <2>3, AheadAt
    <3>2. QED
      BY <3>1
  <2>4. QED
    BY <1>3, <2>2, <2>3
<1>7. CASE ReadInfo
  <2>1. run.at = "info" /\ run \in Send
    BY <1>1, <1>7 DEF ReadInfo
  <2>2. run' = NULL \/ (run'.at = "block" /\ run' # NULL)
    <3>1. run' = NULL \/ run'.at = "block"
      BY <1>7, <2>1 DEF ReadInfo, Send
    <3>2. QED
      BY <3>1
  <2>3. CASE run'.at = "block" /\ run' # NULL
    <3>1. Ahead(run) = 4 /\ Ahead(run') = 3
      BY <2>1, <2>3, AheadAt
    <3>2. QED
      BY <3>1
  <2>4. QED
    BY <1>3, <2>2, <2>3
<1>8. CASE PrintOffer \/ GetReceipt \/ Fail
  BY <1>3, <1>8 DEF PrintOffer, GetReceipt, Fail
<1>11. CASE ReadBlock
  <2>1. run.at = "block" /\ run \in Send
    BY <1>1, <1>11 DEF ReadBlock
  <2>2. run' = NULL \/ (run'.at = "call" /\ run' \in Send)
    BY <1>11, <2>1 DEF ReadBlock, Send, Sending, Located
  <2>3. CASE run'.at = "call" /\ run' \in Send
    <3>1. Ahead(run) = 3 /\ Ahead(run') = 2
      BY <2>1, <2>3, AheadAt
    <3>2. QED
      BY <3>1
  <2>4. QED
    BY <1>3, <2>2, <2>3
<1>12. CASE SendCall
  <2>1. run.at = "call" /\ run \in Send
    BY <1>1, <1>12 DEF SendCall
  <2>2. run' = NULL \/ (run'.at = "receipt" /\ run' \in Send)
    BY <1>12, <2>1 DEF SendCall, Send, Sending, Located
  <2>3. CASE run'.at = "receipt" /\ run' \in Send
    <3>1. Ahead(run) = 2 /\ Ahead(run') = 1
      BY <2>1, <2>3, AheadAt
    <3>2. QED
      BY <3>1
  <2>4. QED
    BY <1>3, <2>2, <2>3
<1>9. CASE User \/ Outside \/ UNCHANGED vars
  <2>1. run' = run
    BY <1>9 DEF User, Outside, vars, chain, citrea, StartScan, Generate, StartSend, SendToOperators,
           EditConfig, PayDust, Mine, Reorganise, Register, Index, Payout
  <2>2. QED
    BY <2>1
<1>10. QED
  BY <1>4, <1>5, <1>6, <1>7, <1>8, <1>9, <1>11, <1>12 DEF Next, Step, Contract

(* A command has a bounded number of requests before it from its start on, *)
(* one for each output of a scan at most, and no payment, block,           *)
(* reorganisation or other command ever adds one.                          *)
THEOREM CommandsOnlyGoOn == Spec => CommandsGoOn
<1>1. TypeOK /\ [Next]_vars => [run # NULL => Ahead(run') < Ahead(run)]_run
  BY GoesOn
<1>2. QED
  BY <1>1, TypeCorrect, PTL DEF Spec, CommandsGoOn
=============================================================================
