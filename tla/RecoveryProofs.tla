--------------------------- MODULE RecoveryProofs ----------------------------
(***************************************************************************)
(* The theorems of Recovery: its types, that nobody is told to wait too    *)
(* short, and when a printed command and a verified transaction collect    *)
(* their deposit, for every set of terms, amounts, payments and blocks.    *)
(***************************************************************************)
EXTENDS Recovery, TLAPS, WellFoundedInduction

(* A set of numbers that has an element has a least one.                   *)
LEMMA LeastNumber ==
  ASSUME NEW T \in SUBSET Nat, T # {}
  PROVE  \E x \in T : \A y \in T : x <= y
<1>1. {p \in Nat \X Nat : p[1] < p[2]} = OpToRel(<, Nat)
  BY DEF OpToRel
<1>2. PICK R : IsWellFoundedOn(R, Nat) /\ R = {p \in Nat \X Nat : p[1] < p[2]}
  BY <1>1, NatLessThanWellFounded
<1>3. \A x, y \in Nat : x < y => <<x, y>> \in R
  BY <1>2
<1>4. PICK x \in T : \A y \in T : <<y, x>> \notin R
  BY <1>2, WFMin
<1>5. ASSUME NEW y \in T PROVE x <= y
  <2>1. x \in Nat /\ y \in Nat
    OBVIOUS
  <2>2. ~(y < x)
    BY <1>3, <1>4, <2>1
  <2> QED
    BY <2>1, <2>2
<1> QED
  BY <1>5

LEMMA NotNull ==
  NULL \notin Payment /\ NULL \notin StatusRun /\ NULL \notin RecoveryTx /\ NULL \notin Values
BY ConstantsAssumption

(* What the bounds and amounts are.                                        *)
LEMMA Numbers ==
  /\ MaxHeight \in Nat /\ MaxOutputs \in Nat /\ BridgeAmount \in Values /\ Fee \in Nat
  /\ \A v \in Values : v \in Nat
  /\ \A params \in Parameters : params.delay \in Nat /\ params.delay \in Delays /\ params.agg \in Keys
BY ConstantsAssumption DEF Parameters

(* The payment behind an output.                                           *)
LEMMA PaymentType ==
  ASSUME TypeOK, NEW o \in OutPoint, Paid(o)
  PROVE  /\ txs[o.tx] \in Payment /\ TermsOf(o) \in Terms /\ ValueOf(o) \in Values
         /\ HeightOf(o) \in 0..MaxHeight /\ o.vout \in 1..Len(txs[o.tx].outputs)
<1>1. txs[o.tx] \in Payment
  BY DEF TypeOK, OutPoint, Paid
<1>2. PICK n \in 1..MaxOutputs : txs[o.tx].outputs \in [1..n -> Values]
  BY <1>1 DEF Payment
<1>3. Len(txs[o.tx].outputs) = n /\ DOMAIN txs[o.tx].outputs = 1..n
  BY <1>2, Numbers
<1> QED
  BY <1>1, <1>2, <1>3 DEF Paid, TermsOf, ValueOf, HeightOf, Payment

LEMMA RemainingType ==
  ASSUME NEW height \in Nat, NEW full \in BOOLEAN, NEW params \in Parameters, NEW now \in Nat
  PROVE  /\ Remaining(height, full, params, now) \in Nat \cup {NULL}
         /\ full \/ height # 0 => Remaining(height, full, params, now) \in Nat
         /\ ~full /\ height = 0 => Remaining(height, full, params, now) = NULL
BY Numbers DEF Remaining

(* A countdown ends with the delay.                                        *)
LEMMA CountdownIs ==
  ASSUME NEW height \in Nat, NEW full \in BOOLEAN, NEW params \in Parameters, NEW now \in Nat,
         full \/ height # 0
  PROVE  LET remaining == Remaining(height, full, params, now)
         IN /\ height # 0 => now + remaining >= height + params.delay
            /\ height = 0 => remaining = params.delay
            /\ remaining = 0 /\ params.delay # 0 => height # 0 /\ now >= height + params.delay
BY Numbers DEF Remaining

(* The output a listed deposit is matched with is one of its transaction.  *)
LEMMA CorrespondingType ==
  ASSUME NEW r \in StatusRun, NEW o \in OutPoint, Corresponding(r, o) # NULL
  PROVE  Corresponding(r, o) \in r.utxos /\ Corresponding(r, o).outpoint.tx = o.tx
<1> DEFINE same == {u \in r.utxos : u.outpoint.tx = o.tx}
           vouts == {u.outpoint.vout : u \in same}
<1>1. same # {}
  BY DEF Corresponding
<1>2. vouts \in SUBSET Nat /\ vouts # {}
  BY <1>1 DEF StatusRun, UtxoInfo, OutPoint
<1>3. \E x \in vouts : \A y \in vouts : x <= y
  BY <1>2, LeastNumber
<1>4. \E u \in same : \A v \in same : u.outpoint.vout <= v.outpoint.vout
  BY <1>3
<1>5. (CHOOSE u \in same : \A v \in same : u.outpoint.vout <= v.outpoint.vout) \in same
  BY <1>4
<1> QED
  BY <1>1, <1>5 DEF Corresponding

LEMMA TypeInit == Init => TypeOK
BY ConstantsAssumption DEF Init, TypeOK, Parameters
-----------------------------------------------------------------------------
(* The advice about a listed deposit, when there is one.                   *)
LEMMA ListedAdviceIs ==
  ASSUME NEW r \in StatusRun, NEW o \in OutPoint, NEW found,
         NEW a \in ListedAdvice(r, o, found)
  PROVE  /\ a \in Advice
         /\ a.deposit = o /\ a.config = r.config /\ a.height = r.height
         /\ a.outpoint \in {o, [o EXCEPT !.vout = 1]} /\ a.command = (a.remaining = 0)
         /\ \E u \in r.utxos :
              /\ u.outpoint.tx = o.tx /\ u.height # 0 /\ a.amount = u.value
              /\ r.height + a.remaining >= u.height + r.config.delay
              /\ a.remaining = 0 => r.height >= u.height + r.config.delay
<1> DEFINE u == Corresponding(r, o)
           remaining == IF u = NULL THEN NULL ELSE Remaining(u.height, FALSE, r.config, r.height)
<1>1. /\ remaining # NULL
      /\ a = [deposit |-> o, outpoint |-> IF o \in found THEN [o EXCEPT !.vout = 1] ELSE o,
              amount |-> u.value, config |-> r.config, command |-> remaining = 0,
              height |-> r.height, remaining |-> remaining]
  BY DEF ListedAdvice
<1>2. u # NULL /\ remaining = Remaining(u.height, FALSE, r.config, r.height)
  BY <1>1
<1>3. u \in r.utxos /\ u.outpoint.tx = o.tx
  BY <1>2, CorrespondingType
<1>4. u \in UtxoInfo /\ r.config \in Parameters /\ r.height \in 0..MaxHeight
  BY <1>3 DEF StatusRun
<1>5. u.height \in Nat /\ r.height \in Nat /\ u.value \in Values
  BY <1>4 DEF UtxoInfo
<1>6. u.height # 0 /\ remaining \in Nat
  BY <1>1, <1>2, <1>4, <1>5, RemainingType
<1>7. (IF o \in found THEN [o EXCEPT !.vout = 1] ELSE o) \in OutPoint
  BY ConstantsAssumption DEF OutPoint
<1>8. a \in Advice
  BY <1>1, <1>4, <1>5, <1>6, <1>7 DEF Advice
<1>9. a.remaining = IF u.height + r.config.delay > r.height
                    THEN u.height + r.config.delay - r.height ELSE 0
  BY <1>1, <1>2, <1>6 DEF Remaining
<1>10. /\ r.height + a.remaining >= u.height + r.config.delay
       /\ a.remaining = 0 => r.height >= u.height + r.config.delay
  BY <1>4, <1>5, <1>9, Numbers
<1>11. /\ a.deposit = o /\ a.config = r.config /\ a.height = r.height /\ a.amount = u.value
       /\ a.outpoint \in {o, [o EXCEPT !.vout = 1]} /\ a.command = (a.remaining = 0)
  BY <1>1
<1> QED
  BY <1>3, <1>6, <1>8, <1>10, <1>11

LEMMA TypeNext == TypeOK /\ [Next]_vars => TypeOK'
<1> SUFFICES ASSUME TypeOK, [Next]_vars PROVE TypeOK'
  OBVIOUS
<1> USE NotNull
<1>1. CASE UNCHANGED vars
  BY <1>1 DEF vars, chain, TypeOK, Funded, Paid
<1>2. ASSUME NEW terms \in book, StartStatus(terms) PROVE TypeOK'
  <2>1. run' \in StatusRun
    BY <1>2, Numbers DEF StartStatus, TypeOK, StatusRun
  <2> QED
    BY <1>2, <2>1 DEF StartStatus, TypeOK, Funded, Paid, chain
<1>3. CASE ReadUtxos
  <2>1. run \in StatusRun
    BY <1>3 DEF ReadUtxos, TypeOK
  <2>2. PICK answer \in {Unspent(run.terms), {}} :
          run' = [run EXCEPT !.at = "height",
                    !.utxos = {[outpoint |-> o, value |-> ValueOf(o), height |-> HeightOf(o)] :
                                 o \in answer}]
    BY <1>3 DEF ReadUtxos
  <2>3. \A o \in answer : o \in OutPoint /\ Paid(o)
    BY DEF Unspent, Funded
  <2>4. {[outpoint |-> o, value |-> ValueOf(o), height |-> HeightOf(o)] : o \in answer}
          \subseteq UtxoInfo
    BY <2>3, PaymentType DEF UtxoInfo
  <2>5. run' \in StatusRun
    BY <2>1, <2>2, <2>4 DEF StatusRun
  <2> QED
    BY <1>3, <2>5 DEF ReadUtxos, TypeOK, Funded, Paid, chain
<1>4. CASE ReadHeight
  <2>1. run \in StatusRun /\ tip \in Nat
    BY <1>4 DEF ReadHeight, TypeOK
  <2>2. run' \in StatusRun \cup {NULL}
    BY <1>4, <2>1 DEF ReadHeight, StatusRun, TypeOK
  <2>3. \A u \in run.utxos : IncorrectAdvice(run, u) \in Advice
    <3> SUFFICES ASSUME NEW u \in run.utxos PROVE IncorrectAdvice(run, u) \in Advice
      OBVIOUS
    <3>1. /\ u.outpoint \in OutPoint /\ u.value \in Values /\ u.height \in Nat
          /\ run.config \in Parameters /\ tip \in 0..MaxHeight
      BY <2>1 DEF StatusRun, UtxoInfo, TypeOK
    <3>2. Remaining(u.height, TRUE, run.config, tip) \in Nat
      BY <2>1, <3>1, RemainingType
    <3> QED
      BY <3>1, <3>2 DEF IncorrectAdvice, Advice
  <2>4. advice' \subseteq Advice
    BY <1>4, <2>3 DEF ReadHeight, TypeOK
  <2> QED
    BY <1>4, <2>2, <2>4 DEF ReadHeight, TypeOK, Funded, Paid, chain
<1>5. CASE ReadDeposits
  <2>1. run \in StatusRun
    BY <1>5 DEF ReadDeposits, TypeOK
  <2>2. advice' \subseteq Advice
    <3>1. PICK listed \in SUBSET OutPoint : \E found \in SUBSET listed :
            advice' = advice \cup UNION {ListedAdvice(run, o, found) : o \in listed}
      BY <1>5 DEF ReadDeposits, Funded
    <3>2. PICK found \in SUBSET listed :
            advice' = advice \cup UNION {ListedAdvice(run, o, found) : o \in listed}
      BY <3>1
    <3>3. \A o \in listed : ListedAdvice(run, o, found) \subseteq Advice
      BY <2>1, ListedAdviceIs
    <3> QED
      BY <3>2, <3>3 DEF TypeOK
  <2> QED
    BY <1>5, <2>2 DEF ReadDeposits, TypeOK, Funded, Paid, chain
<1>6. ASSUME NEW args \in Arguments, Sign(args) PROVE TypeOK'
  <2>1. signed' \in RecoveryTx
    BY <1>6, Numbers DEF Sign, SignedTx, TermsFor, TypeOK, RecoveryTx, Terms, Arguments
  <2> QED
    BY <1>6, <2>1 DEF Sign, TypeOK, Funded, Paid, chain
<1>7. CASE Broadcast
  BY <1>7 DEF Broadcast, Collects, TypeOK, Funded, Paid
<1>8. ASSUME NEW citrea \in CitreaAddrs, NEW recovery \in RecoveryAddrs,
             StartDeposit(citrea, recovery)
      PROVE  TypeOK'
  <2>1. book' \subseteq Terms
    BY <1>8, Numbers DEF StartDeposit, TypeOK, Terms
  <2> QED
    BY <1>8, <2>1 DEF StartDeposit, TypeOK, Funded, Paid, chain
<1>9. ASSUME NEW params \in Parameters, EditConfig(params) PROVE TypeOK'
  BY <1>9 DEF EditConfig, TypeOK, Funded, Paid, chain
<1>10. ASSUME NEW t \in TxIds, NEW terms \in book, NEW n \in 1..MaxOutputs,
              NEW outputs \in [1..n -> Values], Pay(t, terms, outputs)
       PROVE  TypeOK'
  <2>1. [terms |-> terms, outputs |-> outputs, height |-> 0] \in Payment
    BY Numbers DEF Payment, TypeOK
  <2>2. txs' \in [TxIds -> Payment \cup {NULL}]
    BY <1>10, <2>1 DEF Pay, TypeOK
  <2>3. \A o \in Funded : o \in Funded'
    BY <1>10 DEF Pay, Funded, Paid, OutPoint, TypeOK
  <2> QED
    BY <1>10, <2>2, <2>3 DEF Pay, TypeOK
<1>11. ASSUME NEW mined \in SUBSET {t \in TxIds : txs[t] # NULL /\ txs[t].height = 0}, Mine(mined)
       PROVE  TypeOK'
  <2>1. tip' \in 0..MaxHeight /\ tip + 1 \in 0..MaxHeight
    BY <1>11, Numbers DEF Mine, TypeOK
  <2>2. \A t \in TxIds : /\ txs'[t] = IF t \in mined THEN [txs[t] EXCEPT !.height = tip + 1] ELSE txs[t]
                         /\ txs[t] \in Payment \cup {NULL}
                         /\ t \in mined => txs[t] \in Payment
    BY <1>11 DEF Mine, TypeOK
  <2>3. \A t \in TxIds : txs'[t] \in Payment \cup {NULL}
    BY <2>1, <2>2 DEF Payment
  <2>4. txs' \in [TxIds -> Payment \cup {NULL}]
    BY <1>11, <2>3 DEF Mine
  <2>5. \A t \in TxIds : t \in mined => txs'[t] \in Payment /\ txs'[t].outputs = txs[t].outputs
    BY <2>1, <2>2 DEF Payment
  <2>6. \A o \in Funded : o \in Funded'
    BY <2>2, <2>5 DEF Funded, Paid, OutPoint
  <2> QED
    BY <1>11, <2>1, <2>4, <2>6 DEF Mine, TypeOK
<1>12. ASSUME NEW o \in OutPoint, Move(o) PROVE TypeOK'
  BY <1>12 DEF Move, TypeOK, Funded, Paid
<1> QED
  BY <1>1, <1>2, <1>3, <1>4, <1>5, <1>6, <1>7, <1>8, <1>9, <1>10, <1>11, <1>12 DEF Next

(* Every variable keeps its type.                                          *)
THEOREM TypeCorrect == Spec => []TypeOK
BY TypeInit, TypeNext, PTL DEF Spec
-----------------------------------------------------------------------------
(* The steps that change the chain's payments or its height.               *)
LEMMA ChainSteps ==
  ASSUME [Next]_vars
  PROVE  \/ txs' = txs /\ tip' = tip
         \/ \E t \in TxIds, terms \in book, n \in 1..MaxOutputs :
              \E outputs \in [1..n -> Values] : Pay(t, terms, outputs)
         \/ \E mined \in SUBSET {t \in TxIds : txs[t] # NULL /\ txs[t].height = 0} : Mine(mined)
<1>1. CASE UNCHANGED vars
  BY <1>1 DEF vars, chain
<1>2. ASSUME NEW terms \in book, StartStatus(terms) PROVE txs' = txs /\ tip' = tip
  BY <1>2 DEF StartStatus, chain
<1>3. CASE ReadUtxos \/ ReadHeight \/ ReadDeposits \/ Broadcast
  BY <1>3 DEF ReadUtxos, ReadHeight, ReadDeposits, Broadcast, chain
<1>4. ASSUME NEW args \in Arguments, Sign(args) PROVE txs' = txs /\ tip' = tip
  BY <1>4 DEF Sign, chain
<1>5. ASSUME NEW c \in CitreaAddrs, NEW r \in RecoveryAddrs, StartDeposit(c, r)
      PROVE  txs' = txs /\ tip' = tip
  BY <1>5 DEF StartDeposit, chain
<1>6. ASSUME NEW params \in Parameters, EditConfig(params) PROVE txs' = txs /\ tip' = tip
  BY <1>6 DEF EditConfig, chain
<1>7. ASSUME NEW o \in OutPoint, Move(o) PROVE txs' = txs /\ tip' = tip
  BY <1>7 DEF Move
<1> QED
  BY <1>1, <1>2, <1>3, <1>4, <1>5, <1>6, <1>7 DEF Next

(* A payment stays what it is; only an unmined one gets a height, that of  *)
(* the new block.                                                          *)
LEMMA PaymentsStay ==
  ASSUME TypeOK, [Next]_vars
  PROVE  /\ tip \in Nat /\ tip' \in Nat /\ tip <= tip'
         /\ \A t \in TxIds : txs[t] # NULL =>
              /\ txs'[t] # NULL
              /\ txs'[t].outputs = txs[t].outputs /\ txs'[t].terms = txs[t].terms
              /\ \/ txs'[t].height = txs[t].height
                 \/ txs[t].height = 0 /\ txs'[t].height = tip + 1 /\ tip' = tip + 1
<1> DEFINE Stays(t) ==
      /\ txs'[t] # NULL
      /\ txs'[t].outputs = txs[t].outputs /\ txs'[t].terms = txs[t].terms
      /\ \/ txs'[t].height = txs[t].height
         \/ txs[t].height = 0 /\ txs'[t].height = tip + 1 /\ tip' = tip + 1
<1>1. tip \in Nat /\ \A t \in TxIds : txs[t] # NULL => txs[t] \in Payment
  BY DEF TypeOK
<1>2. CASE txs' = txs /\ tip' = tip
  BY <1>1, <1>2
<1>3. ASSUME NEW t \in TxIds, NEW terms \in book, NEW n \in 1..MaxOutputs,
             NEW outputs \in [1..n -> Values], Pay(t, terms, outputs)
      PROVE  tip' = tip /\ \A x \in TxIds : txs[x] # NULL => Stays(x)
  BY <1>3 DEF Pay, TypeOK
<1>4. ASSUME NEW mined \in SUBSET {t \in TxIds : txs[t] # NULL /\ txs[t].height = 0}, Mine(mined)
      PROVE  tip' = tip + 1 /\ \A x \in TxIds : txs[x] # NULL => Stays(x)
  <2>1. tip' = tip + 1 /\ tip + 1 \in 0..MaxHeight
    BY <1>1, <1>4, Numbers DEF Mine, TypeOK
  <2>2. ASSUME NEW x \in TxIds, txs[x] # NULL PROVE Stays(x)
    <3>1. txs[x] \in Payment
      BY <1>1, <2>2
    <3>2. CASE x \notin mined
      BY <1>4, <2>2, <3>2 DEF Mine
    <3>3. CASE x \in mined
      <4>1. txs'[x] = [txs[x] EXCEPT !.height = tip + 1] /\ txs[x].height = 0
        BY <1>4, <3>3 DEF Mine
      <4>2. /\ txs'[x] \in Payment /\ txs'[x].height = tip + 1
            /\ txs'[x].outputs = txs[x].outputs /\ txs'[x].terms = txs[x].terms
        BY <2>1, <3>1, <4>1 DEF Payment
      <4> QED
        BY <2>1, <4>1, <4>2, NotNull
    <3> QED
      BY <3>2, <3>3
  <2> QED
    BY <2>1, <2>2
<1> QED
  BY <1>1, <1>2, <1>3, <1>4, ChainSteps

-----------------------------------------------------------------------------
(* What a status run has read stays true of its payments.                  *)
LEMMA ReadsNext == TypeOK /\ ReadsInv /\ [Next]_vars => ReadsInv'
<1> SUFFICES ASSUME TypeOK, ReadsInv, [Next]_vars PROVE ReadsInv'
  OBVIOUS
<1> USE NotNull
<1> DEFINE Read(u) ==
      /\ txs'[u.outpoint.tx] # NULL /\ u.outpoint.vout \in DOMAIN txs'[u.outpoint.tx].outputs
      /\ u.value = txs'[u.outpoint.tx].outputs[u.outpoint.vout]
      /\ u.height \in {0, txs'[u.outpoint.tx].height}
    Reads(r) ==
      r # NULL => /\ r.at = "deposits" => r.height <= tip'
                  /\ \A u \in r.utxos : Read(u)
<1>1. Reads(run') => ReadsInv'
  BY DEF ReadsInv, Paid, ValueOf, HeightOf
<1>2. ASSUME NEW u \in UtxoInfo, Paid(u.outpoint), u.value = ValueOf(u.outpoint),
             u.height \in {0, HeightOf(u.outpoint)}
      PROVE  Read(u)
  <2>1. u.outpoint.tx \in TxIds
    BY DEF UtxoInfo, OutPoint
  <2> QED
    BY <1>2, <2>1, PaymentsStay DEF Paid, ValueOf, HeightOf
<1>3. Reads(run)
  <2> SUFFICES ASSUME run # NULL PROVE Reads(run)
    OBVIOUS
  <2>1. run \in StatusRun
    BY DEF TypeOK
  <2>2. \A u \in run.utxos : Read(u)
    BY <1>2, <2>1 DEF ReadsInv, StatusRun
  <2>3. run.at = "deposits" => run.height <= tip'
    BY <2>1, PaymentsStay DEF ReadsInv, StatusRun
  <2> QED
    BY <2>2, <2>3
<1>4. CASE run' \in {run, NULL}
  BY <1>1, <1>3, <1>4
<1>5. ASSUME NEW terms \in book, StartStatus(terms) PROVE ReadsInv'
  BY <1>1, <1>5 DEF StartStatus
<1>6. CASE ReadUtxos
  <2>1. run \in StatusRun
    BY <1>6 DEF ReadUtxos, TypeOK
  <2>2. PICK answer \in {Unspent(run.terms), {}} :
          run' = [run EXCEPT !.at = "height",
                    !.utxos = {[outpoint |-> o, value |-> ValueOf(o), height |-> HeightOf(o)] :
                                 o \in answer}]
    BY <1>6 DEF ReadUtxos
  <2>3. \A o \in answer : o \in OutPoint /\ Paid(o)
    BY DEF Unspent, Funded
  <2>4. ASSUME NEW o \in answer
        PROVE  Read([outpoint |-> o, value |-> ValueOf(o), height |-> HeightOf(o)])
    <3>1. [outpoint |-> o, value |-> ValueOf(o), height |-> HeightOf(o)] \in UtxoInfo
      BY <2>3, PaymentType DEF UtxoInfo
    <3> QED
      BY <1>2, <2>3, <3>1
  <2>5. /\ run'.at = "height"
        /\ run'.utxos = {[outpoint |-> o, value |-> ValueOf(o), height |-> HeightOf(o)] : o \in answer}
    BY <2>1, <2>2 DEF StatusRun
  <2> QED
    BY <1>1, <2>4, <2>5
<1>7. CASE ReadHeight
  <2>1. run \in StatusRun /\ tip \in Nat /\ tip' = tip
    BY <1>7 DEF ReadHeight, TypeOK, chain
  <2>2. CASE run' = [run EXCEPT !.at = "deposits", !.height = tip]
    <3>1. run'.height = tip /\ run'.utxos = run.utxos
      BY <2>1, <2>2 DEF StatusRun
    <3>2. \A u \in run.utxos : Read(u)
      BY <1>3, <1>7 DEF ReadHeight
    <3> QED
      BY <1>1, <2>1, <3>1, <3>2
  <2> QED
    BY <1>4, <1>7, <2>2 DEF ReadHeight
<1> QED
  <2>1. CASE UNCHANGED vars
    BY <1>4, <2>1 DEF vars
  <2>2. CASE ReadDeposits \/ Broadcast
    BY <1>4, <2>2 DEF ReadDeposits, Broadcast
  <2>3. ASSUME NEW args \in Arguments, Sign(args) PROVE ReadsInv'
    BY <1>4, <2>3 DEF Sign
  <2>4. ASSUME NEW c \in CitreaAddrs, NEW r \in RecoveryAddrs, StartDeposit(c, r) PROVE ReadsInv'
    BY <1>4, <2>4 DEF StartDeposit
  <2>5. ASSUME NEW params \in Parameters, EditConfig(params) PROVE ReadsInv'
    BY <1>4, <2>5 DEF EditConfig
  <2>6. ASSUME NEW t \in TxIds, NEW terms \in book, NEW n \in 1..MaxOutputs,
               NEW outputs \in [1..n -> Values], Pay(t, terms, outputs)
        PROVE  ReadsInv'
    BY <1>4, <2>6 DEF Pay
  <2>7. ASSUME NEW mined \in SUBSET {t \in TxIds : txs[t] # NULL /\ txs[t].height = 0}, Mine(mined)
        PROVE  ReadsInv'
    BY <1>4, <2>7 DEF Mine
  <2>8. ASSUME NEW o \in OutPoint, Move(o) PROVE ReadsInv'
    BY <1>4, <2>8 DEF Move
  <2> QED
    BY <1>5, <1>6, <1>7, <2>1, <2>2, <2>3, <2>4, <2>5, <2>6, <2>7, <2>8 DEF Next
-----------------------------------------------------------------------------
(* What it has printed stays true while the chain grows.                   *)
LEMMA AdviceNext == TypeOK /\ ReadsInv /\ AdviceInv /\ [Next]_vars => AdviceInv'
<1> SUFFICES ASSUME TypeOK, ReadsInv, AdviceInv, [Next]_vars PROVE AdviceInv'
  OBVIOUS
<1> USE NotNull
<1> DEFINE
  Told(a, payments, now) ==
    LET payment == payments[a.deposit.tx]
    IN /\ payment # NULL /\ a.deposit.vout \in DOMAIN payment.outputs /\ a.height <= now
       /\ payment.height # 0 /\ payment.height <= a.height =>
            a.height + a.remaining >= payment.height + a.config.delay
       /\ a.remaining = 0 /\ a.config.delay # 0 =>
            payment.height # 0 /\ a.height >= payment.height + a.config.delay
       /\ Len(payment.outputs) = 1 =>
            a.outpoint = a.deposit /\ a.amount = payment.outputs[a.deposit.vout]
<1>1. ASSUME NEW a \in Advice, Told(a, txs, tip) PROVE Told(a, txs', tip')
  <2>1. a.deposit.tx \in TxIds /\ a.height \in Nat
    BY DEF Advice, OutPoint
  <2> QED
    BY <1>1, <2>1, PaymentsStay
<1>2. \A a \in advice : Told(a, txs, tip)
  BY DEF AdviceInv, Paid, ValueOf, HeightOf
<1>3. (\A a \in advice' : Told(a, txs, tip)) => AdviceInv'
  <2>1. advice' \subseteq Advice
    BY TypeNext DEF TypeOK
  <2>2. (\A a \in advice' : Told(a, txs', tip')) => AdviceInv'
    BY DEF AdviceInv, Paid, ValueOf, HeightOf
  <2> QED
    BY <1>1, <2>1, <2>2
<1>4. CASE advice' \in {advice, {}}
  BY <1>2, <1>3, <1>4
<1>5. CASE ReadHeight
  <2>1. run \in StatusRun /\ tip \in Nat
    BY <1>5 DEF ReadHeight, TypeOK
  <2>2. ASSUME NEW u \in run.utxos PROVE Told(IncorrectAdvice(run, u), txs, tip)
    <3>1. /\ u.outpoint \in OutPoint /\ u.value \in Values /\ u.height \in Nat
          /\ run.config \in Parameters
      BY <2>1 DEF StatusRun, UtxoInfo
    <3>2. /\ Paid(u.outpoint) /\ u.value = ValueOf(u.outpoint)
          /\ u.height \in {0, HeightOf(u.outpoint)}
      BY <1>5 DEF ReadHeight, ReadsInv
    <3>3. HeightOf(u.outpoint) \in Nat /\ run.config.delay \in Nat
      BY <3>1, <3>2, PaymentType, Numbers
    <3> DEFINE h == HeightOf(u.outpoint)
               remaining == Remaining(u.height, TRUE, run.config, tip)
               a == IncorrectAdvice(run, u)
    <3>4. /\ a.deposit = u.outpoint /\ a.outpoint = u.outpoint /\ a.amount = u.value
          /\ a.config = run.config /\ a.height = tip /\ a.remaining = remaining
      BY DEF IncorrectAdvice
    <3>5. /\ u.height # 0 => tip + remaining >= u.height + run.config.delay
          /\ u.height = 0 => remaining = run.config.delay
          /\ remaining = 0 /\ run.config.delay # 0 =>
               u.height # 0 /\ tip >= u.height + run.config.delay
      BY <2>1, <3>1, CountdownIs
    <3>6. h \in Nat /\ run.config.delay \in Nat /\ u.height \in {0, h}
      BY <3>2, <3>3
    <3> HIDE DEF h, remaining
    <3>7. h # 0 /\ h <= tip => tip + remaining >= h + run.config.delay
      BY <2>1, <3>5, <3>6
    <3>8. remaining = 0 /\ run.config.delay # 0 => h # 0 /\ tip >= h + run.config.delay
      BY <3>5, <3>6
    <3>9. h = txs[u.outpoint.tx].height
      BY DEF h, HeightOf
    <3> HIDE DEF a
    <3>10. Told(a, txs, tip)
      BY <2>1, <3>2, <3>4, <3>7, <3>8, <3>9 DEF Paid, ValueOf
    <3> QED
      BY <3>10 DEF a
  <2> QED
    BY <1>3, <1>4, <1>5, <2>2 DEF ReadHeight
<1>6. CASE ReadDeposits
  <2>1. run \in StatusRun /\ run.height <= tip
    BY <1>6 DEF ReadDeposits, ReadsInv, TypeOK
  <2>2. ASSUME NEW o \in Funded, NEW found, NEW a \in ListedAdvice(run, o, found)
        PROVE  Told(a, txs, tip)
    <3>1. o \in OutPoint /\ Paid(o)
      BY DEF Funded
    <3>2. PICK u \in run.utxos :
            /\ u.outpoint.tx = o.tx /\ u.height # 0 /\ a.amount = u.value
            /\ run.height + a.remaining >= u.height + run.config.delay
            /\ a.remaining = 0 => run.height >= u.height + run.config.delay
      BY <2>1, <3>1, ListedAdviceIs
    <3> /\ a.deposit = o /\ a.config = run.config /\ a.height = run.height
        /\ a.outpoint \in {o, [o EXCEPT !.vout = 1]}
      BY <2>1, <3>1, ListedAdviceIs
    <3>3. /\ u.outpoint \in OutPoint /\ u.height \in Nat /\ run.config \in Parameters
          /\ run.height \in Nat /\ run.config.delay \in Nat
      BY <2>1, Numbers DEF StatusRun, UtxoInfo
    <3>4. /\ Paid(u.outpoint) /\ u.value = ValueOf(u.outpoint) /\ u.height = HeightOf(o)
      <4>1. run # NULL
        BY <1>6 DEF ReadDeposits
      <4>2. Paid(u.outpoint) /\ u.value = ValueOf(u.outpoint) /\ u.height \in {0, HeightOf(u.outpoint)}
        BY <4>1 DEF ReadsInv
      <4>3. HeightOf(u.outpoint) = HeightOf(o)
        BY <3>2 DEF HeightOf
      <4> QED
        BY <3>2, <4>2, <4>3
    <3>5. /\ a.height + a.remaining >= HeightOf(o) + a.config.delay
          /\ a.remaining = 0 /\ a.config.delay # 0 => a.height >= HeightOf(o) + a.config.delay
      BY <3>2, <3>3, <3>4
    <3>6. ASSUME Len(txs[o.tx].outputs) = 1 PROVE a.outpoint = o /\ a.amount = ValueOf(o)
      <4>1. o.vout = 1 /\ u.outpoint.vout = 1
        <5>1. o.vout \in 1..Len(txs[o.tx].outputs)
          BY <3>1, PaymentType
        <5>2. u.outpoint.vout \in 1..Len(txs[o.tx].outputs)
          BY <3>2, <3>3, <3>4, PaymentType
        <5> QED
          BY <3>6, <5>1, <5>2
      <4>2. o = [o EXCEPT !.vout = 1] /\ ValueOf(u.outpoint) = ValueOf(o)
        BY <3>1, <3>2, <4>1 DEF OutPoint, ValueOf
      <4> QED
        BY <3>2, <3>4, <4>2
    <3> QED
      BY <2>1, <3>1, <3>2, <3>4, <3>5, <3>6 DEF Paid, ValueOf, HeightOf
  <2>3. PICK listed \in SUBSET Funded : \E found \in SUBSET listed :
          advice' = advice \cup UNION {ListedAdvice(run, o, found) : o \in listed}
    BY <1>6 DEF ReadDeposits
  <2>4. PICK found \in SUBSET listed :
          advice' = advice \cup UNION {ListedAdvice(run, o, found) : o \in listed}
    BY <2>3
  <2>5. ASSUME NEW o \in listed, NEW a \in ListedAdvice(run, o, found)
        PROVE  Told(a, txs, tip)
    BY <2>2
  <2> QED
    BY <1>2, <1>3, <2>4, <2>5
<1> QED
  <2>1. CASE UNCHANGED vars
    BY <1>4, <2>1 DEF vars
  <2>2. CASE ReadUtxos \/ Broadcast
    BY <1>4, <2>2 DEF ReadUtxos, Broadcast
  <2>3. ASSUME NEW args \in Arguments, Sign(args) PROVE AdviceInv'
    BY <1>4, <2>3 DEF Sign
  <2>4. ASSUME NEW c \in CitreaAddrs, NEW r \in RecoveryAddrs, StartDeposit(c, r) PROVE AdviceInv'
    BY <1>4, <2>4 DEF StartDeposit
  <2>5. ASSUME NEW params \in Parameters, EditConfig(params) PROVE AdviceInv'
    BY <1>4, <2>5 DEF EditConfig
  <2>6. ASSUME NEW t \in TxIds, NEW terms \in book, NEW n \in 1..MaxOutputs,
               NEW outputs \in [1..n -> Values], Pay(t, terms, outputs)
        PROVE  AdviceInv'
    BY <1>4, <2>6 DEF Pay
  <2>7. ASSUME NEW mined \in SUBSET {t \in TxIds : txs[t] # NULL /\ txs[t].height = 0}, Mine(mined)
        PROVE  AdviceInv'
    BY <1>4, <2>7 DEF Mine
  <2>8. ASSUME NEW o \in OutPoint, Move(o) PROVE AdviceInv'
    BY <1>4, <2>8 DEF Move
  <2>9. ASSUME NEW terms \in book, StartStatus(terms) PROVE AdviceInv'
    BY <1>4, <2>9 DEF StartStatus
  <2> QED
    BY <1>5, <1>6, <2>1, <2>2, <2>3, <2>4, <2>5, <2>6, <2>7, <2>8, <2>9 DEF Next

LEMMA AdviceHolds == Spec => [](TypeOK /\ AdviceInv)
<1>1. Init => ReadsInv /\ AdviceInv
  BY DEF Init, ReadsInv, AdviceInv
<1> QED
  BY <1>1, TypeInit, TypeNext, ReadsNext, AdviceNext, PTL DEF Spec

(* Nobody who waits the blocks a status run told him waits too short.      *)
THEOREM NobodyWaitsTooShort == Spec => []AdviceIsTimely
<1>1. TypeOK /\ AdviceInv => AdviceIsTimely
  <2> SUFFICES ASSUME TypeOK, AdviceInv, NEW a \in advice,
                      Agrees(a.config, TermsOf(a.deposit)), tip >= a.height + a.remaining,
                      HeightOf(a.deposit) # 0, HeightOf(a.deposit) <= a.height
               PROVE  tip + 1 >= HeightOf(a.deposit) + TermsOf(a.deposit).delay
    BY DEF AdviceIsTimely
  <2>1. a \in Advice /\ tip \in Nat
    BY DEF TypeOK
  <2>2. a.deposit \in OutPoint /\ a.remaining \in Nat /\ a.height \in Nat /\ a.config \in Parameters
    BY <2>1 DEF Advice
  <2>3. Paid(a.deposit) /\ a.height + a.remaining >= HeightOf(a.deposit) + a.config.delay
    BY DEF AdviceInv
  <2>4. HeightOf(a.deposit) \in Nat /\ a.config.delay \in Nat
    BY <2>2, <2>3, PaymentType, Numbers
  <2>5. TermsOf(a.deposit).delay = a.config.delay
    BY DEF Agrees
  <2> QED
    BY <2>1, <2>2, <2>3, <2>4, <2>5
<1> QED
  BY <1>1, AdviceHolds, PTL

(* A payment was mined in a block that there is.                           *)
LEMMA MinedNext == TypeOK /\ MinedInv /\ [Next]_vars => MinedInv'
<1> SUFFICES ASSUME TypeOK, MinedInv, [Next]_vars PROVE MinedInv'
  OBVIOUS
<1>1. tip \in Nat /\ txs \in [TxIds -> Payment \cup {NULL}]
  BY DEF TypeOK
<1>2. CASE UNCHANGED <<tip, txs>>
  BY <1>2 DEF MinedInv
<1>3. ASSUME NEW t \in TxIds, NEW terms \in book, NEW n \in 1..MaxOutputs,
             NEW outputs \in [1..n -> Values], Pay(t, terms, outputs)
      PROVE  MinedInv'
  BY <1>1, <1>3 DEF Pay, MinedInv
<1>4. ASSUME NEW mined \in SUBSET {t \in TxIds : txs[t] # NULL /\ txs[t].height = 0}, Mine(mined)
      PROVE  MinedInv'
  <2>1. tip' = tip + 1
    BY <1>4 DEF Mine
  <2>2. ASSUME NEW t \in TxIds, txs'[t] # NULL PROVE txs'[t].height <= tip + 1
    <3>1. CASE t \in mined
      <4>1. txs'[t] = [txs[t] EXCEPT !.height = tip + 1] /\ txs[t] \in Payment
        BY <1>1, <1>4, <3>1 DEF Mine
      <4>2. txs'[t].height = tip + 1
        BY <4>1 DEF Payment
      <4> QED
        BY <1>1, <4>2
    <3>2. CASE t \notin mined
      <4>1. txs'[t] = txs[t]
        BY <1>4, <3>2 DEF Mine
      <4>2. txs[t].height <= tip /\ txs[t] \in Payment
        BY <1>1, <2>2, <4>1 DEF MinedInv
      <4>3. txs[t].height \in Nat
        BY <4>2, ConstantsAssumption DEF Payment
      <4> QED
        BY <1>1, <4>1, <4>2, <4>3
    <3> QED
      BY <3>1, <3>2
  <2> QED
    BY <2>1, <2>2 DEF MinedInv
<1> QED
  <2>1. CASE UNCHANGED vars
    BY <1>2, <2>1 DEF vars, chain
  <2>2. CASE ReadUtxos \/ ReadHeight \/ ReadDeposits \/ Broadcast
    BY <1>2, <2>2 DEF ReadUtxos, ReadHeight, ReadDeposits, Broadcast, chain
  <2>3. ASSUME NEW terms \in book, StartStatus(terms) PROVE MinedInv'
    BY <1>2, <2>3 DEF StartStatus, chain
  <2>4. ASSUME NEW args \in Arguments, Sign(args) PROVE MinedInv'
    BY <1>2, <2>4 DEF Sign, chain
  <2>5. ASSUME NEW c \in CitreaAddrs, NEW r \in RecoveryAddrs, StartDeposit(c, r) PROVE MinedInv'
    BY <1>2, <2>5 DEF StartDeposit, chain
  <2>6. ASSUME NEW params \in Parameters, EditConfig(params) PROVE MinedInv'
    BY <1>2, <2>6 DEF EditConfig, chain
  <2>7. ASSUME NEW o \in OutPoint, Move(o) PROVE MinedInv'
    BY <1>2, <2>7 DEF Move
  <2> QED
    BY <1>3, <1>4, <2>1, <2>2, <2>3, <2>4, <2>5, <2>6, <2>7 DEF Next

LEMMA MinedHolds == Spec => [](TypeOK /\ MinedInv)
<1>1. Init => MinedInv
  BY DEF Init, MinedInv
<1> QED
  BY <1>1, TypeInit, TypeNext, MinedNext, PTL DEF Spec

(* The printed command collects a deposit that pays its address once, if   *)
(* the configuration is the one it was started with: whatever blocks,      *)
(* payments and edits came between its three reads and after them.  Only   *)
(* of a delay of 0 it takes that the payment is mined.                     *)
THEOREM PlainCommandsCollect == Spec => []PlainCommandCollects
<1>1. TypeOK /\ AdviceInv /\ MinedInv => PlainCommandCollects
  <2> SUFFICES ASSUME TypeOK, AdviceInv, MinedInv, NEW a \in advice,
                      Agrees(a.config, TermsOf(a.deposit)),
                      Len(txs[a.deposit.tx].outputs) = 1,
                      a.config.delay # 0 \/ HeightOf(a.deposit) # 0,
                      a.remaining = 0, a.deposit \notin spent
               PROVE  Collects(SignedTx(CommandArguments(a), a.config), a.deposit)
    BY DEF PlainCommandCollects, CommandCollects
  <2>1. a \in Advice /\ tip \in Nat
    BY DEF TypeOK
  <2>2. a.deposit \in OutPoint /\ a.deposit.tx \in TxIds /\ a.height \in Nat /\ a.config \in Parameters
    BY <2>1 DEF Advice, OutPoint
  <2>3. Paid(a.deposit) /\ a.height <= tip /\ a.outpoint = a.deposit /\ a.amount = ValueOf(a.deposit)
    BY DEF AdviceInv
  <2>4. /\ HeightOf(a.deposit) \in Nat /\ TermsOf(a.deposit) \in Terms
        /\ a.config.delay \in Nat
    BY <2>2, <2>3, PaymentType, Numbers
  <2>5. a.config.delay # 0 =>
          HeightOf(a.deposit) # 0 /\ a.height >= HeightOf(a.deposit) + a.config.delay
    BY <2>4 DEF AdviceInv
  <2>6. TermsFor(CommandArguments(a), a.config) = txs[a.deposit.tx].terms
    BY <2>4 DEF TermsFor, CommandArguments, Agrees, TermsOf, Terms
  <2>7. HeightOf(a.deposit) <= tip
    BY <2>2, <2>3 DEF MinedInv, Paid, HeightOf
  <2>8. HeightOf(a.deposit) # 0 /\ tip + 1 >= HeightOf(a.deposit) + a.config.delay
    BY <2>1, <2>2, <2>3, <2>4, <2>5, <2>7
  <2>9. a.deposit \in Funded \ spent
    BY <2>2, <2>3 DEF Funded
  <2>10. a.config.delay = txs[a.deposit.tx].terms.delay
    BY DEF Agrees, TermsOf
  <2> QED
    BY <2>3, <2>4, <2>6, <2>8, <2>9, <2>10 DEF Collects, SignedTx, CommandArguments
<1> QED
  BY <1>1, AdviceHolds, MinedHolds, PTL
-----------------------------------------------------------------------------
(* A recovery transaction waits the delay of its own script.               *)
LEMMA SignedNext == SignedInv /\ [Next]_vars => SignedInv'
<1> SUFFICES ASSUME SignedInv, [Next]_vars PROVE SignedInv'
  OBVIOUS
<1>1. ASSUME signed' = signed PROVE SignedInv'
  BY <1>1 DEF SignedInv
<1>2. ASSUME NEW args \in Arguments, Sign(args) PROVE SignedInv'
  BY <1>2 DEF Sign, SignedTx, TermsFor, SignedInv
<1>3. CASE UNCHANGED vars
  BY <1>1, <1>3 DEF vars
<1>4. CASE ReadUtxos \/ ReadHeight \/ ReadDeposits \/ Broadcast
  BY <1>1, <1>4 DEF ReadUtxos, ReadHeight, ReadDeposits, Broadcast
<1>5. ASSUME NEW terms \in book, StartStatus(terms) PROVE SignedInv'
  BY <1>1, <1>5 DEF StartStatus
<1>6. ASSUME NEW c \in CitreaAddrs, NEW r \in RecoveryAddrs, StartDeposit(c, r) PROVE SignedInv'
  BY <1>1, <1>6 DEF StartDeposit
<1>7. ASSUME NEW params \in Parameters, EditConfig(params) PROVE SignedInv'
  BY <1>1, <1>7 DEF EditConfig
<1>8. ASSUME NEW t \in TxIds, NEW terms \in book, NEW n \in 1..MaxOutputs,
             NEW outputs \in [1..n -> Values], Pay(t, terms, outputs)
      PROVE  SignedInv'
  BY <1>1, <1>8 DEF Pay
<1>9. ASSUME NEW mined \in SUBSET {t \in TxIds : txs[t] # NULL /\ txs[t].height = 0}, Mine(mined)
      PROVE  SignedInv'
  BY <1>1, <1>9 DEF Mine
<1>10. ASSUME NEW o \in OutPoint, Move(o) PROVE SignedInv'
  BY <1>1, <1>10 DEF Move
<1> QED
  BY <1>2, <1>3, <1>4, <1>5, <1>6, <1>7, <1>8, <1>9, <1>10 DEF Next

(* A recovery transaction that verifies for a deposit collects it.         *)
THEOREM VerifiedRecoveriesCollect == Spec => []VerifiedCollects
<1>1. Init => SignedInv
  BY DEF Init, SignedInv
<1>2. TypeOK /\ SignedInv => VerifiedCollects
  <2> SUFFICES ASSUME TypeOK, SignedInv, NEW o \in Funded \ spent,
                      signed # NULL, VerifiesFor(o), config.delay = TermsOf(o).delay, Old(o)
               PROVE  Collects(signed, o)
    BY DEF VerifiedCollects
  <2>1. TermsOf(o) \in Terms
    BY PaymentType DEF Funded
  <2>2. signed.terms = TermsOf(o)
    BY <2>1 DEF VerifiesFor, Verifies, TermsFor, ArgumentsOf, Terms
  <2>3. signed.outpoint = o /\ signed.amount = ValueOf(o)
    BY DEF VerifiesFor, Verifies, ArgumentsOf
  <2>4. signed.sequence = TermsOf(o).delay /\ TermsOf(o).delay \in Nat
    BY <2>1, <2>2, ConstantsAssumption DEF SignedInv, Terms
  <2> QED
    BY <2>2, <2>3, <2>4 DEF Collects, Old, TermsOf
<1> QED
  BY <1>1, <1>2, TypeCorrect, SignedNext, PTL DEF Spec
=============================================================================
