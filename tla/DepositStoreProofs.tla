------------------------- MODULE DepositStoreProofs -------------------------
(***************************************************************************)
(* Theorems about DepositStore for every set of runs, networks, addresses  *)
(* and parameters, and any number of commands.                             *)
(***************************************************************************)
EXTENDS DepositStore, TLAPS

LEMMA NewRecordType ==
  ASSUME TypeOK, started < MaxCommands, NEW n \in Networks,
         NEW citrea \in CitreaAddrs, NEW recovery \in RecoveryAddrs
  PROVE  /\ NewRecord(n, citrea, recovery) \in Record
         /\ TermsOf(NewRecord(n, citrea, recovery)) = NewRecord(n, citrea, recovery).address
<1>1. config[n].agg \in Keys /\ config[n].delay \in Delays /\ started + 1 \in 1..MaxCommands
  BY ConstantsAssumption DEF TypeOK, Parameters
<1>2. DepositAddress(citrea, recovery, config[n]) \in Terms
  BY <1>1 DEF DepositAddress, Terms
<1>3. QED
  BY <1>1, <1>2 DEF NewRecord, Record, TermsOf, DepositAddress

LEMMA TermsType ==
  ASSUME NEW r \in Record
  PROVE  TermsOf(r) \in Terms /\ r.address \in Terms /\ r.network \in Networks
  BY DEF Record, TermsOf, Terms

(* The address the backend computes for a pending record.                  *)
LEMMA AnswerType ==
  ASSUME TypeOK, NEW r \in Record
  PROVE  DepositAddress(r.citrea, r.recovery, backend[r.network]) \in Terms
  BY DEF TypeOK, Record, DepositAddress, Terms, Parameters

LEMMA PendingHasRecord ==
  ASSUME TypeOK, NEW p \in Processes, result[p] \in Pending
  PROVE  data[p] \in Record
  BY DEF TypeOK, Pending

LEMMA TypeInit == Init => TypeOK
  BY ConstantsAssumption DEF Init, TypeOK

LEMMA TypeNext == TypeOK /\ [Next]_vars => TypeOK'
<1> SUFFICES ASSUME TypeOK, [Next]_vars PROVE TypeOK'
  OBVIOUS
<1>1. ASSUME NEW p \in Processes, NEW n \in Networks, NEW citrea \in CitreaAddrs,
             NEW recovery \in RecoveryAddrs, NEW purpose \in Purposes,
             Start(p, n, citrea, recovery, purpose)
      PROVE  TypeOK'
  <2>1. NewRecord(n, citrea, recovery) \in Record
    BY <1>1, NewRecordType DEF Start
  <2>2. started' \in 0..MaxCommands
    BY <1>1, ConstantsAssumption DEF Start, TypeOK
  <2>3. QED
    BY <1>1, <2>1, <2>2 DEF Start, Go, TypeOK, Pending, Outcomes
<1>2. ASSUME NEW p \in Processes, CreateAccount(p) PROVE TypeOK'
  <2>1. data[p] \in Record
    BY <1>2, PendingHasRecord DEF CreateAccount, Pending
  <2>2. PICK answer \in Terms : answer = DepositAddress(data[p].citrea, data[p].recovery,
                                                        backend[data[p].network])
    BY <2>1, AnswerType
  <2>3. accounts' \in [Networks -> SUBSET Terms]
    BY <1>2, <2>2 DEF CreateAccount, TypeOK
  <2>4. result' \in [Processes -> Pending \cup Outcomes \cup {"idle"}]
          /\ \A q \in Processes : q # p => result'[q] = result[q]
    BY <1>2 DEF CreateAccount, Go, TypeOK, Pending, Outcomes
  <2>5. UNCHANGED <<config, backend, rows, data, started>>
    BY <1>2 DEF CreateAccount
  <2>6. QED
    BY <2>1, <2>3, <2>4, <2>5 DEF TypeOK
<1>3. ASSUME NEW p \in Processes, CheckExists(p) PROVE TypeOK'
  BY <1>3, PendingHasRecord DEF CheckExists, Go, TypeOK, Pending, Outcomes
<1>4. ASSUME NEW p \in Processes, Insert(p) PROVE TypeOK'
  BY <1>4, PendingHasRecord DEF Insert, Go, TypeOK, Pending, Outcomes
<1>5. ASSUME NEW p \in Processes, Abort(p) PROVE TypeOK'
  BY <1>5, PendingHasRecord DEF Abort, Go, TypeOK, Pending, Outcomes
<1>6. ASSUME NEW n \in Networks, NEW params \in Parameters, EditConfig(n, params)
      PROVE  TypeOK'
  BY <1>6 DEF EditConfig, TypeOK
<1>7. ASSUME NEW n \in Networks, NEW params \in Parameters, Reconfigure(n, params)
      PROVE  TypeOK'
  BY <1>7 DEF Reconfigure, TypeOK
<1>8. CASE UNCHANGED vars
  BY <1>8 DEF vars, TypeOK
<1>9. QED
  BY <1>1, <1>2, <1>3, <1>4, <1>5, <1>6, <1>7, <1>8 DEF Next, Step

(* Type correctness of "deposit start".                                    *)
THEOREM TypeCorrect == Spec => []TypeOK
  BY TypeInit, TypeNext, PTL DEF Spec

-----------------------------------------------------------------------------
LEMMA InvInit == Init => StoreInv
  BY DEF Init, StoreInv, RowsTellTheirTerms, GivenAddressIsRecorded, RecordedIsKnown,
         PendingIsKnown, DataTellsItsTerms

(* The table and the accounts only grow, and data changes for one run.     *)
LEMMA InvNext == TypeOK /\ StoreInv /\ [Next]_vars => StoreInv'
<1> SUFFICES ASSUME TypeOK, StoreInv, [Next]_vars PROVE StoreInv'
  OBVIOUS
<1> USE DEF StoreInv
<1>1. ASSUME NEW p \in Processes, NEW n \in Networks, NEW citrea \in CitreaAddrs,
             NEW recovery \in RecoveryAddrs, NEW purpose \in Purposes,
             Start(p, n, citrea, recovery, purpose)
      PROVE  StoreInv'
  <2> DEFINE r == NewRecord(n, citrea, recovery)
  <2>1. r \in Record /\ TermsOf(r) = r.address /\ r.network = n
    BY <1>1, NewRecordType DEF Start, NewRecord
  <2>2. /\ UNCHANGED <<rows, accounts>>
        /\ data' = [data EXCEPT ![p] = r]
        /\ result'[p] \in {"InvalidPurpose", "exists", "account"}
        /\ result'[p] = "exists" => n \in LocalNetworks
        /\ result'[p] = "account" => n \notin LocalNetworks
        /\ \A q \in Processes : q # p => result'[q] = result[q] /\ data'[q] = data[q]
    BY <1>1 DEF Start, Go, TypeOK
  <2>3. data'[p] = r
    BY <2>2 DEF TypeOK
  <2>4. RowsTellTheirTerms' /\ RecordedIsKnown'
    BY <2>2 DEF RowsTellTheirTerms, RecordedIsKnown
  <2>5. GivenAddressIsRecorded' /\ PendingIsKnown' /\ DataTellsItsTerms'
    BY <2>1, <2>2, <2>3 DEF GivenAddressIsRecorded, PendingIsKnown, DataTellsItsTerms
  <2>6. QED
    BY <2>4, <2>5
<1>2. ASSUME NEW p \in Processes, CreateAccount(p) PROVE StoreInv'
  <2>1. data[p] \in Record
    BY <1>2, PendingHasRecord DEF CreateAccount, Pending
  <2>2. PICK answer \in Terms : answer = DepositAddress(data[p].citrea, data[p].recovery,
                                                        backend[data[p].network])
    BY <2>1, AnswerType
  <2>3. /\ UNCHANGED <<rows, data>>
        /\ \A q \in Processes : q # p => result'[q] = result[q]
        /\ result'[p] \in {"exists", "AddressMismatch", "RequestFailed"}
    BY <1>2 DEF CreateAccount, Go, TypeOK
  <2>4. \A n \in Networks : accounts[n] \subseteq accounts'[n]
    BY <1>2, <2>2 DEF CreateAccount, TypeOK
  <2>5. result'[p] = "exists" => data[p].address \in accounts'[data[p].network]
    BY <1>2, <2>1, <2>2, TermsType DEF CreateAccount, Go, TypeOK
  <2>6. \A q \in Processes : result'[q] # "idle" => data[q].network \in Networks
    BY <2>1, <2>3, TermsType DEF TypeOK
  <2>7. \A x \in rows : x.network \in Networks
    BY TermsType DEF TypeOK
  <2>8. RowsTellTheirTerms' /\ GivenAddressIsRecorded' /\ DataTellsItsTerms'
    BY <2>3 DEF RowsTellTheirTerms, GivenAddressIsRecorded, DataTellsItsTerms
  <2>9. RecordedIsKnown'
    BY <2>3, <2>4, <2>7 DEF RecordedIsKnown
  <2>10. PendingIsKnown'
    BY <2>3, <2>4, <2>5, <2>6 DEF PendingIsKnown
  <2>11. QED
    BY <2>8, <2>9, <2>10
<1>3. ASSUME NEW p \in Processes, CheckExists(p) PROVE StoreInv'
  <2>1. /\ UNCHANGED <<rows, data, accounts>>
        /\ \A q \in Processes : q # p => result'[q] = result[q]
        /\ result[p] = "exists" /\ result'[p] \in {"Exists", "insert"}
        /\ result'[p] = "Exists" => DepositExists(data[p])
    BY <1>3 DEF CheckExists, Go, TypeOK
  <2>2. GivenAddressIsRecorded'
    BY <2>1 DEF GivenAddressIsRecorded, DepositExists, RowsTellTheirTerms
  <2>3. QED
    BY <2>1, <2>2 DEF RowsTellTheirTerms, RecordedIsKnown, PendingIsKnown, DataTellsItsTerms
<1>4. ASSUME NEW p \in Processes, Insert(p) PROVE StoreInv'
  <2>1. /\ data[p] \in Record /\ TermsOf(data[p]) = data[p].address
        /\ data[p].network \notin LocalNetworks =>
             data[p].address \in accounts[data[p].network]
    BY <1>4, PendingHasRecord, ConstantsAssumption
       DEF Insert, Pending, DataTellsItsTerms, PendingIsKnown
  <2>2. /\ UNCHANGED <<data, accounts>>
        /\ \A q \in Processes : q # p => result'[q] = result[q]
        /\ result'[p] = "NewlyStored"
        /\ rows' = IF DepositExists(data[p]) THEN rows ELSE rows \cup {data[p]}
    BY <1>4 DEF Insert, Go, TypeOK
  <2>3. RowsTellTheirTerms'
    BY <2>1, <2>2 DEF RowsTellTheirTerms, DepositExists
  <2>4. \E r \in rows' : r.network = data[p].network /\ TermsOf(r) = data[p].address
    BY <2>1, <2>2 DEF RowsTellTheirTerms, DepositExists
  <2>5. rows \subseteq rows'
    BY <2>2
  <2>6. GivenAddressIsRecorded'
    BY <2>2, <2>4, <2>5 DEF GivenAddressIsRecorded
  <2>7. RecordedIsKnown'
    BY <2>1, <2>2 DEF RecordedIsKnown
  <2>8. PendingIsKnown' /\ DataTellsItsTerms'
    BY <2>2 DEF PendingIsKnown, DataTellsItsTerms
  <2>9. QED
    BY <2>3, <2>6, <2>7, <2>8
<1>5. ASSUME NEW p \in Processes, Abort(p) PROVE StoreInv'
  <2>1. /\ UNCHANGED <<rows, data, accounts>>
        /\ \A q \in Processes : q # p => result'[q] = result[q]
        /\ result'[p] = "aborted"
    BY <1>5 DEF Abort, Go, TypeOK
  <2>2. QED
    BY <2>1 DEF RowsTellTheirTerms, GivenAddressIsRecorded, RecordedIsKnown, PendingIsKnown,
                DataTellsItsTerms
<1>6. ASSUME NEW n \in Networks, NEW params \in Parameters,
             EditConfig(n, params) \/ Reconfigure(n, params)
      PROVE  StoreInv'
  BY <1>6 DEF EditConfig, Reconfigure, RowsTellTheirTerms, GivenAddressIsRecorded,
              RecordedIsKnown, PendingIsKnown, DataTellsItsTerms
<1>7. CASE UNCHANGED vars
  BY <1>7 DEF vars, RowsTellTheirTerms, GivenAddressIsRecorded, RecordedIsKnown,
              PendingIsKnown, DataTellsItsTerms
<1>8. QED
  BY <1>1, <1>2, <1>3, <1>4, <1>5, <1>6, <1>7 DEF Next, Step

(* Rows have the terms of their address, one row per address.              *)
THEOREM DetailsAreRight == Spec => []RowsTellTheirTerms
  BY TypeCorrect, InvInit, InvNext, PTL DEF Spec, StoreInv

(* An address the user was given is in the table, whatever other runs,     *)
(* lost requests and changes of the configuration come in between.         *)
THEOREM GivenAddressesAreRecorded == Spec => []GivenAddressIsRecorded
<1>1. StoreInv => GivenAddressIsRecorded
  BY DEF StoreInv
<1>2. QED
  BY <1>1, TypeCorrect, InvInit, InvNext, PTL DEF Spec

(* Funds sent to a recorded address are seen by the bridge.                *)
THEOREM RecordedAddressesAreKnown == Spec => []RecordedIsKnown
<1>1. StoreInv => RecordedIsKnown
  BY DEF StoreInv
<1>2. QED
  BY <1>1, TypeCorrect, InvInit, InvNext, PTL DEF Spec

-----------------------------------------------------------------------------
(* The table and the accounts implement the book of deposits.              *)
THEOREM StoreImplementsBook == Spec => ImplementsBook
<1> DEFINE pages == [n \in Networks |-> {TermsOf(r) : r \in {x \in rows : x.network = n}}]
<1>1. Init => Book!Init
  BY DEF Init, Book!Init
<1>2. ASSUME TypeOK, StoreInv, [Next]_vars PROVE [Book!Next]_(<<pages, accounts>>)
  <2>1. ASSUME NEW p \in Processes, CreateAccount(p)
        PROVE  Book!Next \/ UNCHANGED <<pages, accounts>>
    <3>1. data[p] \in Record /\ data[p].network \in Networks
      BY <1>2, <2>1, PendingHasRecord, TermsType DEF CreateAccount, Pending
    <3>2. PICK n \in Networks : n = data[p].network
      BY <3>1
    <3>3. PICK answer \in Terms : answer = DepositAddress(data[p].citrea, data[p].recovery,
                                                          backend[data[p].network])
      BY <1>2, <3>1, AnswerType
    <3>4. UNCHANGED pages
      BY <2>1 DEF CreateAccount
    <3>5. accounts' = accounts \/ accounts' = [accounts EXCEPT ![n] = @ \cup {answer}]
      BY <2>1, <3>2, <3>3 DEF CreateAccount
    <3>6. n \in Book!Bridged
      BY <1>2, <2>1, <3>2 DEF Book!Bridged, CreateAccount, StoreInv, PendingIsKnown
    <3>7. QED
      BY <3>2, <3>3, <3>4, <3>5, <3>6 DEF Book!Next, Book!Learn
  <2>2. ASSUME NEW p \in Processes, Insert(p)
        PROVE  Book!Next \/ UNCHANGED <<pages, accounts>>
    <3>1. data[p] \in Record /\ data[p].network \in Networks /\ data[p].address \in Terms
            /\ TermsOf(data[p]) = data[p].address
      BY <1>2, <2>2, PendingHasRecord, TermsType, ConstantsAssumption
         DEF Insert, Pending, StoreInv, DataTellsItsTerms
    <3>2. PICK n \in Networks : n = data[p].network
      BY <3>1
    <3>3. PICK t \in Terms : t = data[p].address
      BY <3>1
    <3>4. CASE DepositExists(data[p])
      BY <2>2, <3>4 DEF Insert
    <3>5. CASE ~DepositExists(data[p])
      <4>1. rows' = rows \cup {data[p]} /\ accounts' = accounts
        BY <2>2, <3>5 DEF Insert
      <4>2. ASSUME NEW m \in Networks
            PROVE  pages'[m] = IF m = n THEN pages[m] \cup {t} ELSE pages[m]
        BY <3>1, <3>2, <3>3, <4>1
      <4>3. pages' = [pages EXCEPT ![n] = @ \cup {t}]
        BY <4>2
      <4>4. n \in Book!Bridged => t \in accounts[n]
        BY <1>2, <2>2, <3>2, <3>3 DEF Book!Bridged, Insert, StoreInv, PendingIsKnown
      <4>5. Book!Record(n, t)
        BY <4>1, <4>3, <4>4 DEF Book!Record
      <4>6. QED
        BY <4>5 DEF Book!Next
    <3>6. QED
      BY <3>4, <3>5
  <2>3. ASSUME ~ \E p \in Processes : CreateAccount(p) \/ Insert(p)
        PROVE  UNCHANGED <<pages, accounts>>
    <3>1. UNCHANGED <<rows, accounts>>
      BY <1>2, <2>3 DEF Next, Step, Start, CheckExists, Abort, EditConfig, Reconfigure, vars
    <3>2. QED
      BY <3>1
  <2>4. QED
    BY <2>1, <2>2, <2>3
<1>3. QED
  BY <1>1, <1>2, TypeCorrect, InvInit, InvNext, PTL DEF Spec, ImplementsBook, Book!Spec
=============================================================================
