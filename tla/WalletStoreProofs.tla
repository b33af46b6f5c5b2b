------------------------- MODULE WalletStoreProofs --------------------------
(***************************************************************************)
(* Theorems about WalletStore for every set of processes, homes, labels,   *)
(* keys and passphrases, and any number of commands.                       *)
(***************************************************************************)
EXTENDS WalletStore, TLAPS

(* A step that is not the last access of its command has one after it, and *)
(* every command starts at a step: the program counter stays in range.     *)
LEMMA StepsInRange ==
  ASSUME NEW op \in Operations
  PROVE  /\ 1 \in DOMAIN Steps[op]
         /\ DOMAIN Steps[op] \subseteq 1..10
         /\ \A i \in DOMAIN Steps[op] :
              Steps[op][i] \notin {"insert", "write", "load"} => i + 1 \in DOMAIN Steps[op]
<1>1. CASE op \in {"create", "import_private_key", "backup"}
  BY <1>1 DEF Steps
<1>2. CASE op = "import_mnemonic"
  BY <1>2 DEF Steps
<1>3. CASE op = "import_file"
  BY <1>3 DEF Steps
<1>4. CASE op \in {"show_mnemonic", "show_key"}
  BY <1>4 DEF Steps
<1>5. QED
  BY <1>1, <1>2, <1>3, <1>4 DEF Operations

(* Where in its command each access can be.                                *)
LEMMA StepPlaces ==
  ASSUME NEW op \in Operations, NEW i \in DOMAIN Steps[op]
  PROVE  /\ Steps[op][i] \in {"label", "addr"} =>
              op \in Storing /\ (op = "import_file" => i \in {2, 3, 5, 6, 8, 9})
         /\ Steps[op][i] = "addr" /\ op = "import_file" => i \in {3, 6, 9}
         /\ Steps[op][i] = "parse" => op = "import_file" /\ i \in {1, 4}
         /\ Steps[op][i] = "decrypt" => op = "import_file" /\ i = 7
         /\ Steps[op][i] = "insert" => op \in Storing /\ (op = "import_file" => i = 10)
         /\ Steps[op][i] = "exists" => op \notin Storing /\ i \in {1, 2}
         /\ Steps[op][i] = "read" => op = "backup" /\ i = 3
         /\ Steps[op][i] = "truncate" => op = "backup" /\ i = 4
         /\ Steps[op][i] = "write" => op = "backup" /\ i = 5
         /\ Steps[op][i] = "load" => op \in {"show_mnemonic", "show_key"}
<1>1. CASE op \in {"create", "import_private_key", "backup"}
  BY <1>1 DEF Steps, Storing
<1>2. CASE op = "import_mnemonic"
  BY <1>2 DEF Steps, Storing
<1>3. CASE op = "import_file"
  BY <1>3 DEF Steps, Storing
<1>4. CASE op \in {"show_mnemonic", "show_key"}
  BY <1>4 DEF Steps, Storing
<1>5. QED
  BY <1>1, <1>2, <1>3, <1>4 DEF Operations

(* What a running process knows at an access: its command, and where it is.*)
LEMMA Here ==
  ASSUME TypeOK, NEW p \in Processes, NEW step, Running(p, step)
  PROVE  /\ cmd[p] \in Command /\ cmd[p].op \in Operations
         /\ at[p] \in DOMAIN Steps[cmd[p].op] /\ Steps[cmd[p].op][at[p]] = step
         /\ at[p] \in 1..10
         /\ HoldsRow(p) => data[p] \in Row
<1>1. cmd[p] \in Command /\ at[p] \in DOMAIN Steps[cmd[p].op]
        /\ (HoldsRow(p) => data[p] \in Row)
  BY DEF TypeOK, ProcessOK, Running
<1>2. cmd[p].op \in Operations
  BY <1>1 DEF Command
<1>3. QED
  BY <1>1, <1>2 DEF Running, TypeOK

LEMMA Arguments ==
  ASSUME NEW c \in Command
  PROVE  /\ c.op \in Operations /\ c.home \in Homes
         /\ c.op # "import_file" => c.addr \in Addresses
         /\ c.op # "backup" => c.pass \in Passphrases
         /\ c.op \in {"backup", "import_file"} => c.path \in Paths
         /\ c.op \in Storing \ {"import_file"} => c.label \in Labels
         /\ c.label # NULL => c.label \in Labels
  BY DEF Command, Storing

(* A process that moves on is at a step of its command; what it must hold  *)
(* there is left to each action.                                           *)
LEMMA AdvanceOK ==
  ASSUME TypeOK, NEW p \in Processes, NEW step, Running(p, step),
         step \notin {"insert", "write", "load"}, Advance(p),
         UNCHANGED <<cmd, result>>, data' \in [Processes -> Row \cup {NULL}],
         \A q \in Processes \ {p} : data'[q] = data[q],
         HoldsRow(p)' => data'[p] \in Row
  PROVE  at' \in [Processes -> 1..10] /\ \A q \in Processes : ProcessOK(q)'
<1>1. at[p] + 1 \in DOMAIN Steps[cmd[p].op] /\ at[p] + 1 \in 1..10
  BY Here, StepsInRange
<1>2. at' = [at EXCEPT ![p] = at[p] + 1]
  BY DEF Advance
<1>3. at' \in [Processes -> 1..10]
  BY <1>1, <1>2 DEF TypeOK
<1>4. ProcessOK(p)'
  BY <1>1, <1>2, Here DEF TypeOK, ProcessOK
<1>5. ASSUME NEW q \in Processes, q # p PROVE ProcessOK(q)'
  BY <1>2, <1>5 DEF TypeOK, ProcessOK, HoldsRow
<1>6. QED
  BY <1>3, <1>4, <1>5

LEMMA FinishOK ==
  ASSUME TypeOK, NEW p \in Processes, NEW outcome \in Errors \cup {"ok"},
         result[p] = "running", Finish(p, outcome), UNCHANGED cmd,
         \A q \in Processes \ {p} : data'[q] = data[q]
  PROVE  /\ at' \in [Processes -> 1..10]
         /\ result' \in [Processes -> Errors \cup {"idle", "running", "ok"}]
         /\ result'[p] = outcome
         /\ \A q \in Processes : ProcessOK(q)'
<1>1. outcome # "running"
  BY DEF Errors
<1>2. result' = [result EXCEPT ![p] = outcome] /\ at' = at
  BY DEF Finish
<1>3. ProcessOK(p)'
  BY <1>1, <1>2 DEF TypeOK, ProcessOK
<1>4. ASSUME NEW q \in Processes, q # p PROVE ProcessOK(q)'
  BY <1>2, <1>4 DEF TypeOK, ProcessOK, HoldsRow
<1>5. QED
  BY <1>2, <1>3, <1>4 DEF TypeOK

LEMMA CheckOK ==
  ASSUME TypeOK, NEW p \in Processes, NEW step, Running(p, step),
         step \notin {"insert", "write", "load"},
         NEW error \in Errors \cup {NULL}, Check(p, error), UNCHANGED cmd,
         data' \in [Processes -> Row \cup {NULL}],
         \A q \in Processes \ {p} : data'[q] = data[q],
         error = NULL /\ HoldsRow(p)' => data'[p] \in Row
  PROVE  /\ at' \in [Processes -> 1..10]
         /\ result' \in [Processes -> Errors \cup {"idle", "running", "ok"}]
         /\ \A q \in Processes : ProcessOK(q)'
<1>1. CASE error = NULL
  <2>1. Advance(p) /\ UNCHANGED result
    BY <1>1 DEF Check
  <2>2. QED
    BY <1>1, <2>1, AdvanceOK DEF TypeOK
<1>2. CASE error # NULL
  <2>1. Finish(p, error) /\ error \in Errors
    BY <1>2 DEF Check
  <2>2. QED
    BY <2>1, FinishOK DEF Running
<1>3. QED
  BY <1>1, <1>2

(* Rows built from typed rows and arguments are typed.                     *)
LEMMA NewRowType ==
  ASSUME NEW c \in Command, c.op \in Storing \ {"import_file"}
  PROVE  NewRow(c) \in Row
<1>1. c.label \in Labels /\ c.addr \in Addresses /\ c.pass \in Passphrases
  BY Arguments DEF Storing
<1>2. [secret |-> c.addr.secret, pass |-> c.pass] \in Ciphertext
  BY <1>1 DEF Addresses, Ciphertext
<1>3. QED
  BY <1>1, <1>2 DEF NewRow, Row, ImportMethods

LEMMA RelabelType ==
  ASSUME NEW r \in Row, NEW l \in Labels
  PROVE  Relabel(r, l) \in Row
  BY DEF Relabel, Row

LEMMA ImportedRowType ==
  ASSUME NEW r \in Row
  PROVE  ImportedRow(r) \in Row
  BY DEF ImportedRow, Effective, Row, ImportMethods

LEMMA RowAtType ==
  ASSUME TypeOK, NEW h \in Homes, NEW a \in Addresses, AddressExists(h, a)
  PROVE  RowAt(h, a) \in wallets[h] /\ RowAt(h, a).addr = a /\ RowAt(h, a) \in Row
  BY DEF AddressExists, RowAt, TypeOK

LEMMA NotNull ==
  /\ \A e \in Errors : e # NULL
  /\ \A r \in Row : r \notin {NULL, NoFile, Truncated}
  /\ \A c \in Command : c # NULL
  BY ConstantsAssumption

LEMMA TypeInit == Init => TypeOK
<1> SUFFICES ASSUME Init PROVE TypeOK
  OBVIOUS
<1>1. files \in [Paths -> Row \cup {NoFile, Truncated}]
  BY ConstantsAssumption DEF Init
<1>2. drawn \subseteq Secrets
  <2>1. \A f \in Row : /\ f.key.secret \in Secrets /\ f.addr.secret \in Secrets
                       /\ Checked(f).secret \in Secrets
    BY DEF Row, Ciphertext, Addresses, Checked
  <2>2. \A x \in Paths : files[x] # NoFile => files[x] \in Row
    BY ConstantsAssumption DEF Init
  <2>3. QED
    BY <2>1, <2>2 DEF Init
<1>3. \A p \in Processes : ProcessOK(p)
  BY DEF Init, ProcessOK
<1>4. QED
  BY <1>1, <1>2, <1>3, ConstantsAssumption DEF Init, TypeOK

LEMMA TypeNext == TypeOK /\ [Next]_vars => TypeOK'
<1> SUFFICES ASSUME TypeOK, [Next]_vars PROVE TypeOK'
  OBVIOUS
<1>1. ASSUME NEW p \in Processes, NEW c \in Command, Start(p, c) PROVE TypeOK'
  <2>1. data' \in [Processes -> Row \cup {NULL}]
    BY <1>1, NewRowType DEF Start, TypeOK
  <2>2. drawn' \subseteq Secrets
    <3>1. c.op \in Storing \ {"import_file"} => c.addr.secret \in Secrets
      BY Arguments DEF Storing, Addresses
    <3>2. QED
      BY <1>1, <3>1 DEF Start, TypeOK
  <2>3. 1 \in DOMAIN Steps[c.op] /\ 1 \in 1..10
    BY StepsInRange, Arguments
  <2>4. at' \in [Processes -> 1..10] /\ cmd' \in [Processes -> Command \cup {NULL}]
          /\ result' \in [Processes -> Errors \cup {"idle", "running", "ok"}]
    BY <1>1, <2>3 DEF Start, TypeOK
  <2>5. started' \in 0..MaxCommands
    BY <1>1, ConstantsAssumption DEF Start, TypeOK
  <2>6. ProcessOK(p)'
    <3>1. cmd'[p] = c /\ at'[p] = 1
      BY <1>1 DEF Start, TypeOK
    <3>2. HoldsRow(p)' => c.op \in Storing \ {"import_file"}
      BY <3>1 DEF HoldsRow
    <3>3. c.op \in Storing \ {"import_file"} => data'[p] = NewRow(c)
      BY <1>1 DEF Start, TypeOK
    <3>4. QED
      BY <2>3, <3>1, <3>2, <3>3, NewRowType DEF ProcessOK
  <2>7. ASSUME NEW q \in Processes, q # p PROVE ProcessOK(q)'
    BY <1>1, <2>7 DEF Start, TypeOK, ProcessOK, HoldsRow
  <2>8. QED
    BY <1>1, <2>1, <2>2, <2>4, <2>5, <2>6, <2>7 DEF Start, TypeOK
<1>2. ASSUME NEW p \in Processes, CheckLabel(p) PROVE TypeOK'
  <2>1. Running(p, "label") /\ UNCHANGED <<cmd, data>>
    BY <1>2 DEF CheckLabel
  <2>2. HoldsRow(p)
    BY <2>1, Here, StepPlaces DEF HoldsRow
  <2>3. PICK error \in Errors \cup {NULL} : Check(p, error)
    BY <1>2 DEF CheckLabel, Errors
  <2>4. /\ at' \in [Processes -> 1..10]
        /\ result' \in [Processes -> Errors \cup {"idle", "running", "ok"}]
        /\ \A q \in Processes : ProcessOK(q)'
    BY <2>1, <2>2, <2>3, Here, CheckOK DEF TypeOK
  <2>5. QED
    BY <1>2, <2>4 DEF CheckLabel, TypeOK
<1>3. ASSUME NEW p \in Processes, CheckAddress(p) PROVE TypeOK'
  <2>1. Running(p, "addr") /\ UNCHANGED <<cmd, data>>
    BY <1>3 DEF CheckAddress
  <2>2. HoldsRow(p)
    BY <2>1, Here, StepPlaces DEF HoldsRow
  <2>3. PICK error \in Errors \cup {NULL} : Check(p, error)
    BY <1>3 DEF CheckAddress, FieldsError, Errors
  <2>4. /\ at' \in [Processes -> 1..10]
        /\ result' \in [Processes -> Errors \cup {"idle", "running", "ok"}]
        /\ \A q \in Processes : ProcessOK(q)'
    BY <2>1, <2>2, <2>3, Here, CheckOK DEF TypeOK
  <2>5. QED
    BY <1>3, <2>4 DEF CheckAddress, TypeOK
<1>4. ASSUME NEW p \in Processes, Insert(p) PROVE TypeOK'
  <2>1. Running(p, "insert") /\ Finish(p, "ok") /\ UNCHANGED <<cmd, data>>
    BY <1>4 DEF Insert
  <2>2. data[p] \in Row
    BY <2>1, Here, StepPlaces DEF HoldsRow
  <2>3. wallets' \in [Homes -> SUBSET Row]
    BY <1>4, <2>2 DEF Insert, TypeOK
  <2>4. /\ at' \in [Processes -> 1..10]
        /\ result' \in [Processes -> Errors \cup {"idle", "running", "ok"}]
        /\ \A q \in Processes : ProcessOK(q)'
    BY <2>1, FinishOK DEF Running
  <2>5. QED
    BY <1>4, <2>3, <2>4 DEF Insert, TypeOK
<1>5. ASSUME NEW p \in Processes, ParseFile(p) PROVE TypeOK'
  <2> DEFINE content == files[cmd[p].path]
             label   == IF cmd[p].label = NULL THEN content.label ELSE cmd[p].label
             error   == IF content = NoFile THEN "WalletFileNotFound"
                        ELSE IF content = Truncated THEN "ParseError" ELSE NULL
             row     == IF content \in {NoFile, Truncated} THEN NULL
                        ELSE Relabel(content, label)
  <2>1. /\ Running(p, "parse") /\ Check(p, error) /\ data' = [data EXCEPT ![p] = row]
        /\ UNCHANGED <<wallets, files, drawn, cmd, started>>
    BY <1>5 DEF ParseFile, FileError
  <2>2. content \in Row \cup {NoFile, Truncated}
    BY <2>1, Here, StepPlaces, Arguments DEF TypeOK
  <2>3. content \in Row => label \in Labels
    BY <2>1, Here, Arguments DEF Row
  <2>4. error = NULL => row \in Row
    BY <2>2, <2>3, RelabelType, NotNull DEF Errors
  <2>5. row \in Row \cup {NULL}
    BY <2>2, <2>3, RelabelType
  <2>6. error \in Errors \cup {NULL}
    BY DEF Errors
  <2>7. data' \in [Processes -> Row \cup {NULL}] /\ data'[p] = row
          /\ \A q \in Processes \ {p} : data'[q] = data[q]
    BY <2>1, <2>5 DEF TypeOK
  <2> HIDE DEF error, row, content, label
  <2>8. /\ at' \in [Processes -> 1..10]
        /\ result' \in [Processes -> Errors \cup {"idle", "running", "ok"}]
        /\ \A q \in Processes : ProcessOK(q)'
    BY <2>1, <2>4, <2>6, <2>7, CheckOK
  <2>9. QED
    BY <2>1, <2>7, <2>8 DEF TypeOK
<1>6. ASSUME NEW p \in Processes, DecryptFile(p) PROVE TypeOK'
  <2>1. /\ Running(p, "decrypt") /\ data' = [data EXCEPT ![p] = ImportedRow(data[p])]
        /\ UNCHANGED <<wallets, files, drawn, cmd, started>>
    BY <1>6 DEF DecryptFile
  <2>2. data[p] \in Row
    BY <2>1, Here, StepPlaces DEF HoldsRow
  <2>3. ImportedRow(data[p]) \in Row
    BY <2>2, ImportedRowType
  <2>4. data' \in [Processes -> Row \cup {NULL}] /\ data'[p] \in Row
          /\ \A q \in Processes \ {p} : data'[q] = data[q]
    BY <2>1, <2>3 DEF TypeOK
  <2>5. PICK error \in Errors \cup {NULL} : Check(p, error)
    BY <1>6 DEF DecryptFile, SecretError, Errors
  <2>6. /\ at' \in [Processes -> 1..10]
        /\ result' \in [Processes -> Errors \cup {"idle", "running", "ok"}]
        /\ \A q \in Processes : ProcessOK(q)'
    BY <2>1, <2>4, <2>5, CheckOK
  <2>7. QED
    BY <2>1, <2>4, <2>6 DEF TypeOK
<1>7. ASSUME NEW p \in Processes, CheckExists(p) PROVE TypeOK'
  <2>1. Running(p, "exists") /\ UNCHANGED <<cmd, data>>
    BY <1>7 DEF CheckExists
  <2>2. PICK error \in Errors \cup {NULL} : Check(p, error)
    BY <1>7 DEF CheckExists, Errors
  <2>3. error = NULL => at' = [at EXCEPT ![p] = @ + 1]
    BY <2>2, NotNull DEF Check, Advance
  <2>4. error = NULL => ~HoldsRow(p)'
    <3>1. cmd[p].op \notin Storing /\ at[p] \in {1, 2}
      BY <2>1, Here, StepPlaces
    <3>2. QED
      BY <2>1, <2>3, <3>1 DEF HoldsRow, Storing, TypeOK
  <2>5. /\ at' \in [Processes -> 1..10]
        /\ result' \in [Processes -> Errors \cup {"idle", "running", "ok"}]
        /\ \A q \in Processes : ProcessOK(q)'
    BY <2>1, <2>2, <2>4, CheckOK DEF TypeOK
  <2>6. QED
    BY <1>7, <2>5 DEF CheckExists, TypeOK
<1>8. ASSUME NEW p \in Processes, ReadRow(p) PROVE TypeOK'
  <2> DEFINE found == AddressExists(cmd[p].home, cmd[p].addr)
             row == IF found THEN RowAt(cmd[p].home, cmd[p].addr) ELSE NULL
             error == IF found THEN NULL ELSE "WalletNotFound"
  <2>1. /\ Running(p, "read") /\ Check(p, error) /\ data' = [data EXCEPT ![p] = row]
        /\ UNCHANGED <<wallets, files, drawn, cmd, started>>
    BY <1>8 DEF ReadRow
  <2>2. cmd[p].home \in Homes /\ cmd[p].addr \in Addresses
    BY <2>1, Here, StepPlaces, Arguments
  <2>3. (found => row \in Row) /\ row \in Row \cup {NULL}
    BY <2>2, RowAtType
  <2>4. error \in Errors \cup {NULL} /\ (error = NULL => row \in Row)
    BY <2>3, NotNull DEF Errors
  <2>5. data' \in [Processes -> Row \cup {NULL}] /\ data'[p] = row
          /\ \A q \in Processes \ {p} : data'[q] = data[q]
    BY <2>1, <2>3 DEF TypeOK
  <2> HIDE DEF found, row, error
  <2>6. /\ at' \in [Processes -> 1..10]
        /\ result' \in [Processes -> Errors \cup {"idle", "running", "ok"}]
        /\ \A q \in Processes : ProcessOK(q)'
    BY <2>1, <2>4, <2>5, CheckOK
  <2>7. QED
    BY <2>1, <2>5, <2>6 DEF TypeOK
<1>9. ASSUME NEW p \in Processes, TruncateFile(p) PROVE TypeOK'
  <2>1. Running(p, "truncate") /\ Advance(p) /\ UNCHANGED <<cmd, data, result>>
    BY <1>9 DEF TruncateFile
  <2>2. HoldsRow(p)
    BY <2>1, Here, StepPlaces DEF HoldsRow
  <2>3. at' \in [Processes -> 1..10] /\ \A q \in Processes : ProcessOK(q)'
    BY <2>1, <2>2, Here, AdvanceOK DEF TypeOK
  <2>4. files' \in [Paths -> Row \cup {NoFile, Truncated}]
    BY <1>9 DEF TruncateFile, TypeOK
  <2>5. QED
    BY <1>9, <2>3, <2>4 DEF TruncateFile, TypeOK
<1>10. ASSUME NEW p \in Processes, WriteFile(p) PROVE TypeOK'
  <2>1. Running(p, "write") /\ Finish(p, "ok") /\ UNCHANGED <<cmd, data>>
    BY <1>10 DEF WriteFile
  <2>2. data[p] \in Row
    BY <2>1, Here, StepPlaces DEF HoldsRow
  <2>3. files' \in [Paths -> Row \cup {NoFile, Truncated}]
    BY <1>10, <2>2 DEF WriteFile, TypeOK
  <2>4. /\ at' \in [Processes -> 1..10]
        /\ result' \in [Processes -> Errors \cup {"idle", "running", "ok"}]
        /\ \A q \in Processes : ProcessOK(q)'
    BY <2>1, FinishOK DEF Running
  <2>5. QED
    BY <1>10, <2>3, <2>4 DEF WriteFile, TypeOK
<1>11. ASSUME NEW p \in Processes, Load(p) PROVE TypeOK'
  <2>1. PICK outcome \in Errors \cup {"ok"} : Finish(p, outcome)
    BY <1>11 DEF Load, MnemonicError, KeyError, Errors
  <2>2. /\ at' \in [Processes -> 1..10]
        /\ result' \in [Processes -> Errors \cup {"idle", "running", "ok"}]
        /\ \A q \in Processes : ProcessOK(q)'
    BY <1>11, <2>1, FinishOK DEF Load, Running
  <2>3. QED
    BY <1>11, <2>2 DEF Load, TypeOK
<1>12. ASSUME NEW p \in Processes, Abort(p) PROVE TypeOK'
  <2>1. result[p] = "running" /\ Finish(p, "aborted") /\ "aborted" \in Errors \cup {"ok"} /\ UNCHANGED <<cmd, data>>
    BY <1>12 DEF Abort, Errors
  <2>2. /\ at' \in [Processes -> 1..10]
        /\ result' \in [Processes -> Errors \cup {"idle", "running", "ok"}]
        /\ \A q \in Processes : ProcessOK(q)'
    BY <2>1, FinishOK DEF Running
  <2>3. QED
    BY <1>12, <2>2 DEF Abort, TypeOK
<1>13. CASE UNCHANGED vars
  BY <1>13 DEF vars, TypeOK, ProcessOK, HoldsRow
<1>14. QED
  BY <1>1, <1>2, <1>3, <1>4, <1>5, <1>6, <1>7, <1>8, <1>9, <1>10, <1>11, <1>12, <1>13
     DEF Next, Step

(* Type correctness of the wallet commands.                                *)
THEOREM TypeCorrect == Spec => []TypeOK
  BY TypeInit, TypeNext, PTL DEF Spec

-----------------------------------------------------------------------------
(* The table changes by a whole row at a time, next to the rows it has.    *)
LEMMA TableStep ==
  ASSUME TypeOK, [Next]_vars
  PROVE  \/ UNCHANGED wallets
         \/ \E p \in Processes :
              /\ Insert(p) /\ data[p] \in Row /\ cmd[p].home \in Homes
              /\ ~Conflicts(cmd[p].home, data[p])
              /\ wallets' = [wallets EXCEPT ![cmd[p].home] = @ \cup {data[p]}]
<1>1. ASSUME NEW p \in Processes, Insert(p)
      PROVE  data[p] \in Row /\ cmd[p].home \in Homes
  <2>1. Running(p, "insert")
    BY <1>1 DEF Insert
  <2>2. QED
    BY <2>1, Here, StepPlaces, Arguments DEF HoldsRow
<1>2. ASSUME NEW p \in Processes, Step(p), ~Insert(p) PROVE UNCHANGED wallets
  BY <1>2 DEF Step, CheckLabel, CheckAddress, ParseFile, DecryptFile, CheckExists,
              ReadRow, TruncateFile, WriteFile, Load
<1>3. ASSUME NEW p \in Processes, Insert(p), Conflicts(cmd[p].home, data[p])
      PROVE  UNCHANGED wallets
  BY <1>3 DEF Insert
<1>4. ASSUME NEW p \in Processes, Insert(p), ~Conflicts(cmd[p].home, data[p])
      PROVE  wallets' = [wallets EXCEPT ![cmd[p].home] = @ \cup {data[p]}]
  BY <1>4 DEF Insert
<1>5. ASSUME NEW p \in Processes, NEW c \in Command, Start(p, c) PROVE UNCHANGED wallets
  BY <1>5 DEF Start
<1>6. ASSUME NEW p \in Processes, Abort(p) PROVE UNCHANGED wallets
  BY <1>6 DEF Abort
<1>7. QED
  BY <1>1, <1>2, <1>3, <1>4, <1>5, <1>6 DEF Next, vars

LEMMA RowsStay ==
  ASSUME TypeOK, [Next]_vars, NEW h \in Homes
  PROVE  wallets[h] \subseteq wallets'[h]
  BY TableStep DEF TypeOK

(* No two wallets of a home ever share a label or an address, however many *)
(* runs of the CLI interleave their checks and their inserts.              *)
THEOREM RowsAreUnique == Spec => []UniqueRows
<1>1. Init => UniqueRows
  BY DEF Init, UniqueRows
<1>2. TypeOK /\ UniqueRows /\ [Next]_vars => UniqueRows'
  <2> SUFFICES ASSUME TypeOK, UniqueRows, [Next]_vars PROVE UniqueRows'
    OBVIOUS
  <2>1. CASE UNCHANGED wallets
    BY <2>1 DEF UniqueRows
  <2>2. ASSUME NEW p \in Processes, cmd[p].home \in Homes,
               ~Conflicts(cmd[p].home, data[p]),
               wallets' = [wallets EXCEPT ![cmd[p].home] = @ \cup {data[p]}]
        PROVE  UniqueRows'
    BY <2>2 DEF UniqueRows, Conflicts, LabelExists, AddressExists, TypeOK
  <2>3. QED
    BY <2>1, <2>2, TableStep
<1>3. QED
  BY <1>1, <1>2, TypeCorrect, PTL DEF Spec

(* Only an insert turns a storing command into a success.                  *)
LEMMA SuccessStep ==
  ASSUME TypeOK, [Next]_vars, NEW p \in Processes,
         result'[p] = "ok", cmd'[p].op \in Storing
  PROVE  /\ cmd'[p] = cmd[p] /\ data'[p] = data[p]
         /\ result[p] = "ok" \/ Insert(p)
<1>1. ASSUME NEW q \in Processes, NEW c \in Command, Start(q, c)
      PROVE  q # p /\ cmd'[p] = cmd[p] /\ data'[p] = data[p] /\ result'[p] = result[p]
  BY <1>1 DEF Start, TypeOK
<1>2. ASSUME NEW q \in Processes, Abort(q)
      PROVE  q # p /\ cmd'[p] = cmd[p] /\ data'[p] = data[p] /\ result'[p] = result[p]
  BY <1>2 DEF Abort, Finish, TypeOK
<1>3. ASSUME NEW q \in Processes, Insert(q)
      PROVE  cmd'[p] = cmd[p] /\ data'[p] = data[p] /\ (q # p => result'[p] = result[p])
  BY <1>3 DEF Insert, Finish, TypeOK
<1>4. ASSUME NEW q \in Processes, q # p, Step(q)
      PROVE  cmd'[p] = cmd[p] /\ data'[p] = data[p] /\ result'[p] = result[p]
  BY <1>4 DEF Step, CheckLabel, CheckAddress, Insert, ParseFile, DecryptFile, CheckExists,
              ReadRow, TruncateFile, WriteFile, Load, Check, Finish, Advance, TypeOK
<1>5. ASSUME result[p] = "running", NEW error \in Errors \cup {NULL}, Check(p, error)
      PROVE  FALSE
  <2>1. CASE error = NULL
    BY <1>5, <2>1 DEF Check
  <2>2. CASE error # NULL
    BY <1>5, <2>2 DEF Check, Finish, TypeOK, Errors
  <2>3. QED
    BY <2>1, <2>2, <1>5
<1>6. ASSUME CheckLabel(p) \/ CheckAddress(p) PROVE FALSE
  <2>1. PICK error \in Errors \cup {NULL} : Check(p, error)
    BY <1>6 DEF CheckLabel, CheckAddress, FieldsError, Errors
  <2>2. QED
    BY <1>5, <1>6, <2>1 DEF CheckLabel, CheckAddress, Running
<1>7. ASSUME ParseFile(p) \/ DecryptFile(p) PROVE FALSE
  <2>1. PICK error \in Errors \cup {NULL} : Check(p, error)
    BY <1>7 DEF ParseFile, FileError, DecryptFile, SecretError, Errors
  <2>2. QED
    BY <1>5, <1>7, <2>1 DEF ParseFile, DecryptFile, Running
<1>8. ASSUME CheckExists(p) \/ ReadRow(p) PROVE FALSE
  <2>1. PICK error \in Errors \cup {NULL} : Check(p, error)
    BY <1>8 DEF CheckExists, ReadRow, Errors
  <2>2. QED
    BY <1>5, <1>8, <2>1 DEF CheckExists, ReadRow, Running
<1>9. ASSUME TruncateFile(p) PROVE FALSE
  BY <1>9 DEF TruncateFile, Running
<1>10. ASSUME WriteFile(p) \/ Load(p) PROVE FALSE
  <2>1. UNCHANGED cmd /\ (Running(p, "write") \/ Running(p, "load"))
    BY <1>10 DEF WriteFile, Load
  <2>2. cmd[p].op \notin Storing
    BY <2>1, Here, StepPlaces DEF Storing
  <2>3. QED
    BY <2>1, <2>2
<1>11. CASE UNCHANGED vars
  BY <1>11 DEF vars
<1>12. QED
  BY <1>1, <1>2, <1>3, <1>4, <1>6, <1>7, <1>8, <1>9, <1>10, <1>11 DEF Next, Step

(* However many runs interleave, a reported success means that the wallet, *)
(* or one that took its label or its address, is in the table.             *)
THEOREM SuccessesAreAccountedFor == Spec => []SuccessIsAccountedFor
<1>1. Init => SuccessIsAccountedFor
  BY DEF Init, SuccessIsAccountedFor
<1>2. TypeOK /\ SuccessIsAccountedFor /\ [Next]_vars => SuccessIsAccountedFor'
  <2> SUFFICES ASSUME TypeOK, SuccessIsAccountedFor, [Next]_vars, NEW p \in Processes,
                      result'[p] = "ok", cmd'[p].op \in Storing
               PROVE  Conflicts(cmd[p].home, data[p])'
    BY DEF SuccessIsAccountedFor
  <2>1. cmd'[p] = cmd[p] /\ data'[p] = data[p]
    BY SuccessStep
  <2>2. CASE result[p] = "ok"
    <3>1. Conflicts(cmd[p].home, data[p])
      BY <2>1, <2>2 DEF SuccessIsAccountedFor
    <3>2. cmd[p].home \in Homes
      <4>1. cmd[p] \in Command
        BY <2>2 DEF TypeOK, ProcessOK
      <4>2. QED
        BY <4>1, Arguments
    <3>3. QED
      BY <2>1, <3>1, <3>2, RowsStay DEF Conflicts, LabelExists, AddressExists
  <2>3. CASE Insert(p)
    <3>1. cmd[p].home \in Homes /\ data[p] \in Row
      BY <2>3, Here, StepPlaces, Arguments DEF Insert, HoldsRow
    <3>2. CASE Conflicts(cmd[p].home, data[p])
      BY <2>1, <3>1, <3>2, RowsStay DEF Conflicts, LabelExists, AddressExists
    <3>3. CASE ~Conflicts(cmd[p].home, data[p])
      <4>1. data[p] \in wallets'[cmd[p].home]
        BY <2>3, <3>1, <3>3 DEF Insert, TypeOK
      <4>2. QED
        BY <2>1, <4>1 DEF Conflicts, LabelExists
    <3>4. QED
      BY <3>2, <3>3
  <2>4. QED
    BY <2>2, <2>3, SuccessStep
<1>3. QED
  BY <1>1, <1>2, TypeCorrect, PTL DEF Spec

-----------------------------------------------------------------------------
(* Opens without its quantifier and its error values.                      *)
LEMMA OpensMeans ==
  ASSUME NEW w \in Row
  PROVE  Opens(w) <=>
           /\ w.key.secret = w.addr.secret
           /\ w.mnemonic = NULL => Effective(w) = "private_key_import"
           /\ w.mnemonic # NULL =>
                w.mnemonic = w.key /\ Effective(w) # "private_key_import"
<1>1. "IncorrectPassphrase" # NULL /\ "NoMnemonicAvailable" # NULL
        /\ "MissingEncryptedMnemonic" # NULL
  BY NotNull DEF Errors
<1>2. w.key \in Ciphertext /\ w.key.pass \in Passphrases
  BY DEF Row, Ciphertext
<1>3. w.mnemonic # NULL => w.mnemonic \in Ciphertext
  BY DEF Row
<1>4. ASSUME Opens(w)
      PROVE  /\ w.key.secret = w.addr.secret
             /\ w.mnemonic = NULL => Effective(w) = "private_key_import"
             /\ w.mnemonic # NULL =>
                  w.mnemonic = w.key /\ Effective(w) # "private_key_import"
  <2>1. PICK pass \in Passphrases :
          /\ KeyError(w, pass) = NULL /\ w.key.secret = w.addr.secret
          /\ IF w.mnemonic = NULL THEN MnemonicError(w, pass) = "NoMnemonicAvailable"
             ELSE MnemonicError(w, pass) = NULL /\ w.mnemonic.secret = w.addr.secret
    BY <1>4 DEF Opens
  <2>2. w.key.pass = pass
    BY <1>1, <2>1 DEF KeyError, CanOpen
  <2>3. CASE w.mnemonic = NULL
    BY <2>1, <2>3 DEF MnemonicError
  <2>4. CASE w.mnemonic # NULL
    <3>1. w.mnemonic.pass = pass /\ Effective(w) # "private_key_import"
      BY <1>1, <2>1, <2>4 DEF MnemonicError, CanOpen
    <3>2. w.mnemonic = w.key
      BY <1>2, <1>3, <2>1, <2>2, <2>4, <3>1 DEF Ciphertext
    <3>3. QED
      BY <2>1, <2>4, <3>1, <3>2
  <2>5. QED
    BY <2>3, <2>4
<1>5. ASSUME /\ w.key.secret = w.addr.secret
             /\ w.mnemonic = NULL => Effective(w) = "private_key_import"
             /\ w.mnemonic # NULL =>
                  w.mnemonic = w.key /\ Effective(w) # "private_key_import"
      PROVE  Opens(w)
  <2>1. KeyError(w, w.key.pass) = NULL
    BY DEF KeyError, CanOpen
  <2>2. IF w.mnemonic = NULL THEN MnemonicError(w, w.key.pass) = "NoMnemonicAvailable"
        ELSE MnemonicError(w, w.key.pass) = NULL /\ w.mnemonic.secret = w.addr.secret
    BY <1>5 DEF MnemonicError, CanOpen
  <2>3. QED
    BY <1>2, <1>5, <2>1, <2>2 DEF Opens
<1>6. QED
  BY <1>4, <1>5

(* A wallet built from the user's arguments opens.                         *)
LEMMA NewRowOpens ==
  ASSUME NEW c \in Command, c.op \in Storing \ {"import_file"}
  PROVE  Opens(NewRow(c))
<1>1. NewRow(c) \in Row
  BY NewRowType
<1>2. c.pass \in Passphrases /\ c.addr \in Addresses
  BY Arguments DEF Storing
<1>3. [secret |-> c.addr.secret, pass |-> c.pass] \in Ciphertext
  BY <1>2 DEF Addresses, Ciphertext
<1>4. [secret |-> c.addr.secret, pass |-> c.pass] # NULL /\ "mnemonic_import" # NULL
        /\ "private_key_import" # NULL
  BY <1>3, ConstantsAssumption DEF ImportMethods
<1>5. QED
  BY <1>1, <1>4, OpensMeans DEF NewRow, Effective, Storing

(* A file whose ciphertext opened to its address becomes a wallet that     *)
(* opens: effective_import_method survives the import.                     *)
LEMMA ImportOpens ==
  ASSUME NEW r \in Row, NEW pass, Known(r), FieldsError(r) = NULL,
         SecretError(r, pass) = NULL
  PROVE  Sound(ImportedRow(r))
<1>1. ImportedRow(r) \in Row
  BY ImportedRowType
<1>2. "AddressMismatch" # NULL /\ "IncorrectPassphrase" # NULL
        /\ "MissingEncryptedMnemonicField" # NULL
  BY NotNull DEF Errors
<1>3. r.mnemonic = NULL => Effective(r) = "private_key_import"
  BY <1>2 DEF FieldsError
<1>4. Checked(r).secret = r.addr.secret
  BY <1>2 DEF SecretError
<1>5. /\ ImportedRow(r).key = r.key /\ ImportedRow(r).addr = r.addr
      /\ ImportedRow(r).mnemonic = r.mnemonic
      /\ ImportedRow(r).original = Effective(r) /\ ImportedRow(r).method = "file_import"
  BY DEF ImportedRow, Row
<1>6. Effective(ImportedRow(r)) = IF Effective(r) # NULL THEN Effective(r) ELSE "file_import"
  BY <1>5 DEF Effective
<1>7. "private_key_import" # NULL
  BY ConstantsAssumption DEF ImportMethods
<1>8. Checked(ImportedRow(r)).secret = ImportedRow(r).addr.secret
  BY <1>4, <1>5 DEF Checked
<1>9. CASE Consistent(r)
  <2>1. r.key.secret = r.addr.secret
    BY <1>4, <1>9 DEF Checked, Consistent
  <2>2. Opens(ImportedRow(r))
    BY <1>1, <1>3, <1>5, <1>6, <1>7, <1>9, <2>1, OpensMeans DEF Consistent
  <2>3. QED
    BY <1>8, <2>2 DEF Sound
<1>10. CASE Disagrees(r)
  <2>1. Disagrees(ImportedRow(r))
    BY <1>5, <1>10 DEF Disagrees
  <2>2. QED
    BY <1>8, <2>1 DEF Sound
<1>11. QED
  BY <1>9, <1>10 DEF Known

(* A wallet that opens is sound, and a sound one can go back to a file.    *)
LEMMA OpensSound ==
  ASSUME NEW r \in Row, Opens(r)
  PROVE  Sound(r)
  BY OpensMeans DEF Sound, Checked

LEMMA SoundKnown ==
  ASSUME NEW r \in Row, Sound(r)
  PROVE  Known(r)
  BY OpensMeans DEF Sound, Known, Consistent

LEMMA RelabelKnown ==
  ASSUME NEW r \in Row, NEW l, Known(r)
  PROVE  Known(Relabel(r, l))
<1>1. /\ Relabel(r, l).mnemonic = r.mnemonic /\ Relabel(r, l).key = r.key
      /\ Relabel(r, l).original = r.original /\ Relabel(r, l).method = r.method
      /\ Relabel(r, l).addr = r.addr
  BY DEF Relabel, Row
<1>2. Consistent(r) => Consistent(Relabel(r, l))
  BY <1>1 DEF Consistent, Effective
<1>3. Disagrees(r) => Disagrees(Relabel(r, l))
  BY <1>1 DEF Disagrees
<1>4. QED
  BY <1>2, <1>3 DEF Known

LEMMA OpenInit == Init => OpenInv
<1> SUFFICES ASSUME Init PROVE OpenInv
  OBVIOUS
<1>1. ASSUME NEW f \in Paths, files[f] \in Row PROVE Known(files[f])
  <2>1. files[f] \in ForeignFiles
    BY <1>1, ConstantsAssumption DEF Init
  <2>2. ~Consistent(files[f]) => Disagrees(files[f])
    BY <2>1 DEF Disagrees
  <2>3. QED
    BY <2>2 DEF Known
<1>2. QED
  BY <1>1 DEF Init, OpenInv, WalletsOpen

(* A check that passes moves its process on and changes no one else.       *)
LEMMA CheckMoves ==
  ASSUME TypeOK, NEW p \in Processes, NEW error \in Errors \cup {NULL}, Check(p, error)
  PROVE  /\ error = NULL => at' = [at EXCEPT ![p] = at[p] + 1]
         /\ error # NULL => result'[p] # "running"
         /\ \A q \in Processes \ {p} : at'[q] = at[q] /\ result'[q] = result[q]
  BY DEF Check, Advance, Finish, TypeOK, Errors

LEMMA OthersReady ==
  ASSUME OpenInv, NEW p \in Processes,
         \A q \in Processes \ {p} :
           /\ at'[q] = at[q] /\ result'[q] = result[q]
           /\ data'[q] = data[q] /\ cmd'[q] = cmd[q]
  PROVE  \A q \in Processes \ {p} : result'[q] = "running" => DataReady(q)'
  BY DEF OpenInv, DataReady

LEMMA OpenNext == TypeOK /\ OpenInv /\ [Next]_vars => OpenInv'
<1> SUFFICES ASSUME TypeOK, OpenInv, [Next]_vars PROVE OpenInv'
  OBVIOUS
<1> DEFINE FilesOK == \A f \in Paths : files[f] \in Row => Known(files[f])
           ReadyOK == \A q \in Processes : result[q] = "running" => DataReady(q)
<1>1. ASSUME NEW p \in Processes, NEW c \in Command, Start(p, c) PROVE OpenInv'
  <2>1. cmd'[p] = c /\ at'[p] = 1
    BY <1>1 DEF Start, TypeOK
  <2>2. c.op \in Storing \ {"import_file"} => data'[p] = NewRow(c)
    BY <1>1 DEF Start, TypeOK
  <2>3. DataReady(p)'
    BY <2>1, <2>2, NewRowOpens, NewRowType, OpensSound DEF DataReady, Storing
  <2>4. \A q \in Processes \ {p} : result'[q] = "running" => DataReady(q)'
    BY <1>1, OthersReady DEF Start, TypeOK
  <2>5. QED
    BY <1>1, <2>3, <2>4 DEF Start, OpenInv, WalletsOpen
<1>2. ASSUME NEW p \in Processes, CheckLabel(p) PROVE OpenInv'
  <2>1. Running(p, "label") /\ UNCHANGED <<cmd, data>> /\ DataReady(p)
    BY <1>2 DEF CheckLabel, OpenInv, Running
  <2>2. PICK error \in Errors \cup {NULL} : Check(p, error)
    BY <1>2 DEF CheckLabel, Errors
  <2>3. cmd[p].op \in Storing /\ (cmd[p].op = "import_file" => at[p] \in {2, 5, 8})
    <3>1. cmd[p].op = "import_file" => at[p] \notin {3, 6, 9}
      BY <2>1, Here DEF Steps
    <3>2. QED
      BY <2>1, <3>1, Here, StepPlaces
  <2>4. result'[p] = "running" => DataReady(p)'
    <3>1. error # NULL => result'[p] # "running"
      BY <2>2, CheckMoves
    <3>2. error = NULL => at'[p] = at[p] + 1
      BY <2>2, CheckMoves DEF TypeOK
    <3>3. QED
      BY <2>1, <2>3, <3>1, <3>2 DEF DataReady, Storing
  <2>5. \A q \in Processes \ {p} : result'[q] = "running" => DataReady(q)'
    BY <2>1, <2>2, CheckMoves, OthersReady
  <2>6. QED
    BY <1>2, <2>4, <2>5 DEF CheckLabel, OpenInv, WalletsOpen
<1>3. ASSUME NEW p \in Processes, CheckAddress(p) PROVE OpenInv'
  <2> DEFINE error == IF AddressExists(cmd[p].home, data[p].addr) THEN "AddressAlreadyExists"
                      ELSE IF cmd[p].op = "import_file" THEN FieldsError(data[p]) ELSE NULL
  <2>1. Running(p, "addr") /\ UNCHANGED <<cmd, data>> /\ DataReady(p) /\ Check(p, error)
    BY <1>3 DEF CheckAddress, OpenInv, Running
  <2>2. error \in Errors \cup {NULL}
    BY DEF Errors, FieldsError
  <2>3. cmd[p].op \in Storing /\ (cmd[p].op = "import_file" => at[p] \in {3, 6, 9})
    BY <2>1, Here, StepPlaces
  <2>4. error = NULL /\ cmd[p].op = "import_file" => FieldsError(data[p]) = NULL
    BY NotNull DEF Errors
  <2> HIDE DEF error
  <2>5. result'[p] = "running" => DataReady(p)'
    <3>1. error # NULL => result'[p] # "running"
      BY <2>1, <2>2, CheckMoves
    <3>2. error = NULL => at'[p] = at[p] + 1
      BY <2>1, <2>2, CheckMoves DEF TypeOK
    <3>3. QED
      BY <2>1, <2>3, <2>4, <3>1, <3>2 DEF DataReady, Storing
  <2>6. \A q \in Processes \ {p} : result'[q] = "running" => DataReady(q)'
    BY <2>1, <2>2, CheckMoves, OthersReady
  <2>7. QED
    BY <1>3, <2>5, <2>6 DEF CheckAddress, OpenInv, WalletsOpen
<1>4. ASSUME NEW p \in Processes, Insert(p) PROVE OpenInv'
  <2>1. Running(p, "insert") /\ UNCHANGED <<cmd, data, files>> /\ Finish(p, "ok") /\ DataReady(p)
    BY <1>4 DEF Insert, OpenInv, Running
  <2>2. Sound(data[p])
    BY <2>1, Here, StepPlaces DEF DataReady, Storing
  <2>3. WalletsOpen'
    BY <1>4, <2>2 DEF Insert, OpenInv, WalletsOpen, TypeOK
  <2>4. result'[p] # "running"
    BY <2>1 DEF Finish, TypeOK
  <2>5. \A q \in Processes \ {p} : result'[q] = "running" => DataReady(q)'
    BY <2>1, OthersReady DEF Finish, TypeOK
  <2>6. QED
    BY <2>1, <2>3, <2>4, <2>5 DEF OpenInv
<1>5. ASSUME NEW p \in Processes, ParseFile(p) PROVE OpenInv'
  <2> DEFINE content == files[cmd[p].path]
             label   == IF cmd[p].label = NULL THEN content.label ELSE cmd[p].label
             error   == IF content = NoFile THEN "WalletFileNotFound"
                        ELSE IF content = Truncated THEN "ParseError" ELSE NULL
             row     == IF content \in {NoFile, Truncated} THEN NULL
                        ELSE Relabel(content, label)
  <2>1. /\ Running(p, "parse") /\ Check(p, error) /\ data' = [data EXCEPT ![p] = row]
        /\ UNCHANGED <<wallets, files, drawn, cmd, started>>
    BY <1>5 DEF ParseFile, FileError
  <2>2. cmd[p].op = "import_file" /\ at[p] \in {1, 4} /\ cmd[p].path \in Paths
    BY <2>1, Here, StepPlaces, Arguments
  <2>3. content \in Row \cup {NoFile, Truncated} /\ (content \in Row => Known(content))
    BY <2>2 DEF TypeOK, OpenInv
  <2>4. error = NULL => Known(row)
    BY <2>3, RelabelKnown, NotNull DEF Errors
  <2>5. error \in Errors \cup {NULL}
    BY DEF Errors
  <2>6. data'[p] = row /\ \A q \in Processes \ {p} : data'[q] = data[q]
    BY <2>1 DEF TypeOK
  <2> HIDE DEF error, row, content, label
  <2>7. result'[p] = "running" => DataReady(p)'
    <3>1. error # NULL => result'[p] # "running"
      BY <2>1, <2>5, CheckMoves
    <3>2. error = NULL => at'[p] = at[p] + 1
      BY <2>1, <2>5, CheckMoves DEF TypeOK
    <3>3. QED
      BY <2>1, <2>2, <2>4, <2>6, <3>1, <3>2 DEF DataReady, Storing
  <2>8. \A q \in Processes \ {p} : result'[q] = "running" => DataReady(q)'
    BY <2>1, <2>5, <2>6, CheckMoves, OthersReady
  <2>9. QED
    BY <2>1, <2>7, <2>8 DEF OpenInv, WalletsOpen
<1>6. ASSUME NEW p \in Processes, DecryptFile(p) PROVE OpenInv'
  <2> DEFINE error == SecretError(data[p], cmd[p].pass)
  <2>1. /\ Running(p, "decrypt") /\ Check(p, error)
        /\ data' = [data EXCEPT ![p] = ImportedRow(data[p])]
        /\ UNCHANGED <<wallets, files, drawn, cmd, started>> /\ DataReady(p)
    BY <1>6 DEF DecryptFile, OpenInv, Running
  <2>2. cmd[p].op = "import_file" /\ at[p] = 7 /\ data[p] \in Row
    BY <2>1, Here, StepPlaces DEF HoldsRow
  <2>3. error = NULL => Sound(ImportedRow(data[p]))
    BY <2>1, <2>2, ImportOpens DEF DataReady
  <2>4. Sound(ImportedRow(data[p])) => Known(ImportedRow(data[p]))
    BY <2>2, ImportedRowType, SoundKnown
  <2>5. error \in Errors \cup {NULL}
    BY DEF SecretError, Errors
  <2>6. data'[p] = ImportedRow(data[p]) /\ \A q \in Processes \ {p} : data'[q] = data[q]
    BY <2>1 DEF TypeOK
  <2> HIDE DEF error
  <2>7. result'[p] = "running" => DataReady(p)'
    <3>1. error # NULL => result'[p] # "running"
      BY <2>1, <2>5, CheckMoves
    <3>2. error = NULL => at'[p] = at[p] + 1
      BY <2>1, <2>5, CheckMoves DEF TypeOK
    <3>3. QED
      BY <2>1, <2>2, <2>3, <2>4, <2>6, <3>1, <3>2 DEF DataReady, Storing
  <2>8. \A q \in Processes \ {p} : result'[q] = "running" => DataReady(q)'
    BY <2>1, <2>5, <2>6, CheckMoves, OthersReady
  <2>9. QED
    BY <2>1, <2>7, <2>8 DEF OpenInv, WalletsOpen
<1>7. ASSUME NEW p \in Processes, CheckExists(p) PROVE OpenInv'
  <2>1. Running(p, "exists") /\ UNCHANGED <<cmd, data, wallets, files>>
    BY <1>7 DEF CheckExists
  <2>2. PICK error \in Errors \cup {NULL} : Check(p, error)
    BY <1>7 DEF CheckExists, Errors
  <2>3. cmd[p].op \notin Storing /\ at[p] \in {1, 2}
    BY <2>1, Here, StepPlaces
  <2>4. result'[p] = "running" => DataReady(p)'
    <3>1. error # NULL => result'[p] # "running"
      BY <2>2, CheckMoves
    <3>2. error = NULL => at'[p] = at[p] + 1
      BY <2>2, CheckMoves DEF TypeOK
    <3>3. QED
      BY <2>1, <2>3, <3>1, <3>2 DEF DataReady, Storing
  <2>5. \A q \in Processes \ {p} : result'[q] = "running" => DataReady(q)'
    BY <2>1, <2>2, CheckMoves, OthersReady
  <2>6. QED
    BY <2>1, <2>4, <2>5 DEF OpenInv, WalletsOpen
<1>8. ASSUME NEW p \in Processes, ReadRow(p) PROVE OpenInv'
  <2> DEFINE found == AddressExists(cmd[p].home, cmd[p].addr)
             row == IF found THEN RowAt(cmd[p].home, cmd[p].addr) ELSE NULL
             error == IF found THEN NULL ELSE "WalletNotFound"
  <2>1. /\ Running(p, "read") /\ Check(p, error) /\ data' = [data EXCEPT ![p] = row]
        /\ UNCHANGED <<wallets, files, drawn, cmd, started>>
    BY <1>8 DEF ReadRow
  <2>2. cmd[p].op = "backup" /\ at[p] = 3 /\ cmd[p].home \in Homes /\ cmd[p].addr \in Addresses
    BY <2>1, Here, StepPlaces, Arguments
  <2>3. found => Sound(row)
    BY <2>2, RowAtType DEF OpenInv, WalletsOpen
  <2>4. error \in Errors \cup {NULL} /\ (error = NULL => Sound(row))
    BY <2>3, NotNull DEF Errors
  <2>5. data'[p] = row /\ \A q \in Processes \ {p} : data'[q] = data[q]
    BY <2>1 DEF TypeOK
  <2> HIDE DEF found, row, error
  <2>6. result'[p] = "running" => DataReady(p)'
    <3>1. error # NULL => result'[p] # "running"
      BY <2>1, <2>4, CheckMoves
    <3>2. error = NULL => at'[p] = at[p] + 1
      BY <2>1, <2>4, CheckMoves DEF TypeOK
    <3>3. QED
      BY <2>1, <2>2, <2>4, <2>5, <3>1, <3>2 DEF DataReady, Storing
  <2>7. \A q \in Processes \ {p} : result'[q] = "running" => DataReady(q)'
    BY <2>1, <2>4, <2>5, CheckMoves, OthersReady
  <2>8. QED
    BY <2>1, <2>6, <2>7 DEF OpenInv, WalletsOpen
<1>9. ASSUME NEW p \in Processes, TruncateFile(p) PROVE OpenInv'
  <2>1. /\ Running(p, "truncate") /\ at' = [at EXCEPT ![p] = at[p] + 1] /\ DataReady(p)
        /\ UNCHANGED <<wallets, drawn, cmd, data, result, started>>
    BY <1>9 DEF TruncateFile, Advance, OpenInv, Running
  <2>2. cmd[p].op = "backup" /\ at[p] = 4
    BY <2>1, Here, StepPlaces
  <2>3. DataReady(p)'
    BY <2>1, <2>2 DEF DataReady, Storing, TypeOK
  <2>4. \A q \in Processes \ {p} : result'[q] = "running" => DataReady(q)'
    BY <2>1, OthersReady DEF TypeOK
  <2>5. FilesOK'
    BY <1>9, NotNull DEF TruncateFile, OpenInv, TypeOK
  <2>6. QED
    BY <2>1, <2>3, <2>4, <2>5 DEF OpenInv, WalletsOpen
<1>10. ASSUME NEW p \in Processes, WriteFile(p) PROVE OpenInv'
  <2>1. /\ Running(p, "write") /\ Finish(p, "ok") /\ DataReady(p)
        /\ UNCHANGED <<wallets, drawn, cmd, data, started>>
    BY <1>10 DEF WriteFile, OpenInv, Running
  <2>2. Known(data[p])
    BY <2>1, Here, StepPlaces, SoundKnown DEF DataReady, HoldsRow
  <2>3. FilesOK'
    BY <1>10, <2>2 DEF WriteFile, OpenInv, TypeOK
  <2>4. result'[p] # "running"
    BY <2>1 DEF Finish, TypeOK
  <2>5. \A q \in Processes \ {p} : result'[q] = "running" => DataReady(q)'
    BY <2>1, OthersReady DEF Finish, TypeOK
  <2>6. QED
    BY <2>1, <2>3, <2>4, <2>5 DEF OpenInv, WalletsOpen
<1>11. ASSUME NEW p \in Processes, Load(p) \/ Abort(p) PROVE OpenInv'
  <2>1. UNCHANGED <<wallets, files, cmd, data>>
    BY <1>11 DEF Load, Abort
  <2>2. PICK outcome \in Errors \cup {"ok"} : Finish(p, outcome)
    BY <1>11 DEF Load, Abort, MnemonicError, KeyError, Errors
  <2>3. result'[p] # "running"
    BY <2>2 DEF Finish, TypeOK, Errors
  <2>4. \A q \in Processes \ {p} : result'[q] = "running" => DataReady(q)'
    BY <2>1, <2>2, OthersReady DEF Finish, TypeOK
  <2>5. QED
    BY <2>1, <2>3, <2>4 DEF OpenInv, WalletsOpen
<1>12. CASE UNCHANGED vars
  BY <1>12 DEF vars, OpenInv, WalletsOpen, DataReady
<1>13. QED
  BY <1>1, <1>2, <1>3, <1>4, <1>5, <1>6, <1>7, <1>8, <1>9, <1>10, <1>11, <1>12
     DEF Next, Step

(* Every stored wallet opens to the key of its address, after any number   *)
(* of creations, imports, backups and imports of backups, in any order and *)
(* whatever the files from elsewhere hold; only a wallet whose two halves  *)
(* came in disagreeing may have one that opens to something else.          *)
THEOREM StoredWalletsOpen == Spec => []WalletsOpen
<1>1. OpenInv => WalletsOpen
  BY DEF OpenInv
<1>2. QED
  BY <1>1, TypeCorrect, OpenInit, OpenNext, PTL DEF Spec

-----------------------------------------------------------------------------
(* A row that is inserted adds its entry to the registry.                  *)
LEMMA EntriesOfUnion ==
  ASSUME NEW rows, NEW w
  PROVE  Entries(rows \cup {w})
           = Entries(rows) \cup {[label |-> w.label, addr |-> w.addr, key |-> Checked(w).secret]}
  BY DEF Entries

LEMMA EntryIsAdmissible ==
  ASSUME TypeOK, NEW h \in Homes, NEW w \in Row, ~Conflicts(h, w),
         Checked(w).secret = w.addr.secret, NEW e,
         e = [label |-> w.label, addr |-> w.addr, key |-> Checked(w).secret]
  PROVE  e \in Registry!Entry /\ Registry!Admissible(h, e)
<1>1. w.label \in Labels /\ w.addr \in Addresses
  BY DEF Row
<1>2. DOMAIN KeyOfAddress = Addresses /\ KeyOfAddress[w.addr] = w.addr.secret
  BY <1>1 DEF KeyOfAddress
<1>3. e \in Registry!Entry
  BY <1>1, <1>2 DEF Registry!Entry, Registry!Addresses
<1>4. ASSUME NEW x \in Entries(wallets[h]) PROVE x.label # e.label /\ x.addr # e.addr
  <2>1. PICK v \in wallets[h] : x = [label |-> v.label, addr |-> v.addr, key |-> Checked(v).secret]
    BY <1>4 DEF Entries
  <2>2. v.label # w.label /\ v.addr # w.addr
    BY DEF Conflicts, LabelExists, AddressExists
  <2>3. QED
    BY <2>1, <2>2
<1>5. QED
  BY <1>2, <1>3, <1>4 DEF Registry!Admissible

(* The commands, with their stale checks and interleaved inserts,          *)
(* implement the registry: each home gains wallets one at a time, under a  *)
(* free label and address, with the key of the address, and loses none.    *)
THEOREM StoreImplementsRegistry == Spec => ImplementsRegistry
<1>1. Init => Registry!Init
  BY DEF Init, Registry!Init, Entries
<1>2. ASSUME TypeOK, OpenInv, [Next]_vars
      PROVE  [Registry!Next]_([h \in Homes |-> Entries(wallets[h])])
  <2> DEFINE registry == [h \in Homes |-> Entries(wallets[h])]
  <2>1. CASE UNCHANGED wallets
    BY <2>1
  <2>2. ASSUME NEW p \in Processes, Insert(p), data[p] \in Row, cmd[p].home \in Homes,
               ~Conflicts(cmd[p].home, data[p]),
               wallets' = [wallets EXCEPT ![cmd[p].home] = @ \cup {data[p]}]
        PROVE  Registry!Next
    <3>1. Sound(data[p])
      <4>1. result[p] = "running" /\ cmd[p].op \in Storing
              /\ (cmd[p].op = "import_file" => at[p] = 10)
        BY <1>2, <2>2, Here, StepPlaces DEF Insert, Running
      <4>2. DataReady(p)
        BY <4>1, <1>2 DEF OpenInv
      <4>3. QED
        BY <4>1, <4>2 DEF DataReady, Storing
    <3>2. Checked(data[p]).secret = data[p].addr.secret
      BY <3>1 DEF Sound
    <3>3. PICK h \in Homes : h = cmd[p].home
      BY <2>2
    <3>4. PICK e : e = [label |-> data[p].label, addr |-> data[p].addr,
                        key |-> Checked(data[p]).secret]
      OBVIOUS
    <3>5. e \in Registry!Entry /\ Registry!Admissible(h, e)
      BY <1>2, <2>2, <3>2, <3>3, <3>4, EntryIsAdmissible
    <3>6. ASSUME NEW g \in Homes
          PROVE  Entries(wallets'[g]) = IF g = h THEN Entries(wallets[g]) \cup {e}
                                        ELSE Entries(wallets[g])
      <4>1. wallets'[g] = IF g = h THEN wallets[g] \cup {data[p]} ELSE wallets[g]
        BY <1>2, <2>2, <3>3 DEF TypeOK
      <4>2. QED
        BY <3>4, <4>1, EntriesOfUnion
    <3>7. registry' = [registry EXCEPT ![h] = @ \cup {e}]
      BY <3>6
    <3>8. Registry!Add(h, e)
      BY <3>5, <3>7 DEF Registry!Add
    <3>9. QED
      BY <3>5, <3>8 DEF Registry!Next
  <2>3. QED
    BY <1>2, <2>1, <2>2, TableStep
<1>3. QED
  BY <1>1, <1>2, TypeCorrect, OpenInit, OpenNext, PTL
     DEF Spec, ImplementsRegistry, Registry!Spec

-----------------------------------------------------------------------------
(* What a refusal rests on when it is made: the row it names is there.     *)
Refusals == {"LabelAlreadyExists", "AddressAlreadyExists", "NoMnemonicAvailable"}

Grounds(p) ==
  /\ result[p] = "LabelAlreadyExists" => LabelExists(cmd[p].home, data[p].label)
  /\ result[p] = "AddressAlreadyExists" => AddressExists(cmd[p].home, data[p].addr)
  /\ result[p] = "NoMnemonicAvailable" =>
       \E w \in wallets[cmd[p].home] : w.addr = cmd[p].addr /\ HasNoMnemonic(w)

LEMMA CheckResult ==
  ASSUME TypeOK, NEW p \in Processes, NEW error \in Errors \cup {NULL}, Check(p, error)
  PROVE  \/ error = NULL /\ result' = result
         \/ error # NULL /\ result' = [result EXCEPT ![p] = error]
  BY DEF Check, Finish

LEMMA NoRefusal ==
  "running" \notin Refusals /\ "ok" \notin Refusals /\ NULL \notin Refusals
  BY NotNull DEF Refusals, Errors

(* A step of p leaves the results of the other processes alone.            *)
LEMMA OthersStay ==
  ASSUME TypeOK, NEW p \in Processes, Step(p) \/ Abort(p) \/ \E c \in Command : Start(p, c),
         NEW q \in Processes, q # p
  PROVE  result'[q] = result[q] /\ cmd'[q] = cmd[q] /\ data'[q] = data[q]
  BY DEF Step, CheckLabel, CheckAddress, Insert, ParseFile, DecryptFile, CheckExists,
         ReadRow, TruncateFile, WriteFile, Load, Check, Finish, Advance, Start, Abort, TypeOK

(* Which step refuses for which reason.                                    *)
LEMMA RefusalStep ==
  ASSUME TypeOK, OpenInv, NEW p \in Processes, Step(p), result'[p] \in Refusals
  PROVE  /\ cmd'[p] = cmd[p] /\ data'[p] = data[p] /\ wallets' = wallets
         /\ Grounds(p)'
<1> USE NoRefusal
<1> DEFINE h == cmd[p].home
<1>1. CASE CheckLabel(p)
  <2> DEFINE error == IF LabelExists(h, data[p].label) THEN "LabelAlreadyExists" ELSE NULL
  <2>1. /\ Check(p, error) /\ result[p] = "running"
        /\ UNCHANGED <<wallets, cmd, data>>
    BY <1>1 DEF CheckLabel, Running
  <2>2. error # NULL /\ result'[p] = error
    BY <2>1, CheckResult DEF Errors, TypeOK
  <2>3. LabelExists(h, data[p].label) /\ result'[p] = "LabelAlreadyExists"
    BY <2>2
  <2>4. QED
    BY <2>1, <2>3 DEF Grounds, LabelExists
<1>2. CASE CheckAddress(p)
  <2> DEFINE error == IF AddressExists(h, data[p].addr) THEN "AddressAlreadyExists"
                      ELSE IF cmd[p].op = "import_file" THEN FieldsError(data[p]) ELSE NULL
  <2>1. /\ Check(p, error) /\ result[p] = "running"
        /\ UNCHANGED <<wallets, cmd, data>>
    BY <1>2 DEF CheckAddress, Running
  <2>2. error \in Errors \cup {NULL} /\ error \in {"AddressAlreadyExists",
          "MissingEncryptedMnemonicField", NULL}
    BY DEF FieldsError, Errors
  <2>3. error # NULL /\ result'[p] = error
    BY <2>1, <2>2, CheckResult DEF TypeOK
  <2>4. error = "AddressAlreadyExists"
    BY <2>2, <2>3 DEF Refusals
  <2>5. AddressExists(h, data[p].addr)
    BY <2>4, NotNull DEF FieldsError, Errors
  <2>6. QED
    BY <2>1, <2>3, <2>4, <2>5 DEF Grounds, AddressExists
<1>3. CASE ParseFile(p) \/ DecryptFile(p)
  <2>1. PICK error \in {"WalletFileNotFound", "ParseError", "IncorrectPassphrase",
                        "AddressMismatch", NULL} : Check(p, error)
    BY <1>3 DEF ParseFile, FileError, DecryptFile, SecretError
  <2>2. result'[p] = error \/ result'[p] = "running"
    BY <1>3, <2>1, CheckResult DEF ParseFile, DecryptFile, Running, Errors, TypeOK
  <2>3. QED
    BY <2>1, <2>2 DEF Refusals
<1>4. CASE CheckExists(p) \/ ReadRow(p)
  <2>1. PICK error \in {"WalletNotFound", NULL} : Check(p, error)
    BY <1>4 DEF CheckExists, ReadRow
  <2>2. result'[p] = error \/ result'[p] = "running"
    BY <1>4, <2>1, CheckResult DEF CheckExists, ReadRow, Running, Errors, TypeOK
  <2>3. QED
    BY <2>1, <2>2 DEF Refusals
<1>5. CASE Insert(p) \/ TruncateFile(p) \/ WriteFile(p)
  BY <1>5 DEF Insert, TruncateFile, WriteFile, Running, Finish, TypeOK
<1>6. CASE Load(p)
  <2> DEFINE row == RowAt(h, cmd[p].addr)
             error == IF ~AddressExists(h, cmd[p].addr) THEN "WalletNotFound"
                      ELSE IF cmd[p].op = "show_mnemonic" THEN MnemonicError(row, cmd[p].pass)
                      ELSE KeyError(row, cmd[p].pass)
  <2>1. /\ Running(p, "load") /\ UNCHANGED <<wallets, cmd, data>>
        /\ result'[p] = IF error = NULL THEN "ok" ELSE error
    BY <1>6 DEF Load, Finish, TypeOK
  <2>2. error = "NoMnemonicAvailable" /\ error = MnemonicError(row, cmd[p].pass)
          /\ AddressExists(h, cmd[p].addr)
    BY <2>1 DEF Refusals, MnemonicError, KeyError
  <2>3. Effective(row) = "private_key_import"
    BY <2>2, NotNull DEF MnemonicError, Errors
  <2>4. h \in Homes
    BY <2>1, Here, Arguments
  <2>5. row \in wallets[h] /\ row.addr = cmd[p].addr /\ row \in Row
    BY <2>2, <2>4 DEF RowAt, AddressExists, TypeOK
  <2>6. HasNoMnemonic(row)
    BY <2>3, <2>4, <2>5, OpensMeans DEF OpenInv, WalletsOpen, Sound, HasNoMnemonic
  <2>7. \E w \in wallets[h] : w.addr = cmd[p].addr /\ HasNoMnemonic(w)
    BY <2>5, <2>6
  <2>8. QED
    BY <2>1, <2>2, <2>7 DEF Grounds
<1>7. QED
  BY <1>1, <1>2, <1>3, <1>4, <1>5, <1>6 DEF Step

(* A refusal stays true whatever other runs do afterwards: rows are never  *)
(* removed or replaced, so the label or address it names stays taken and   *)
(* a wallet said to have no mnemonic is still the one it was said of.      *)
THEOREM RefusalsStand == Spec => []RefusalsStandUp
<1> DEFINE Inv == \A p \in Processes : Grounds(p)
<1>1. Init => Inv
  BY DEF Init, Grounds
<1>2. TypeOK /\ OpenInv /\ Inv /\ [Next]_vars => Inv'
  <2> SUFFICES ASSUME TypeOK, OpenInv, Inv, [Next]_vars, NEW p \in Processes,
                      result'[p] \in Refusals
               PROVE  Grounds(p)'
    BY DEF Grounds, Refusals
  <2>1. ASSUME result'[p] = result[p], cmd'[p] = cmd[p], data'[p] = data[p]
        PROVE  Grounds(p)'
    <3>1. cmd[p].home \in Homes
      BY <2>1, Arguments DEF TypeOK, ProcessOK, Refusals
    <3>2. wallets[cmd[p].home] \subseteq wallets'[cmd[p].home]
      BY <3>1, RowsStay
    <3>3. QED
      BY <2>1, <3>2 DEF Grounds, LabelExists, AddressExists
  <2>2. ASSUME NEW q \in Processes, Step(q) \/ Abort(q) \/ \E c \in Command : Start(q, c)
        PROVE  Grounds(p)'
    <3>1. CASE q # p
      BY <2>1, <2>2, <3>1, OthersStay
    <3>2. CASE q = p /\ Step(p)
      BY <3>2, RefusalStep
    <3>3. CASE q = p /\ (Abort(p) \/ \E c \in Command : Start(p, c))
      BY <3>3 DEF Abort, Start, Finish, TypeOK, Refusals
    <3>4. QED
      BY <2>2, <3>1, <3>2, <3>3
  <2>3. CASE UNCHANGED vars
    BY <2>1, <2>3 DEF vars
  <2>4. QED
    BY <2>2, <2>3 DEF Next
<1>3. TypeOK /\ UniqueRows /\ Inv => RefusalsStandUp
  <2> SUFFICES ASSUME TypeOK, UniqueRows, NEW p \in Processes, Grounds(p),
                      result[p] = "NoMnemonicAvailable"
               PROVE  HasNoMnemonic(RowAt(cmd[p].home, cmd[p].addr))
    BY DEF RefusalsStandUp, Grounds
  <2>1. PICK w \in wallets[cmd[p].home] : w.addr = cmd[p].addr /\ HasNoMnemonic(w)
    BY DEF Grounds
  <2>2. cmd[p].home \in Homes
    BY Arguments DEF TypeOK, ProcessOK
  <2>3. RowAt(cmd[p].home, cmd[p].addr) = w
    BY <2>1, <2>2 DEF RowAt, UniqueRows
  <2>4. QED
    BY <2>1, <2>3
<1>4. QED
  BY <1>1, <1>2, <1>3, TypeCorrect, OpenInit, OpenNext, RowsAreUnique, PTL DEF Spec

-----------------------------------------------------------------------------
(* The checks a command makes right before its insert, while they are      *)
(* fresh: the label is free at the last one, both are at the insert.       *)
Fresh(p) ==
  LET last == Len(Steps[cmd[p].op])
  IN result[p] = "running" /\ cmd[p].op \in Storing =>
       /\ at[p] \in {last - 1, last} => ~LabelExists(cmd[p].home, data[p].label)
       /\ at[p] = last => ~AddressExists(cmd[p].home, data[p].addr)

LEMMA LastSteps ==
  ASSUME NEW op \in Storing
  PROVE  /\ Len(Steps[op]) \in 4..10
         /\ DOMAIN Steps[op] = 1..Len(Steps[op])
         /\ Steps[op][Len(Steps[op])] = "insert"
         /\ Steps[op][Len(Steps[op]) - 1] = "addr"
         /\ Steps[op][Len(Steps[op]) - 2] = "label"
         /\ \A i \in DOMAIN Steps[op] : Steps[op][i] = "insert" => i = Len(Steps[op])
<1>1. CASE op = "create"
  BY <1>1 DEF Steps
<1>2. CASE op = "import_private_key"
  BY <1>2 DEF Steps
<1>3. CASE op = "import_mnemonic"
  BY <1>3 DEF Steps
<1>4. CASE op = "import_file"
  BY <1>4 DEF Steps
<1>5. QED
  BY <1>1, <1>2, <1>3, <1>4 DEF Storing

(* A running command of one process alone keeps its last checks fresh.     *)
LEMMA FreshStep ==
  ASSUME TypeOK, NEW p \in Processes, Fresh(p),
         Step(p) \/ Abort(p) \/ \E c \in Command : Start(p, c)
  PROVE  Fresh(p)'
<1> SUFFICES ASSUME result'[p] = "running", cmd'[p].op \in Storing
             PROVE  LET last == Len(Steps[cmd'[p].op])
                    IN /\ at'[p] \in {last - 1, last} =>
                            ~LabelExists(cmd[p].home, data[p].label)'
                       /\ at'[p] = last => ~AddressExists(cmd[p].home, data[p].addr)'
  BY DEF Fresh
<1> DEFINE last == Len(Steps[cmd[p].op])
<1>1. ASSUME NEW c \in Command, Start(p, c)
      PROVE  at'[p] = 1 /\ Len(Steps[cmd'[p].op]) \in 4..10
  BY <1>1, LastSteps DEF Start, TypeOK
<1>2. CASE \E c \in Command : Start(p, c)
  <2>1. PICK c \in Command : Start(p, c)
    BY <1>2
  <2>2. PICK n \in 4..10 : n = Len(Steps[cmd'[p].op])
    BY <1>1, <2>1
  <2>3. at'[p] \notin {n - 1, n}
    BY <1>1, <2>1
  <2>4. QED
    BY <2>2, <2>3
<1>3. ASSUME NEW step \in {"label", "addr", "parse", "decrypt"}, Running(p, step),
             at' = [at EXCEPT ![p] = @ + 1], cmd' = cmd, wallets' = wallets,
             step \in {"label", "addr"} => data' = data,
             step = "label" => ~LabelExists(cmd[p].home, data[p].label),
             step = "addr" => ~AddressExists(cmd[p].home, data[p].addr)
      PROVE  LET last1 == Len(Steps[cmd'[p].op])
             IN /\ at'[p] \in {last1 - 1, last1} =>
                     ~LabelExists(cmd[p].home, data[p].label)'
                /\ at'[p] = last1 => ~AddressExists(cmd[p].home, data[p].addr)'
  <2>1. /\ at'[p] = at[p] + 1 /\ at[p] \in 1..10 /\ cmd'[p] = cmd[p]
        /\ cmd[p].op \in Storing /\ at[p] \in DOMAIN Steps[cmd[p].op]
        /\ Steps[cmd[p].op][at[p]] = step /\ result[p] = "running"
    BY <1>3, Here DEF TypeOK, Running
  <2>2. /\ last \in 4..10 /\ Steps[cmd[p].op][last - 1] = "addr"
        /\ Steps[cmd[p].op][last - 2] = "label" /\ Steps[cmd[p].op][last] = "insert"
    BY <2>1, LastSteps
  <2>3. CASE at[p] + 1 = last - 1
    <3>1. at[p] = last - 2
      BY <2>1, <2>2, <2>3
    <3>2. step = "label"
      BY <2>1, <2>2, <3>1
    <3>3. QED
      BY <1>3, <2>1, <2>2, <2>3, <3>2 DEF LabelExists
  <2>4. CASE at[p] + 1 = last
    <3>1. at[p] = last - 1
      BY <2>1, <2>2, <2>4
    <3>2. step = "addr"
      BY <2>1, <2>2, <3>1
    <3>3. ~LabelExists(cmd[p].home, data[p].label)
      BY <2>1, <3>1 DEF Fresh
    <3>4. QED
      BY <1>3, <2>1, <2>2, <2>4, <3>2, <3>3 DEF LabelExists, AddressExists
  <2>5. CASE at[p] + 1 # last - 1 /\ at[p] + 1 # last
    BY <2>1, <2>2, <2>5
  <2>6. QED
    BY <2>3, <2>4, <2>5
<1>4. ASSUME NEW error \in Errors \cup {NULL}, Check(p, error)
      PROVE  error = NULL /\ at' = [at EXCEPT ![p] = @ + 1]
  BY <1>4 DEF Check, Finish, Advance, TypeOK, Errors
<1>5. CASE CheckLabel(p)
  <2> DEFINE error == IF LabelExists(cmd[p].home, data[p].label)
                      THEN "LabelAlreadyExists" ELSE NULL
  <2>1. Running(p, "label") /\ Check(p, error) /\ UNCHANGED <<wallets, cmd, data>>
    BY <1>5 DEF CheckLabel
  <2>2. error = NULL /\ at' = [at EXCEPT ![p] = @ + 1]
    BY <2>1, <1>4 DEF Errors
  <2>3. ~LabelExists(cmd[p].home, data[p].label)
    BY <2>2, NotNull DEF Errors
  <2>4. QED
    BY <1>3, <2>1, <2>2, <2>3
<1>6. CASE CheckAddress(p)
  <2> DEFINE error == IF AddressExists(cmd[p].home, data[p].addr) THEN "AddressAlreadyExists"
                      ELSE IF cmd[p].op = "import_file" THEN FieldsError(data[p]) ELSE NULL
  <2>1. Running(p, "addr") /\ Check(p, error) /\ UNCHANGED <<wallets, cmd, data>>
    BY <1>6 DEF CheckAddress
  <2>2. error \in Errors \cup {NULL}
    BY DEF Errors, FieldsError
  <2>3. error = NULL /\ at' = [at EXCEPT ![p] = @ + 1]
    BY <2>1, <2>2, <1>4
  <2>4. ~AddressExists(cmd[p].home, data[p].addr)
    BY <2>3, NotNull DEF Errors
  <2>5. QED
    BY <1>3, <2>1, <2>3, <2>4
<1>7. CASE ParseFile(p)
  <2>1. PICK error \in Errors \cup {NULL} : Check(p, error)
    BY <1>7 DEF ParseFile, FileError, Errors
  <2>2. at' = [at EXCEPT ![p] = @ + 1]
    BY <2>1, <1>4
  <2>3. QED
    BY <1>3, <1>7, <2>2 DEF ParseFile
<1>8. CASE DecryptFile(p)
  <2>1. PICK error \in Errors \cup {NULL} : Check(p, error)
    BY <1>8 DEF DecryptFile, SecretError, Errors
  <2>2. at' = [at EXCEPT ![p] = @ + 1]
    BY <2>1, <1>4
  <2>3. QED
    BY <1>3, <1>8, <2>2 DEF DecryptFile
<1>9. CASE Insert(p) \/ WriteFile(p) \/ Abort(p)
  BY <1>9 DEF Insert, WriteFile, Abort, Finish, TypeOK
<1>10. CASE CheckExists(p) \/ ReadRow(p) \/ TruncateFile(p)
  <2>1. PICK step \in {"exists", "read", "truncate"} : Running(p, step) /\ cmd' = cmd
    BY <1>10 DEF CheckExists, ReadRow, TruncateFile
  <2>2. cmd[p].op \notin Storing
    BY <2>1, Here, StepPlaces DEF Storing
  <2>3. QED
    BY <2>1, <2>2
<1>11. CASE Load(p)
  BY <1>11 DEF Load, Finish, TypeOK, MnemonicError, KeyError
<1>12. QED
  BY <1>2, <1>5, <1>6, <1>7, <1>8, <1>9, <1>10, <1>11 DEF Step

(* With one run of the CLI at a time nothing comes between the checks and  *)
(* the insert they guard: a command that reports success has stored its    *)
(* wallet, and it is never lost.                                           *)
THEOREM AloneSuccessIsStored ==
  ASSUME \A p, q \in Processes : p = q
  PROVE  Spec => []SuccessIsStored
<1> DEFINE AllFresh == \A p \in Processes : Fresh(p)
<1>1. Init => AllFresh /\ SuccessIsStored
  BY DEF Init, Fresh, SuccessIsStored
<1>2. TypeOK /\ AllFresh /\ [Next]_vars => AllFresh'
  <2> SUFFICES ASSUME TypeOK, AllFresh, [Next]_vars, NEW p \in Processes PROVE Fresh(p)'
    OBVIOUS
  <2>1. CASE UNCHANGED vars
    BY <2>1 DEF vars, Fresh, LabelExists, AddressExists
  <2>2. CASE Step(p) \/ Abort(p) \/ \E c \in Command : Start(p, c)
    BY <2>2, FreshStep
  <2>3. QED
    BY <2>1, <2>2 DEF Next
<1>3. TypeOK /\ AllFresh /\ SuccessIsStored /\ [Next]_vars => SuccessIsStored'
  <2> SUFFICES ASSUME TypeOK, AllFresh, SuccessIsStored, [Next]_vars, NEW p \in Processes,
                      result'[p] = "ok", cmd'[p].op \in Storing
               PROVE  data'[p] \in wallets'[cmd'[p].home]
    BY DEF SuccessIsStored
  <2>1. cmd'[p] = cmd[p] /\ data'[p] = data[p] /\ (result[p] = "ok" \/ Insert(p))
    BY SuccessStep
  <2>2. CASE result[p] = "ok"
    <3>1. data[p] \in wallets[cmd[p].home]
      BY <2>1, <2>2 DEF SuccessIsStored
    <3>2. cmd[p].home \in Homes
      BY <2>2, Arguments DEF TypeOK, ProcessOK
    <3>3. QED
      BY <2>1, <3>1, <3>2, RowsStay
  <2>3. CASE Insert(p)
    <3>1. result[p] = "running" /\ at[p] = Len(Steps[cmd[p].op]) /\ cmd[p].home \in Homes
      BY <2>1, <2>3, Here, LastSteps, Arguments DEF Insert, Running
    <3>2. ~Conflicts(cmd[p].home, data[p])
      BY <2>1, <3>1 DEF Fresh, Conflicts
    <3>3. QED
      BY <2>1, <2>3, <3>1, <3>2 DEF Insert, TypeOK
  <2>4. QED
    BY <2>1, <2>2, <2>3
<1>4. QED
  BY <1>1, <1>2, <1>3, TypeCorrect, PTL DEF Spec
=============================================================================
