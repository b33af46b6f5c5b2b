---------------------------- MODULE WalletStore -----------------------------
(***************************************************************************)
(* The wallet table of ~/.clementine and the commands that read and write  *)
(* it.  A command is one run of the CLI.  Nothing locks the table: two     *)
(* runs interleave between any two SQL statements, and a run may end       *)
(* between any two of its steps (Ctrl-C, a failed prompt, an I/O error).   *)
(*                                                                         *)
(* Abstractions.  A key and the mnemonic it comes from are one member of   *)
(* Secrets; an address is the key with its purpose (the "dep"/"wit"        *)
(* prefix the table stores); a ciphertext opens under exactly the          *)
(* passphrase it was made with.  The network, timestamps and the text of   *)
(* messages are left out.  Homes are machines; files are shared by them.   *)
(* A definition named after another one with an ending (SecretError and    *)
(* SecretErrorUnlessOpen) is a faulty form of it: what a property is tried *)
(* against, never part of the specification.                               *)
(***************************************************************************)
EXTENDS Naturals, Sequences, FiniteSets

CONSTANTS
  Processes,     \* runs of the CLI that may be alive at the same time
  Homes,         \* ~/.clementine directories, one database each
  Labels,
  Secrets,       \* keys, each with its mnemonic
  Passphrases,
  UserPaths,     \* file names the user spells out as a backup destination
  ForeignFiles,  \* wallet files generated elsewhere, found under UserPaths
  NULL,          \* SQL NULL and "no value"
  NoFile,        \* content of a path where no file is
  Truncated,     \* content of a file that was opened for writing only
  MaxCommands    \* bound: commands started in a behaviour

VARIABLES
  wallets,       \* wallets[h]: the rows of home h's wallets table
  files,         \* files[f]: the backup in file f, NoFile or Truncated
  drawn,         \* secrets generated or imported so far
  cmd,           \* cmd[p]: arguments of the last command of p
  at,            \* at[p]: the step of Steps[cmd[p].op] p takes next
  data,          \* data[p]: the wallet p has in memory, or NULL
  result,        \* result[p]: "idle", "running", "ok" or the error
  started        \* commands started so far

vars == <<wallets, files, drawn, cmd, at, data, result, started>>

Purposes == {"deposit", "withdrawal"}
Addresses == [secret: Secrets, purpose: Purposes]
Ciphertext == [secret: Secrets, pass: Passphrases]
ImportMethods == {"mnemonic_import", "file_import", "private_key_import"}

Row == [label: Labels, addr: Addresses, mnemonic: Ciphertext \cup {NULL},
        key: Ciphertext, imported: BOOLEAN,
        original: ImportMethods \cup {NULL}, method: ImportMethods \cup {NULL}]

(* A backup into a directory is named wallet_<address>.json after the      *)
(* address without its prefix, that is after the key alone.                *)
Paths == Secrets \cup UserPaths


Operations == {"create", "import_mnemonic", "import_file",
               "import_private_key", "backup", "show_mnemonic", "show_key"}
Storing == {"create", "import_mnemonic", "import_file", "import_private_key"}

(* The arguments and answers to prompts a command takes; import-file may   *)
(* leave out its label, and the backup of a wallet goes to a file the user *)
(* names or, in a directory, to the one named after the key.               *)
Command == {c \in [op: Operations, home: Homes, label: Labels \cup {NULL},
                   addr: Addresses \cup {NULL}, pass: Passphrases \cup {NULL},
                   path: Paths \cup {NULL}] :
  /\ c.addr = NULL <=> c.op = "import_file"
  /\ c.pass = NULL <=> c.op = "backup"
  /\ c.path = NULL <=> c.op \notin {"backup", "import_file"}
  /\ c.label = NULL => c.op \notin Storing \ {"import_file"}
  /\ c.label # NULL => c.op \in Storing
  /\ c.op = "backup" => c.path \in UserPaths \cup {c.addr.secret}}

(* Each command as the order of its database and file accesses.  The       *)
(* prompts between them change nothing; a prompt that fails is Abort.      *)
Steps == [
  create             |-> <<"label", "label", "addr", "label", "addr", "insert">>,
  import_mnemonic    |-> <<"label", "addr", "label", "addr", "label", "addr", "insert">>,
  import_file        |-> <<"parse", "label", "addr", "parse", "label", "addr",
                           "decrypt", "label", "addr", "insert">>,
  import_private_key |-> <<"label", "label", "addr", "insert">>,
  backup             |-> <<"exists", "exists", "read", "truncate", "write">>,
  show_mnemonic      |-> <<"exists", "load">>,
  show_key           |-> <<"exists", "load">>]

Errors == {"LabelAlreadyExists", "AddressAlreadyExists", "WalletFileNotFound",
           "ParseError", "MissingEncryptedMnemonicField", "IncorrectPassphrase",
           "AddressMismatch", "WalletNotFound", "NoMnemonicAvailable",
           "MissingEncryptedMnemonic", "aborted"}
-----------------------------------------------------------------------------
(* WalletData::effective_import_method                                     *)
Effective(row) == IF row.original # NULL THEN row.original ELSE row.method

(* aes_decrypt_secure: authenticated, so a wrong passphrase is an error.   *)
CanOpen(c, pass) == c.pass = pass

(* What load_key and load_mnemonic refuse a row for: NULL when they open.  *)
KeyError(row, pass) ==
  IF CanOpen(row.key, pass) THEN NULL ELSE "IncorrectPassphrase"

MnemonicError(row, pass) ==
  IF Effective(row) = "private_key_import" THEN "NoMnemonicAvailable"
  ELSE IF row.mnemonic = NULL THEN "MissingEncryptedMnemonic"
  ELSE IF CanOpen(row.mnemonic, pass) THEN NULL ELSE "IncorrectPassphrase"

(* The row create_encrypted_wallet, import_wallet_from_mnemonic and        *)
(* import_wallet_from_private_key build from their arguments.              *)
NewRow(c) ==
  LET cipher == [secret |-> c.addr.secret, pass |-> c.pass]
      how    == IF c.op = "create" THEN NULL
                ELSE IF c.op = "import_mnemonic" THEN "mnemonic_import"
                ELSE "private_key_import"
  IN [label |-> c.label, addr |-> c.addr,
      mnemonic |-> IF c.op = "import_private_key" THEN NULL ELSE cipher,
      key |-> cipher, imported |-> c.op # "create",
      original |-> how, method |-> how]

Relabel(row, label) == [row EXCEPT !.label = label]

(* The row import_wallet_from_file builds from the file's content.         *)
ImportedRow(row) ==
  [row EXCEPT !.imported = TRUE, !.original = Effective(row),
              !.method = "file_import"]

(* What the import of a file is refused for: NULL when it is accepted.     *)
FileErrorButTruncated(content) ==
  IF content = NoFile THEN "WalletFileNotFound" ELSE NULL

FileError(content) ==
  IF content = NoFile THEN "WalletFileNotFound"
  ELSE IF content = Truncated THEN "ParseError" ELSE NULL

FieldsError(row) ==
  IF row.mnemonic = NULL /\ Effective(row) # "private_key_import"
  THEN "MissingEncryptedMnemonicField" ELSE NULL

(* Which ciphertext an import opens.  The other one is stored unopened.    *)
Checked(row) == IF row.mnemonic # NULL THEN row.mnemonic ELSE row.key

SecretErrorUnlessOpen(row, pass) ==
  IF CanOpen(Checked(row), pass) THEN NULL ELSE "IncorrectPassphrase"

SecretError(row, pass) ==
  IF ~CanOpen(Checked(row), pass) THEN "IncorrectPassphrase"
  ELSE IF Checked(row).secret # row.addr.secret THEN "AddressMismatch" ELSE NULL

ASSUME ConstantsAssumption ==
  /\ MaxCommands \in Nat
  /\ NULL \notin Labels \cup Addresses \cup Passphrases \cup Ciphertext \cup Row
                 \cup ImportMethods \cup Paths \cup Errors \cup Command
  /\ NoFile \notin Row /\ Truncated \notin Row /\ NoFile # Truncated
  /\ UserPaths \cap Secrets = {}
  /\ ForeignFiles \subseteq Row

LabelExists(h, l) == \E w \in wallets[h] : w.label = l
AddressExists(h, a) == \E w \in wallets[h] : w.addr = a
RowAt(h, a) == CHOOSE w \in wallets[h] : w.addr = a
-----------------------------------------------------------------------------
Running(p, step) ==
  /\ result[p] = "running"
  /\ Steps[cmd[p].op][at[p]] = step

Advance(p) == at' = [at EXCEPT ![p] = @ + 1]

Finish(p, outcome) ==
  /\ result' = [result EXCEPT ![p] = outcome]
  /\ UNCHANGED at

(* A check goes on without an error and ends the command with one.         *)
Check(p, error) ==
  \/ error = NULL /\ Advance(p) /\ UNCHANGED result
  \/ error # NULL /\ Finish(p, error)

(* validate_wallet_availability is two statements, the label first; the    *)
(* first one of create and of the key imports has only the label, the      *)
(* second one of the mnemonic import only the address.                     *)
CheckLabelNever(p) ==
  /\ Running(p, "label")
  /\ Advance(p)
  /\ UNCHANGED <<wallets, files, drawn, cmd, data, result, started>>

CheckLabel(p) ==
  /\ Running(p, "label")
  /\ Check(p, IF LabelExists(cmd[p].home, data[p].label)
              THEN "LabelAlreadyExists" ELSE NULL)
  /\ UNCHANGED <<wallets, files, drawn, cmd, data, started>>

(* For a file, the test of its fields follows without another access.      *)
CheckAddress(p) ==
  /\ Running(p, "addr")
  /\ Check(p, IF AddressExists(cmd[p].home, data[p].addr) THEN "AddressAlreadyExists"
              ELSE IF cmd[p].op = "import_file" THEN FieldsError(data[p]) ELSE NULL)
  /\ UNCHANGED <<wallets, files, drawn, cmd, data, started>>

(* INSERT ... ON CONFLICT DO NOTHING: the number of inserted rows is not   *)
(* looked at, so the command reports success either way.                   *)
ConflictsByLabel(h, row) == LabelExists(h, row.label)
ConflictsByAddress(h, row) == AddressExists(h, row.addr)

Conflicts(h, row) == LabelExists(h, row.label) \/ AddressExists(h, row.addr)

InsertOrReplace(p) ==
  LET h == cmd[p].home
      kept == {w \in wallets[h] : w.label # data[p].label /\ w.addr # data[p].addr}
  IN /\ Running(p, "insert")
     /\ wallets' = [wallets EXCEPT ![h] = kept \cup {data[p]}]
     /\ Finish(p, "ok")
     /\ UNCHANGED <<files, drawn, cmd, data, started>>

InsertUnlessBusy(p) ==
  LET h == cmd[p].home
      busy == \E q \in Processes \ {p} : Running(q, "insert")
  IN /\ Running(p, "insert")
     /\ wallets' = IF Conflicts(h, data[p]) \/ busy THEN wallets
                   ELSE [wallets EXCEPT ![h] = @ \cup {data[p]}]
     /\ Finish(p, "ok")
     /\ UNCHANGED <<files, drawn, cmd, data, started>>

Insert(p) ==
  LET h == cmd[p].home
  IN /\ Running(p, "insert")
     /\ wallets' = IF Conflicts(h, data[p]) THEN wallets
                   ELSE [wallets EXCEPT ![h] = @ \cup {data[p]}]
     /\ Finish(p, "ok")
     /\ UNCHANGED <<files, drawn, cmd, data, started>>

(* parse_and_validate_imported_wallet up to its database checks: the file  *)
(* is read again on every call.                                            *)
ParseFile(p) ==
  LET content == files[cmd[p].path]
      label   == IF cmd[p].label = NULL THEN content.label ELSE cmd[p].label
  IN /\ Running(p, "parse")
     /\ Check(p, FileError(content))
     /\ data' = [data EXCEPT ![p] = IF content \in {NoFile, Truncated} THEN NULL
                                   ELSE Relabel(content, label)]
     /\ UNCHANGED <<wallets, files, drawn, cmd, started>>

(* import_wallet_from_file after the second parse: the ciphertext must     *)
(* open, to the file's address, under the given passphrase.                *)
DecryptFile(p) ==
  /\ Running(p, "decrypt")
  /\ Check(p, SecretError(data[p], cmd[p].pass))
  /\ data' = [data EXCEPT ![p] = ImportedRow(@)]
  /\ UNCHANGED <<wallets, files, drawn, cmd, started>>

(* ensure_wallet_exists *)
CheckExists(p) ==
  /\ Running(p, "exists")
  /\ Check(p, IF AddressExists(cmd[p].home, cmd[p].addr) THEN NULL ELSE "WalletNotFound")
  /\ UNCHANGED <<wallets, files, drawn, cmd, data, started>>

(* extract_wallet_data_to_file: SELECT, then fs::write, which truncates    *)
(* the file before it writes it.                                           *)
ReadRow(p) ==
  LET h == cmd[p].home
      found == AddressExists(h, cmd[p].addr)
  IN /\ Running(p, "read")
     /\ Check(p, IF found THEN NULL ELSE "WalletNotFound")
     /\ data' = [data EXCEPT ![p] = IF found THEN RowAt(h, cmd[p].addr) ELSE NULL]
     /\ UNCHANGED <<wallets, files, drawn, cmd, started>>

TruncateFile(p) ==
  /\ Running(p, "truncate")
  /\ files' = [files EXCEPT ![cmd[p].path] = Truncated]
  /\ Advance(p)
  /\ UNCHANGED <<wallets, drawn, cmd, data, result, started>>

WriteFile(p) ==
  /\ Running(p, "write")
  /\ files' = [files EXCEPT ![cmd[p].path] = data[p]]
  /\ Finish(p, "ok")
  /\ UNCHANGED <<wallets, drawn, cmd, data, started>>

(* load_mnemonic and load_key: SELECT the row, then decrypt it.            *)
Load(p) ==
  LET c   == cmd[p]
      row == RowAt(c.home, c.addr)
      error == IF ~AddressExists(c.home, c.addr) THEN "WalletNotFound"
               ELSE IF c.op = "show_mnemonic" THEN MnemonicError(row, c.pass)
               ELSE KeyError(row, c.pass)
  IN /\ Running(p, "load")
     /\ Finish(p, IF error = NULL THEN "ok" ELSE error)
     /\ UNCHANGED <<wallets, files, drawn, cmd, data, started>>

(* The user runs a command.  A generated mnemonic is one nobody has seen.  *)
Start(p, c) ==
  LET derived == c.op \in Storing \ {"import_file"}
  IN /\ result[p] # "running"
     /\ started < MaxCommands
     /\ c.op = "create" => c.addr.secret \notin drawn
     /\ cmd' = [cmd EXCEPT ![p] = c]
     /\ at' = [at EXCEPT ![p] = 1]
     /\ data' = [data EXCEPT ![p] = IF derived THEN NewRow(c) ELSE NULL]
     /\ result' = [result EXCEPT ![p] = "running"]
     /\ drawn' = IF derived THEN drawn \cup {c.addr.secret} ELSE drawn
     /\ started' = started + 1
     /\ UNCHANGED <<wallets, files>>

(* The process ends before its command does.                               *)
Abort(p) ==
  /\ result[p] = "running"
  /\ Finish(p, "aborted")
  /\ UNCHANGED <<wallets, files, drawn, cmd, data, started>>

Init ==
  /\ wallets = [h \in Homes |-> {}]
  /\ files \in [Paths -> ForeignFiles \cup {NoFile}]
  /\ \A s \in Secrets : files[s] = NoFile
  /\ drawn = UNION {{f.key.secret, f.addr.secret, Checked(f).secret} :
                      f \in {files[x] : x \in Paths} \ {NoFile}}
  /\ cmd = [p \in Processes |-> NULL]
  /\ at = [p \in Processes |-> 1]
  /\ data = [p \in Processes |-> NULL]
  /\ result = [p \in Processes |-> "idle"]
  /\ started = 0

Step(p) ==
  \/ CheckLabel(p) \/ CheckAddress(p) \/ Insert(p)
  \/ ParseFile(p) \/ DecryptFile(p)
  \/ CheckExists(p) \/ ReadRow(p) \/ TruncateFile(p) \/ WriteFile(p)
  \/ Load(p)

Next == \E p \in Processes :
          \/ \E c \in Command : Start(p, c)
          \/ Step(p)
          \/ Abort(p)

Spec == Init /\ [][Next]_vars
-----------------------------------------------------------------------------
(* Every variable keeps its type, and a running command is at a step of    *)
(* its operation with the wallet that step works on in memory.             *)
HoldsRow(p) ==
  \/ cmd[p].op \in Storing \ {"import_file"}
  \/ cmd[p].op = "import_file" /\ at[p] # 1
  \/ cmd[p].op = "backup" /\ at[p] \in {4, 5}

ProcessOK(p) ==
  /\ result[p] # "idle" => cmd[p] \in Command
  /\ result[p] = "running" => at[p] \in DOMAIN Steps[cmd[p].op]
  /\ result[p] = "running" /\ HoldsRow(p) => data[p] \in Row

TypeOK ==
  /\ wallets \in [Homes -> SUBSET Row]
  /\ files \in [Paths -> Row \cup {NoFile, Truncated}]
  /\ drawn \subseteq Secrets
  /\ cmd \in [Processes -> Command \cup {NULL}]
  /\ at \in [Processes -> 1..10]
  /\ data \in [Processes -> Row \cup {NULL}]
  /\ result \in [Processes -> Errors \cup {"idle", "running", "ok"}]
  /\ started \in 0..MaxCommands
  /\ \A p \in Processes : ProcessOK(p)

(* Whatever two runs of the CLI check and in whatever order they insert,   *)
(* no two wallets of a home share a label or an address: the table's       *)
(* UNIQUE columns hold although the checks before the INSERT can be stale. *)
UniqueRows ==
  \A h \in Homes : \A v, w \in wallets[h] :
    v.label = w.label \/ v.addr = w.addr => v = w

(* Every stored wallet opens, under one passphrase, to the key its address *)
(* is derived from, and its mnemonic opens to the same key unless the      *)
(* wallet came in as a bare key, in which case asking for the mnemonic     *)
(* says so: create, every import, and every chain of backups and imports   *)
(* keep the two ciphertexts and effective_import_method in step.  A file   *)
(* from elsewhere whose two halves never agreed is stored all the same,    *)
(* and then only the half that its import opened is sure to be the key.    *)
Opens(w) ==
  \E pass \in Passphrases :
    /\ KeyError(w, pass) = NULL /\ w.key.secret = w.addr.secret
    /\ IF w.mnemonic = NULL THEN MnemonicError(w, pass) = "NoMnemonicAvailable"
       ELSE MnemonicError(w, pass) = NULL /\ w.mnemonic.secret = w.addr.secret

Consistent(w) ==
  w.mnemonic # NULL => w.mnemonic = w.key /\ Effective(w) # "private_key_import"

Disagrees(w) ==
  \E f \in ForeignFiles : /\ ~Consistent(f)
                         /\ w.addr = f.addr /\ w.mnemonic = f.mnemonic /\ w.key = f.key

Sound(w) == Checked(w).secret = w.addr.secret /\ (Opens(w) \/ Disagrees(w))

WalletsOpen == \A h \in Homes : \A w \in wallets[h] : Sound(w)

(* What WalletsOpen rests on: what files hold is consistent or what they   *)
(* held from the start, and a running command holds a wallet that is as    *)
(* sound as its next step needs.                                           *)
Known(w) == Consistent(w) \/ Disagrees(w)

DataReady(p) ==
  LET op == cmd[p].op
  IN /\ op \in Storing \ {"import_file"} => Sound(data[p])
     /\ op = "import_file" /\ at[p] # 1 => Known(data[p])
     /\ op = "import_file" /\ at[p] = 7 => FieldsError(data[p]) = NULL
     /\ op = "import_file" /\ at[p] \in {8, 9, 10} => Sound(data[p])
     /\ op = "backup" /\ at[p] \in {4, 5} => Sound(data[p])

OpenInv ==
  /\ WalletsOpen
  /\ \A f \in Paths : files[f] \in Row => Known(files[f])
  /\ \A p \in Processes : result[p] = "running" => DataReady(p)

(* A command that reported success has stored the wallet it reported: the  *)
(* address (and mnemonic) shown to the user are in the table.              *)
SuccessIsStored ==
  \A p \in Processes :
    result[p] = "ok" /\ cmd[p].op \in Storing => data[p] \in wallets[cmd[p].home]

(* With any number of runs at once a success is less: the wallet, or one   *)
(* that took its label or its address, is in the table.                    *)
SuccessIsAccountedFor ==
  \A p \in Processes :
    result[p] = "ok" /\ cmd[p].op \in Storing => Conflicts(cmd[p].home, data[p])

(* A refusal stays true: the label or the address a command was refused    *)
(* for is taken, and a wallet said to have no mnemonic has none, or came   *)
(* in a file that says both, whatever other runs insert afterwards.        *)
HasNoMnemonic(w) == w.mnemonic = NULL \/ Disagrees(w)

RefusalsStandUp ==
  \A p \in Processes :
    /\ result[p] = "LabelAlreadyExists" => LabelExists(cmd[p].home, data[p].label)
    /\ result[p] = "AddressAlreadyExists" => AddressExists(cmd[p].home, data[p].addr)
    /\ result[p] = "NoMnemonicAvailable" => HasNoMnemonic(RowAt(cmd[p].home, cmd[p].addr))

(* The commands implement the registry: a wallet joins in one step, under  *)
(* a free label and address, with its own key in the half that is opened   *)
(* on the way in, and never changes.                                       *)
KeyOfAddress == [a \in Addresses |-> a.secret]

Entries(rows) ==
  {[label |-> w.label, addr |-> w.addr, key |-> Checked(w).secret] : w \in rows}

Registry == INSTANCE WalletRegistry
  WITH KeyOf <- KeyOfAddress,
       registry <- [h \in Homes |-> Entries(wallets[h])]

ImplementsRegistry == Registry!Spec
=============================================================================
