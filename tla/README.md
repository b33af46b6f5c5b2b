# Clementine CLI in TLA+

Clementine CLI is the command line program with which a user deposits bitcoin into the
Clementine bridge to Citrea, takes a stuck deposit back, and withdraws. Each command is a
short-lived process; what outlives it is one SQLite database and one TOML file under
`~/.clementine`, backup files, and the state of others: the Bitcoin chain (through Esplora), the
bridge's backend and the contract on Citrea. This project models those commands with the
interleavings that the program leaves open: two runs of the CLI on one home, a run that ends
between two of its steps, and the rest of the world that changes between two requests of one run.

Paths below are relative to the repository's crate, `src/src/`. The line numbers behind every
definition are in `PROJECT.json` under `map`.

## 1. Inventory

| Component | State it keeps | Operations |
| --- | --- | --- |
| wallets (`wallet/`, `sqlite_db/wallet_db.rs`) | table `wallets` (UNIQUE address, UNIQUE label, two ciphertexts, import methods); backup files | create, import-mnemonic, import-file, import-private-key, backup, show-mnemonic, show-private-key, list |
| encryption (`wallet/encryption.rs`, `core/secure_types.rs`) | none (memory is wiped) | Argon2 + AES-GCM of a mnemonic or a key under a passphrase |
| deposit addresses (`deposit/`, `sqlite_db/deposit_db.rs`, `btc/script.rs`) | table `deposits` (UNIQUE address, the terms it was computed from) | start, list, details |
| deposit status and recovery (`bin/cli/mod.rs`, `btc/utils.rs`, `services/api.rs`) | none; reads Esplora and the backend | status, create-signed-recovery-tx, verify-recovery-tx, broadcast-recovery-tx |
| withdrawals (`withdraw/`, `btc/utils.rs`, `core/parameters.rs`) | none; calls the contract, posts to the backend | start, scan, generate-withdrawal-signatures, send, send-safe-withdraw, send-withdrawal-signature-to-operators, status |
| configuration (`core/config.rs`) | `bridge_cli_config.toml` | init, update-config, show-config, parsing with defaults |
| proofs for Citrea (`btc/merkle.rs`, `core/parameters.rs`) | none | merkle tree, path, root; encoding of transactions |
| status texts (`*/status.rs`, `core/status_format.rs`) | none | backend words to printed words |
| secure display (`core/secure_display.rs`) | a terminal screen | showing a mnemonic or key, hiding it again |
| key aggregation (`core/musig2.rs`) | none | MuSig2 key of the signers |
| clients (`sqlite_db/sqlite_client.rs`, `services/`) | connections | open and migrate; HTTP with a timeout of 20 s |

How they interact. `bin/clementine-cli.rs` parses one command, reads the configuration file once,
and calls one function of `bin/cli/mod.rs`; everything in it runs in sequence in one task. Wallets
and deposits share the database and nothing else, and no statement runs in a transaction with
another: the database makes one statement atomic. A deposit address commits to the Citrea address,
the user's recovery key, the bridge's aggregated key and the relative lock `user_takes_after`; the
last two come from the configuration. So does, for a withdrawal, the value of the dust output that
a signature claims to spend and the amounts it pays. The configuration is therefore shared state
read at different times by commands that belong together: that is where most of the interesting
behaviours come from.

What is hard to test:

* two runs of the CLI on one home, between a check and the INSERT it guards;
* prompts, which hold a command open for minutes between its checks and its use of them;
* a run that ends half way: after the backend made an account and before the row is stored, after
  a file was truncated and before it was written;
* requests lost before or after the other side acted on them, and the retry by the user;
* a status run or scan made of several requests while blocks are found, reorganised, deposits are
  moved and withdrawals are indexed;
* configuration edited between `deposit start` and recovery, or between generating and sending a
  withdrawal signature;
* chains of backups and imports across machines, which rewrite the import method of a wallet;
* two runs that change one configuration file, one in place and one by rename, across their prompts;
* a terminal that stops doing what it did in the middle of a display, and what is left on it;
* boundaries: the first block in which a recovery is valid, a delay above 65535, a block with one
  transaction, levels of odd length in a tree, amounts above 18 BTC in wei;
* waits on others without a limit: the contract call of `send-safe-withdraw` and its receipt.

What makes each component correct. *Wallets*: one row per label and per address; every stored
wallet opens to its own key, or came in a file whose two halves already disagreed; a success is
stored, a refusal is justified; a row never changes.
*Deposit addresses*: an address shown to the user is recorded with the terms it really commits to,
and the bridge watches it. *Recovery*: the countdown is never too short, the printed command
collects the deposit, a verified transaction will. *Withdrawals*: no call of the contract without a
signature that pays what was asked, proofs belong to their block, an offered output is free, each
of two similar signatures goes to its own command, and every command ends or waits for the contract. *Configuration*: no
reported change is lost, an update takes no network away, the file is torn by `init` only, and an
`init` leaves fresh tables. *Proofs for Citrea*: no index is out of range and a path leads to the
root Bitcoin commits to. *Secure display*: one word at a time, nothing left on
the main screen, the terminal given back, and a secret goes by itself.

`PROJECT.json` lists the hazards one by one at their lines with the properties aimed at them.

## 2. Modules

| Module | What it is |
| --- | --- |
| `WalletRegistry` | abstract: what the wallet component promises |
| `WalletStore` | the wallets table, backup files, and every wallet command statement by statement |
| `WalletStoreProofs` | its theorems |
| `DepositBook` | abstract: what starting a deposit promises |
| `DepositStore` | `deposit start`, the deposits table, the backend's accounts |
| `DepositStoreProofs` | its theorems |
| `Recovery` | payments, the bridge, `deposit status` and the three recovery commands |
| `Withdrawal` | dust, scan, generate, send, the operators, Citrea and reorganisations |
| `RecoveryProofs`, `WithdrawalProofs` | their theorems |
| `ConfigFile`, `ConfigFileProofs` | the configuration file under `init`, `update-config` and the user's editor |
| `Merkle`, `MerkleProofs` | the merkle tree of a block, the path of a transaction and its root, loop by loop |
| `SecureDisplay`, `SecureDisplayProofs` | showing a mnemonic or a key on a terminal |
| `MC...` | foreign files, tables of configuration, the logarithm and symmetric sets for TLC |

In each module, a definition whose name continues another one (`Insert`, `InsertOrReplace`) is a
faulty variant of it, against which a property is tried; it is no part of the specification.

### WalletStore

A command is a record of its arguments and answers to prompts. `Steps` gives, for each command, the
order of its accesses to the table and to files; `at[p]` is where run `p` is; the actions
`CheckLabel`, `CheckAddress`, `Insert`, `ParseFile`, `DecryptFile`, `CheckExists`, `ReadRow`,
`TruncateFile`, `WriteFile` and `Load` are one statement or one system call each, and `Abort` ends
a run between any two. The checks are repeated as often as the code repeats them (before the
prompt, after it, in the library function), since each repetition is another point in time.
`validate_wallet_availability` is two statements, so another run can come between label and
address. `Insert` is `INSERT ... ON CONFLICT DO NOTHING` whose row count nobody reads.
`ImportedRow` rewrites the import methods as `import_wallet_from_file` does, and
`Effective` is `effective_import_method`.

A key and the mnemonic it is derived from are one secret; an address is the key with its purpose,
the prefix the table stores; a ciphertext opens under its passphrase and no other. Of files made
elsewhere nothing is assumed: the address may be wrong, the mnemonic missing or there where the import
method has none, and the two ciphertexts may hold different secrets or passphrases. An import opens one of the
two (`Checked`: the mnemonic if there is one) and stores the other unopened (`wallet/mod.rs:292`). `Sound` is
therefore what the code can promise of a row: the half it opened is the address's own, and the whole row opens
to it, unless its two ciphertexts came together in a file made elsewhere in which they disagree (`Disagrees`). In that
case `show-private-key` may show another wallet's key or refuse the passphrase; nothing the CLI itself wrote is in it.

`WalletRegistry` is the promise: a wallet joins a home in one step, under a free label and address
and with its own key in the half that was opened, and stays as it is. `ImplementsRegistry` is the refinement, mapping a
row to its label, address and the secret of what was opened.

### DepositStore

`Start` computes the terms from the arguments and the configuration read at that moment.
`CreateAccount` is the backend's side and its answer in one action with the outcomes: done and
answered, done and the answer lost, not done. The backend computes the address from its own
parameters, so the comparison in the code is a comparison of terms. `CheckExists` and `Insert` are
the two statements of `store_deposit_address`. Configuration and backend parameters change at any
time. A regtest network asks no backend. Two addresses of a network are equal exactly when their
terms are (the taproot hash is taken to be injective); networks are taken to have different
prefixes, because the table's UNIQUE column is the address alone.

### Recovery

`ReadUtxos`, `ReadHeight` and `ReadDeposits` are the three requests of a status run, in the code's
order, with the fallback each failure has: no outputs, the end of the command, no deposits.
`IncorrectAdvice` and `ListedAdvice` are the two branches that print a recovery command, with the
countdown `Remaining`, the three-quarters threshold, and the way a listed deposit is matched to an
unspent output. `Sign`, `Verifies` and `Broadcast` follow `btc/utils.rs`: the aggregated key is an
argument, the delay is always the configuration's. `Collects` is the consensus rule a recovery must
meet (external). The command of a listed deposit is printed with the recovery and the Citrea
address of the backend's answer (`bin/cli/mod.rs:1003-1005`), the former sent to it without its `dep` prefix
(`services/backend.rs:28`); what the backend sends back is not in `src/`, and `CommandArguments` fills in the deposit's
own addresses, so `PlainCommandCollects` is a claim about outputs, delay and key, and not about that echo. Blocks are not reorganised here, and Esplora's order of outputs is taken to be
that of their index.

### Withdrawal

A scan filters the outputs by the configured value and asks the backend about one after the other
(`AskStatus`), in any order and with anything in between. `Generate` signs two payouts with
the configuration's amounts and dust value. `StartSend` verifies the signature and is followed by the
three requests of `prepare_withdrawal_params`: `CheckOnChain`, `ReadInfo`, `ReadBlock`. Blocks are
found and the tip gives way to another block between them; a block stays available by its hash. There
`safe_withdraw` ends, with a call for the user's browser to sign; `send_safe_withdrawal` goes on with the two awaits
of the contract (`SendCall` for `.send()`, `GetReceipt` for `.get_receipt()`), which have no time limit.
`SendToOperators` posts a signature unverified. The contract's and backend's decisions (`Register`,
`Index`, `Payout`) are external and left open as far as the properties allow. The plan of a
user is the last pair of signatures he was given; an offer is kept until his next command.

A destination is looked up under the withdrawal prefix only (`Refused`), so a deposit wallet of the
user is accepted although `docs/withdraw.md:214` excludes "one of your Clementine wallet addresses".

### ConfigFile

`StartInit`, `Overwrite`, `Choose`, `Open` and `Write` are `cli_init` from prompt to prompt: the file
is read once, after the question whether to overwrite it, and written after the last question, so
what another run does in between is known to neither. `fs::write` is two steps, `Open` (which
truncates) and `Write`; a run that ends between them leaves a torn file, and so may two that meet.
Which run writes into the file that has the name now is kept by `linked`: a rename by
`update-config` leaves an `init` in progress writing to a file nobody sees. `StartUpdate`, `Confirm`
and `Persist` are `update-config`, which reads the document, changes existing scalar keys one
prompt after the other, and renames a temporary file. `Parses` and `Accepts` are what every other
command asks of the file: it parses for all networks or for none, and the network's table has exactly
one of the two APIs. `Invalid` stands for a value that has the right type in TOML and is refused by
the parse, which `update-config` does not try. A `Choice` is a URL and where it comes from: the menu, which
shows each provider with its URL (`Providers`), or the user's own input. A pick from the menu keeps the
URL that is there already (`Chosen`), which the reset has just set to the default: "Blockstream.info" for
mainnet writes the one of mempool.space. `InitIsFresh` says what holds, that the URL is the one typed or one of the
menu's; that it is the one picked, `PickedUrlIsSet`, is refuted (finding 4). `acked` is what `update-config` reported and nobody was asked to change
since. `InitIsFresh`, `ReportedStays` and `UpdateKeepsNetworks` say exactly what is kept and what is not.
`ReportsAreKept` says that nothing reported is undone; two runs at a time break it (TLC finds the two updates
in a moment), and it is proved of runs that do not overlap (`OneAtATime`).

`docs/advanced.md:34` describes a table with both APIs; `Accepts` refuses it, as `try_parse_file` does.
An `init` that is told to overwrite a file that does not parse ends without doing so (`Overwrite`).

### Merkle

`Find` searches the block for the transaction, then `Plant` puts the leaves, `AddLevel` is one
iteration of the loop of `BitcoinMerkleTree::new`, `Climb` one of `get_idx_path`, `FoldLevel` one of
`calculate_root_with_merkle_proof`; every index that Rust checks is checked, and a failure is the
state `panic`. `Init` takes every block, every position in it, the coinbase's included (`prepare_withdrawal_params`
takes whatever outpoint the user gives), and a block that turns out not to have the
transaction. One case does panic, and is named rather than left out: a coinbase asked for in a block that has no other
transaction takes the logarithm of zero (`btc/merkle.rs:27`). `OnlyLonePanics` says that nothing else does. A hash is the pair of its inputs, so equal hashes mean equal trees. `Ilog2` is a
constant with its recursive characterisation as the assumption. The reference, `Bitcoin`, has no loop and no
vector: the node at `j` of height `h` is made of those at `2 * j` and `2 * j + 1` of the height below, the right
one doubled by the left where no leaf is under it, and the tree is as high as its leaves need (`Height`).

### SecureDisplay

`terminal` is one of the three kinds the code tells apart: a full one, one with no size or a dumb TERM, and a
stream. `broken` collects what has stopped working; `Break` may happen between any two steps, since
each call of the code may fail. `content` is what can be read on each of the two screens, so that
what a run leaves there is seen by the next. `Warn`, `EnterScreen`, `ShowWord`, `Tick`,
`WordTimeout`, `ConfirmWord`, `CancelWords`, `ShowCompletion`, `CloseCompletion` are the stages for
a mnemonic, `ShowKey`, `KeyTimeout` and `PressKey` for a private key, each on the alternate and on the
plain screen (`plain`). `Fail` is every way out through an error or a panic, with the cleanup that
`Drop` does. The warning has a screen of its own that `Drop` does not know of: `TerminalRestored`
names that exception. The key on the plain screen is announced with "Press Enter to clear and
continue" and is never cleared: `SecretsGo` names that one. A dumb terminal is taken to honour the
escape codes it is sent.

## 3. Runs

"States" are distinct states. Bounds are on the number of commands, blocks, requests and outputs;
all are constants named as bounds in their module.

| Run | Shows | Instance |
| --- | --- | --- |
| `wallet_sequential` | one command after the other on two machines that share files, starting from six kinds of foreign file: good, mixed-up address, without a mnemonic, a bare key, two halves of different wallets, a mnemonic in a file that says it has none: every stored wallet opens or came with halves that disagree (`WalletsOpen`), a success is stored (`SuccessIsStored`) | 3 commands are enough for import, backup, import elsewhere, and for every pair with an interrupted one before it (913,121 states) |
| `wallet_race` | two runs, all interleavings: `UniqueRows`, `SuccessIsAccountedFor`, `RefusalsStandUp`, the refinement of the registry | 3 commands, two of them at once with a third before or after; 2 labels, 2 secrets |
| `wallet_race_lost` | violation of `SuccessIsStored` with two runs | finding 1 |
| `deposit_race` | two runs against one backend, lost requests, both sides' parameters changing: `RowsTellTheirTerms`, `GivenAddressIsRecorded`, `RecordedIsKnown`, the refinement of the book | 3 commands, 2 keys, a network with and one without a backend |
| `recovery_advice` | status runs, signing and verifying against a growing chain and edits of the delay: `AdviceIsTimely`, `PlainCommandCollects`, `VerifiedCollects` | one payment of up to two outputs, delays 2 and 3, 4 blocks: enough to mine, wait out either delay, and edit in between; right and wrong amount |
| `recovery_two_outputs` | violation of `PrintedCommandCollects` | finding 2 |
| `recovery_old_delay` | violation of `VerifiedMeansCollects` | finding 3 |
| `withdraw_runs` | a scan with an indexed withdrawal and a payout in its middle, signatures of every kind passed to every command, across edits of dust and payouts, with a block giving way to another of its height, or to none, between the requests of a command: `OffersAreUsable`, `PlanWorks`, `RequestsPay`, `ProofsMatch`; no command goes back: `CommandsGoOn`; and `CommandsEnd` | one signer, 3 tables, 2 destinations of which one is a wallet of the user, one output, one height with two blocks, one call (769,200 states). More signers, outputs, heights and calls are covered by the theorems, which bound none of them; `CommandsEnd` alone has only this instance |
| `config_runs` | two runs of `init` and `update-config` and edits by hand: `TornByInitOnly`, `InitIsFresh`, `ReportedStays`, `UpdateKeepsNetworks` | 4 commands or edits, one required and one optional network, two URLs in the menu and one that can only be typed (107,340 states) |
| `config_picked` | violation of `PickedUrlIsSet` | finding 4; one `init` is enough |
| `merkle_path` | every transaction of every block of up to 18 in both trees, coinbase included: `OnlyLonePanics`, `ProofVerifies`, `RootIsBitcoins`, `Answers` | 17 has a level of odd length on every height below the top two, 16 has none, and 18 is past both |
| `display_screens` | any number of mnemonics and keys shown one after the other, on each kind of terminal, with failures at any point: `OneWordAtATime`, `MainStaysClean`, `TerminalRestored`, `RunsGoOn`, `SecretsGo` | 3 words (a first, a middle and a last one), 2 ticks |

`CHECK_DEADLOCK` is off because the systems stop when the bounded commands, blocks and payments are
used up. Symmetry is over runs, labels, secrets, homes, keys, payments, outputs and signers, none
of which is told apart by a definition, and is not used where a liveness property is checked.

*Fairness.* In `Withdrawal` it is weak fairness of the steps of a command in progress
(`FairSpec == Spec /\ WF_vars(Step)`): a command is a single task that takes no lock; each of its
requests is answered, fails, or is given up after `HTTP_TIMEOUT_SECS` (20 s), and after each of
those it goes on or ends. The two awaits of the contract go through the provider's own client, to which
`HTTP_TIMEOUT_SECS` does not apply; they are not in `Step` and nothing is assumed of them (`Contract`). `CommandsEnd`
says accordingly that a command in progress ends or comes to wait for the contract (`AwaitsCitrea`), and no more: one
whose call is never answered waits for ever. In `Merkle` it is that of a loop that runs. In `SecureDisplay` it is that
of the program's own steps (`WF_vars(Program)`): the waiting loops poll the keyboard for 100 ms and
look at the clock. Nothing is assumed of the user, the chain, the backend or the contract: in
particular no key is ever pressed for `SecretsGo`.

*Findings* (details and quotations in `PROJECT.json`):

1. Of two runs that pass the availability check together, both report success and show a
   mnemonic, though one INSERT did nothing. `AloneSuccessIsStored` (proved) says that this race is
   the only way to lose a wallet.
2. If one transaction pays a deposit address twice, the recovery command printed for the
   second deposit names the first output.
3. A recovery transaction signed and verified after `user_takes_after` was edited is "verified" and
   can never be mined for the older deposit. The key has the same weakness: `PrintedCommandCollects`
   also fails with two keys and single outputs, since the command is filled in with today's key.
4. The provider picked from the menu of `init` does not decide the URL: the code keeps the URL it finds in a table it
   has just reset to the default (`bin/cli/mod.rs:249-254`).

Differences that need no search to see, and have no run: the backups of the deposit and the withdrawal
wallet of one key have the same file name (`wallet/wallet_storage.rs:110`); a deposit wallet is
accepted as a destination; the private key on the plain screen is not cleared; "Merkle tree requires at least one
transaction" (`btc/merkle.rs:20`), but one is not enough (`:27`); that is the panic of `OnlyLonePanics`.

## 4. Proofs

All theorems hold for every value of the constants that satisfies the module's assumption
(`ConstantsAssumption`, `ConfigAssumption`, `MerkleAssumption`, `DisplayAssumption`), which says only that `NULL`, `NoFile`
and `Truncated` are none of the values they stand in for, that foreign files have the fields of a backup, that the menu of
`init` has the default among its URLs, that there are finitely many outputs, that `Ilog2` is the logarithm, and that the bounds are numbers.

`WalletStoreProofs`. `TypeCorrect` proves `TypeOK`, which is inductive because it also says where in
its `Steps` a running command is and that it holds a wallet where the next step needs one. On it rest:

* `RowsAreUnique`: only `Insert` adds a row and `Conflicts` guards it.
* `SuccessesAreAccountedFor` and `RefusalsStand`: rows are never removed (`RowsStay`), so what
  is taken stays taken. A refusal for want of a mnemonic needs the uniqueness of addresses, to know
  that the row read then is the row found now.
* `StoredWalletsOpen` through the invariant `OpenInv`: `WalletsOpen` alone is not inductive, since
  an INSERT is as good as the wallet in memory, which is as good as the file it came from. `OpenInv`
  adds that what a file holds is `Consistent` or came with a foreign file (`Known`), and that a running command holds a
  wallet as sound as its next step needs (`DataReady`). That a foreign file's halves agree is not assumed; where they
  do, `Opens` follows, and where they do not the row says so (`Disagrees`).
* `StoreImplementsRegistry`: initial states map to initial states, an `Insert` without a conflict
  maps to `Add` (its checked half is the address's, by `OpenInv`), every other step to a stutter.
* `AloneSuccessIsStored`: with one run, `SuccessIsStored`. Its invariant `Fresh` says that
  label and address are still free once the last check of each has passed.

`DepositStoreProofs`. `TypeCorrect`; then `StoreInv`, the conjunction of the three properties with
what they rest on: data in memory tells its own terms (`DataTellsItsTerms`) and, past the request, is
known to the backend (`PendingIsKnown`). From it `DetailsAreRight`, `GivenAddressesAreRecorded`,
`RecordedAddressesAreKnown`, and `StoreImplementsBook`, in which the backend's action maps to
`Learn`, an insertion to `Record`.

`RecoveryProofs`. `TypeCorrect`; then three invariants. `ReadsInv`: what a status run has read is
true of its payments, except that an unmined one may have been mined since. `AdviceInv`: what it
has printed counts down to the end of the delay, from a height the chain has reached; it is preserved
because a payment changes only by being mined, at a height above all those read (`PaymentsStay`).
`SignedInv`: a recovery waits the delay of its own script. `MinedInv`: no payment is in a block above the tip.
From them `NobodyWaitsTooShort`, `PlainCommandsCollect` and `VerifiedRecoveriesCollect`. A delay of 0 makes the
command of a payment ready before the payment is mined; `PlainCommandCollects` names that case. That a set of outputs has a lowest one (`LeastNumber`) comes from the library's theorem that `<` is well-founded.

`WithdrawalProofs`. `TypeCorrect`; `OfferedIsUsable` from `ScanInv` (the outputs a scan
has still to ask about, or found free, have the signer and value it looks for, and none that is free is
known to be used); `PlansWork` from `PlanInv` (a plan is what was signed with its table);
`PreparedCallsPay` from `SendInv` (a command under way, and every call it prepared, holds a
signature that was verified against the table it was started with); `ProofsAreOfTheirBlock`
from `ChainInv`, which ties the block a command has asked for to the block that held its transaction.
Two lemmas carry them: outputs and blocks stay what they are (`OutputsStay`, `BlocksStay`).
`CommandsOnlyGoOn`: the rank `Ahead` of a command in progress, which counts the outputs of a scan still to be asked
about by their cardinality and goes on to the two awaits of the contract, goes down with each of its steps and is left
alone by everything else.

`ConfigFileProofs`. `ConfigTypes`; then `RunInv`, what a run holds between its steps. For an init,
that its document parses, that the tables it will write are fresh, and that every value reported before
it read the file is in it unless it is about to be reset. For an update, that its document differs from what it read
by its own answers only, and has a table and an API exactly where that had. From it `ConfigNotTorn`,
`ConfigFresh`, `ConfigReported` (the values a writer has seen are in what it writes, and those it has not seen it
stops promising), and `ConfigKeepsNetworks`. `ConfigAloneKeepsReports` has a temporal hypothesis, `[]OneAtATime`,
instead of one on the constants: under it a run that has read the file has read all that was reported (`SeesAll`), since
no other can report in between and an edit by hand takes promises away but makes none.

`MerkleProofs`. `MerkleTypes` and the invariant `TreeInv`: each level is the one over the
level below it, and the depth taken from the number of transactions is the number of levels
there are plus those still to come, for which the assumption on `Ilog2` is unfolded once for a
level (the lengths are halved, rounding up, as is the logarithm of one less). `PathInv`
then ties the loops together: there are positions from the transaction upwards (`Way`), each in range,
beside which the path has the other half of each hash. One level of the fold recomputes the node above, which is
the induction step of `MerkleProofVerifies`; `MerkleOnlyLonePanics` follows from the ranges and from `Ilog2` being asked
for nothing below 1 in a block of two or more.

`MerkleRootIsBitcoins` compares the tree the loop builds with one defined by recursion on the height, and takes no
induction theorem. That the two recursions have a solution is proved from their finite parts (`PowersExist`,
`TreesExist`: a part up to every height exists, and parts agree where both are defined), each by the least
counterexample (`LeastNumber`). The rest is an induction along the program's own steps, the invariant `LevelsInv`: the level at height
`l` holds Bitcoin's nodes of that height, `n` of them with `(n - 1) * 2^l < txs <= n * 2^l`. `AddLevel`
preserves it because a node has a right half in the code exactly where a leaf is under the reference's right half
(`Pairing`); and the last level, of one node, is then the lowest whose power of two covers the block, which is
`Height`. `MerkleLoopsGoOn` needs the same invariant for the sizes: no level is wider, nor the tree higher, than
the block has transactions, so that the rank bounds all that follows.

`SecureDisplayProofs`. `DisplayTypes`; `OrderInv`, which says how far the words are; `ModeInv`, which says where raw mode and
the alternate screen can be on, gives `DisplayRestores`; `ContentInv`, which says that no word is under an
alternate screen, is what `DisplayOneWord` and `DisplayMainClean` need when a run leaves it. `DisplayGoesOn`: the rank
of a display is that of the words still to show, then of its stage, then of the ticks of the stage.

The strengthenings were model-checked before they were proved, those that quantify over natural
numbers with a bound in their place.

*Ranks.* `CommandsGoOn`, `RunsGoOn` and `LoopsGoOn` are the half of the three liveness properties that a prover can
reach: a natural number that every step of the program lowers, whatever the user and the outside do. That a
step is taken at all needs fairness and ENABLED. `LoopsGoOn` is stated in `Merkle` and proved; `merkle_path` does not
check it, since `Answers` on that run says more for its blocks.

Only model-checked: `CommandsEnd`, `SecretsGo` and `Answers`, as liveness is out of the prover's reach.
The violations are by nature TLC's.

## 5. Not modelled

* A change of the configuration is one step (`EditConfig`) in the modules other than `ConfigFile`: they
  read the file once, and what it may contain is `ConfigFile`'s subject.
* Encodings of transactions for the contract (`core/types.rs`) and amounts in wei: formatting of
  bytes; `bridge_amount` in wei overflows a u64 from 18.4 BTC on, which needs no model to see.
* Cryptography (`encryption.rs`, `musig2.rs`), addresses and scripts as bytes: modelled by what opens,
  what is equal and what a hash commits to.
* Status texts: a table without state.
* A display that is killed: the process has no step in which to give the terminal back.
* Listing, details and show-config: they only read, in one statement or one parse.

## 6. Plan

1. `DepositLife`: composition of `DepositStore` and `Recovery`, in which the recorded
   terms are those of the store, and `Owned` is what `WalletStore` holds; `Recovery` implements an
   abstract deposit (paid, then moved or recovered, once).
2. Recovery transactions made by other software, whose sequence is not the delay of their script.
3. An abstract configuration, a table of networks changed one field at a time, and the runs of
   `ConfigFile` that refine it.
4. Theorems about those.
