----------------------------- MODULE ConfigFile ------------------------------
(***************************************************************************)
(* The configuration file: "init" writes it in place, "update-config"      *)
(* changes single values and replaces it by rename, every other command    *)
(* parses it.  Runs interleave at the prompts, and may end at any of them. *)
(*                                                                         *)
(* Abstractions.  A table has the two Bitcoin APIs and one other value,    *)
(* "amount", for the scalar keys every table has.  Invalid is a value that *)
(* TOML takes and the typed parse does not: a negative number, a string    *)
(* that is no URL.  URLs are taken up to the slash that init and the parse *)
(* add.  A truncated file, or one with the ends of two writes, is Torn: it *)
(* has no table update-config would find.                                  *)
(***************************************************************************)
EXTENDS Naturals, FiniteSets

CONSTANTS
  Processes,       \* runs of the CLI
  Required,        \* bitcoin, testnet4: tables every file needs
  Optional,        \* signet, regtest
  Urls, Amounts,
  Providers,       \* Providers[n]: URLs of the menu init shows for the network
  DefaultUrl, DefaultAmount,
  HandTables,      \* what the user writes with an editor
  MaxCommands,     \* bound: commands and edits in a behaviour
  Torn, Invalid, NULL

VARIABLES
  file,            \* bridge_cli_config.toml: NULL, Torn, or its tables
  run,             \* run[p]: the command of p in progress, or NULL
  started,
  author,          \* the init whose tables the file has, NULL after another write
  damaged,         \* an init ended between opening and writing, or two met
  acked            \* values update-config reported and nobody was asked to change

vars == <<file, run, started, author, damaged, acked>>

Networks == Required \cup Optional
Values == [esplora |-> Urls \cup {Invalid}, amount |-> Amounts \cup {Invalid}]
Keys == DOMAIN Values
Table == [esplora: Values["esplora"] \cup {NULL}, rpc: BOOLEAN, amount: Values["amount"]]
Doc == [Networks -> Table \cup {NULL}]
Entry == UNION {[network: Networks, key: {k}, value: Values[k]] : k \in Keys}

(* Answers to the menus: a provider, shown with its URL, or a custom URL.  *)
Choice == [from: {"menu", "input"}, url: Urls]
Choices == {c \in [Required -> Choice] :
              \A n \in Required : c[n].from = "menu" => c[n].url \in Providers[n]}
InitRun == [cmd: {"init"}, at: {"overwrite", "choose", "open", "write"},
            doc: Doc \cup {NULL}, choices: Choices \cup {NULL}, seen: SUBSET Entry,
            linked: BOOLEAN, empty: BOOLEAN]
UpdateRun == [cmd: {"update"}, at: {"confirm"}, network: Networks, base: Doc,
              doc: Doc, answers: SUBSET Entry, seen: SUBSET Entry]
Runs == InitRun \cup UpdateRun \cup {NULL}

ASSUME ConfigAssumption ==
  /\ DefaultUrl \in Urls /\ DefaultAmount \in Amounts
  /\ Invalid \notin Urls \cup Amounts /\ NULL \notin Urls \cup Amounts \cup {Invalid}
  /\ Providers \in [Required -> SUBSET Urls]
  /\ \A n \in Required : DefaultUrl \in Providers[n]
  /\ HandTables \subseteq Table \cup {NULL}
  /\ Required \cap Optional = {}
  /\ Torn # NULL /\ Torn \notin Doc /\ NULL \notin Doc \cup Table \cup Choices
  /\ NULL \notin InitRun \cup UpdateRun
  /\ MaxCommands \in Nat
-----------------------------------------------------------------------------
(* BridgeCliConfig::defaults_for and default_networks.                     *)
New(url) == [esplora |-> url, rpc |-> FALSE, amount |-> DefaultAmount]
Default == New(DefaultUrl)
Fresh == [n \in Networks |-> IF n \in Required THEN Default ELSE NULL]

(* toml::from_str::<NetworkConfigs>: all tables or none.                   *)
Valid(table) == table.esplora # Invalid /\ table.amount # Invalid
Parses(f) ==
  /\ f \in Doc
  /\ \A n \in Required : f[n] # NULL
  /\ \A n \in Networks : f[n] # NULL => Valid(f[n])

(* try_parse_file: the table is there and has exactly one API.             *)
Accepts(f, n) ==
  /\ Parses(f) /\ f[n] # NULL
  /\ (f[n].esplora # NULL) <=> ~f[n].rpc

(* What init starts from, and setup_networks: a provider of the menu keeps *)
(* the URL that is there, and brings its own where there is none.          *)
ResetNone(doc) == doc
ResetAll(doc) == Fresh
Reset(doc) == [n \in Networks |-> IF n \in Required THEN Default ELSE doc[n]]

Chosen(table, choice) ==
  [esplora |-> IF choice.from = "menu" /\ table.esplora # NULL THEN table.esplora
               ELSE choice.url,
   rpc |-> FALSE, amount |-> table.amount]
SetUp(doc, choices) ==
  [n \in Networks |-> IF n \in Required THEN Chosen(doc[n], choices[n]) ELSE doc[n]]

(* An entry is in a table, is put there, is asked for by an update.        *)
Holds(doc, e) == doc[e.network] # NULL /\ doc[e.network][e.key] = e.value
Put(doc, e) == [doc EXCEPT ![e.network][e.key] = e.value]
Asked(answers, e) == \E a \in answers : a.network = e.network /\ a.key = e.key

(* The file is replaced: what other runs have open is no longer it.        *)
Unlinked(runs) ==
  [p \in Processes |-> IF runs[p] # NULL /\ runs[p].cmd = "init"
                       THEN [runs[p] EXCEPT !.linked = FALSE] ELSE runs[p]]
(* The file is written or truncated in place under the runs that have it   *)
(* open.                                                                   *)
Emptied(runs, empty) ==
  [p \in Processes |-> IF runs[p] # NULL /\ runs[p].cmd = "init"
                       THEN [runs[p] EXCEPT !.empty = empty] ELSE runs[p]]
-----------------------------------------------------------------------------
Idle(p) == run[p] = NULL /\ started < MaxCommands
At(p, cmd, at) == run[p] # NULL /\ run[p].cmd = cmd /\ run[p].at = at
End(p) == run' = [run EXCEPT ![p] = NULL]

(* cli_init up to its question about an existing file.                     *)
StartInit(p) ==
  /\ Idle(p)
  /\ started' = started + 1
  /\ run' = [run EXCEPT ![p] =
       [cmd |-> "init", at |-> IF file = NULL THEN "choose" ELSE "overwrite",
        doc |-> IF file = NULL THEN Fresh ELSE NULL, choices |-> NULL,
        seen |-> IF file = NULL THEN acked ELSE {}, linked |-> FALSE, empty |-> FALSE]]
  /\ UNCHANGED <<file, author, damaged, acked>>

OverwriteAnyway(p) ==
  /\ At(p, "init", "overwrite")
  /\ run' = [run EXCEPT ![p].at = "choose", ![p].seen = acked,
               ![p].doc = IF file = NULL THEN Fresh
                          ELSE IF Parses(file) THEN Reset(file) ELSE NULL]
  /\ UNCHANGED <<file, started, author, damaged, acked>>

(* "Do you want to overwrite it" is answered with yes: the file is parsed  *)
(* all the same, and one that does not parse ends the run.                 *)
Overwrite(p) ==
  /\ At(p, "init", "overwrite")
  /\ IF file = NULL \/ Parses(file)
     THEN run' = [run EXCEPT ![p].at = "choose", ![p].seen = acked,
                    ![p].doc = IF file = NULL THEN Fresh ELSE Reset(file)]
     ELSE End(p)
  /\ UNCHANGED <<file, started, author, damaged, acked>>

Choose(p, choices) ==
  /\ At(p, "init", "choose")
  /\ run' = [run EXCEPT ![p].at = "open", ![p].choices = choices,
               ![p].doc = SetUp(@, choices)]
  /\ UNCHANGED <<file, started, author, damaged, acked>>

(* write_config_to: fs::write opens and truncates the file, then writes.   *)
Open(p) ==
  /\ At(p, "init", "open")
  /\ file' = Torn /\ author' = NULL
  /\ run' = [Emptied(run, TRUE) EXCEPT ![p].at = "write", ![p].linked = TRUE]
  /\ UNCHANGED <<started, damaged, acked>>

(* Over what another run has written since, the tail of that may remain.   *)
Write(p) ==
  /\ At(p, "init", "write")
  /\ IF run[p].linked
     THEN /\ \/ /\ file' = run[p].doc
                /\ author' = [choices |-> run[p].choices]
                /\ damaged' = FALSE
             \/ /\ ~run[p].empty /\ file # run[p].doc
                /\ file' = Torn /\ author' = NULL /\ damaged' = TRUE
          /\ acked' = {e \in acked \cap run[p].seen : e.network \notin Required}
          /\ run' = [Emptied(run, FALSE) EXCEPT ![p] = NULL]
     ELSE End(p) /\ UNCHANGED <<file, author, damaged, acked>>
  /\ UNCHANGED started

(* update_config_with_confirm, up to the first question.                   *)
StartUpdate(p, n) ==
  /\ Idle(p)
  /\ file \in Doc /\ file[n] # NULL
  /\ started' = started + 1
  /\ run' = [run EXCEPT ![p] =
       [cmd |-> "update", at |-> "confirm", network |-> n, base |-> file, doc |-> file,
        answers |-> {}, seen |-> acked]]
  /\ UNCHANGED <<file, author, damaged, acked>>

(* A value of the same type for a key that is there, confirmed.            *)
Set(p, entry) ==
  run' = [run EXCEPT ![p].doc = Put(@, entry),
            ![p].answers = {e \in @ : e.key # entry.key} \cup {entry}]

ConfirmNew(p, entry) ==
  /\ At(p, "update", "confirm") /\ entry.network = run[p].network
  /\ run[p].doc[entry.network] # NULL
  /\ Set(p, entry)
  /\ UNCHANGED <<file, started, author, damaged, acked>>

Confirm(p, entry) ==
  /\ At(p, "update", "confirm") /\ entry.network = run[p].network
  /\ run[p].doc[entry.network] # NULL
  /\ run[p].doc[entry.network][entry.key] # NULL
  /\ Set(p, entry)
  /\ UNCHANGED <<file, started, author, damaged, acked>>

(* persist_doc_atomic: a temporary file, renamed.                          *)
Report(p) ==
  acked' = {e \in acked \cap run[p].seen : ~Asked(run[p].answers, e)} \cup run[p].answers

PersistInPlace(p) ==
  /\ At(p, "update", "confirm") /\ run[p].answers # {}
  /\ file' \in {run[p].doc, Torn} /\ author' = NULL /\ damaged' = FALSE
  /\ run' = [Unlinked(run) EXCEPT ![p] = NULL]
  /\ Report(p)
  /\ UNCHANGED started

Persist(p) ==
  /\ At(p, "update", "confirm") /\ run[p].answers # {}
  /\ file' = run[p].doc /\ author' = NULL /\ damaged' = FALSE
  /\ run' = [Unlinked(run) EXCEPT ![p] = NULL]
  /\ Report(p)
  /\ UNCHANGED started

(* The answer is no, an argument is refused, a prompt is interrupted, or   *)
(* the process dies: whatever was done stays.                              *)
Abort(p) ==
  /\ run[p] # NULL
  /\ damaged' = (damaged \/ (At(p, "init", "write") /\ run[p].linked /\ file = Torn))
  /\ End(p)
  /\ UNCHANGED <<file, started, author, acked>>

(* The user adds, changes or removes a table, or removes the file.         *)
EditByHand(n, table) ==
  /\ started < MaxCommands /\ started' = started + 1
  /\ file \in Doc
  /\ file' = [file EXCEPT ![n] = table]
  /\ acked' = {e \in acked : e.network # n}
  /\ author' = NULL /\ damaged' = FALSE
  /\ run' = Unlinked(run)

Remove ==
  /\ started < MaxCommands /\ started' = started + 1
  /\ file # NULL
  /\ file' = NULL /\ author' = NULL /\ damaged' = FALSE /\ acked' = {}
  /\ run' = Unlinked(run)

Init ==
  /\ file = NULL
  /\ run = [p \in Processes |-> NULL]
  /\ started = 0 /\ author = NULL /\ damaged = FALSE /\ acked = {}

Next ==
  \/ \E p \in Processes :
       \/ StartInit(p) \/ Overwrite(p) \/ Open(p) \/ Write(p)
       \/ \E choices \in Choices : Choose(p, choices)
       \/ \E n \in Networks : StartUpdate(p, n)
       \/ \E entry \in Entry : Confirm(p, entry)
       \/ Persist(p) \/ Abort(p)
  \/ \E n \in Networks, table \in HandTables : EditByHand(n, table)
  \/ Remove

Spec == Init /\ [][Next]_vars
-----------------------------------------------------------------------------
(* Every variable keeps its type.                                          *)
TypeOK ==
  /\ file \in Doc \cup {NULL, Torn}
  /\ run \in [Processes -> Runs]
  /\ \A p \in Processes : run[p] # NULL /\ run[p].at \in {"choose", "open", "write"} =>
       run[p].doc \in Doc
  /\ started \in 0..MaxCommands
  /\ author \in [choices: Choices] \cup {NULL}
  /\ damaged \in BOOLEAN
  /\ acked \subseteq Entry

(* The file is torn only while an init writes it, or after an init that    *)
(* ended there or met another: update-config leaves the old file or the    *)
(* new one, whenever it ends and whatever runs beside it.                  *)
TornByInitOnly ==
  file = Torn => \/ damaged
                 \/ \E p \in Processes : At(p, "init", "write") /\ run[p].linked

(* After an init, and until another write, every command finds the tables  *)
(* it needs, as new ones: nothing the user had in them is left, and the    *)
(* URL is the one he typed, or one that the program brings itself.  Which  *)
(* of those a pick from the menu writes is another matter.                 *)
Brought(n, choice) == IF choice.from = "input" THEN {choice.url} ELSE Providers[n]

InitIsFresh ==
  author # NULL => \A n \in Required :
    /\ Accepts(file, n)
    /\ \E url \in Brought(n, author.choices[n]) : file[n] = New(url)

(* The provider picked from the menu is the one in the file.  The code     *)
(* keeps the URL it finds, and the reset has just put the default there.   *)
PickedUrlIsSet ==
  author # NULL => \A n \in Required :
    author.choices[n].from = "menu" => file[n].esplora = author.choices[n].url

(* What update-config has reported is in the file until somebody is asked  *)
(* to change it: an update of the key, an init for its network, an edit of *)
(* its table.  The exception is a run that read the file before: it writes *)
(* back what it has read.                                                  *)
ReportedStays ==
  file \in Doc => \A e \in acked : Holds(file, e)

(* An update with valid values takes no network away: whatever the whole   *)
(* file was accepted for when it was read, it still is when it is written, *)
(* although the parse is all or nothing and one API excludes the other.    *)
UpdateKeepsNetworks ==
  \A p \in Processes :
    run[p] # NULL /\ run[p].cmd = "update" /\ (\A e \in run[p].answers : e.value # Invalid) =>
      \A n \in Networks : Accepts(run[p].base, n) => Accepts(run[p].doc, n)

(* Runs one after the other lose nothing: an update replaces the values it *)
(* was asked for and an init those of the networks it sets up, and all     *)
(* others that were reported stay.  Two at a time do: the later rename     *)
(* wins.                                                                   *)
OneAtATime == \A p, q \in Processes : run[p] # NULL /\ run[q] # NULL => p = q

ReportsAreKept ==
  [][\A p \in Processes :
       /\ Persist(p) => \A e \in acked : Asked(run[p].answers, e) \/ e \in acked'
       /\ Write(p) => \A e \in acked : e.network \in Required \/ e \in acked']_vars
-----------------------------------------------------------------------------
(* What an init holds between its steps, and an update between its         *)
(* questions: the strengthening of the four properties.                    *)
InitRunInv(r) ==
  /\ r.at = "overwrite" => r.seen = {}
  /\ r.at # "overwrite" =>
       /\ Parses(r.doc)
       /\ \A e \in r.seen : e.network \in Required \/ Holds(r.doc, e)
  /\ r.at = "choose" => \A n \in Required : r.doc[n] = Default
  /\ r.at \in {"open", "write"} =>
       /\ r.choices \in Choices
       /\ \A n \in Required : r.doc[n] = Chosen(Default, r.choices[n])

UpdateRunInv(r) ==
  /\ \A n \in Networks :
       /\ r.doc[n] = NULL <=> r.base[n] = NULL
       /\ r.doc[n] # NULL =>
            /\ r.doc[n].rpc = r.base[n].rpc
            /\ r.doc[n].esplora = NULL <=> r.base[n].esplora = NULL
            /\ \A k \in Keys : \/ r.doc[n][k] = r.base[n][k]
                               \/ \E e \in r.answers :
                                    e.network = n /\ e.key = k /\ e.value = r.doc[n][k]
  /\ \A e \in r.answers : e.network = r.network /\ Holds(r.doc, e)
  /\ \A e \in r.seen : Holds(r.doc, e) \/ Asked(r.answers, e)

RunInv == \A p \in Processes :
  /\ run[p] # NULL /\ run[p].cmd = "init" => InitRunInv(run[p])
  /\ run[p] # NULL /\ run[p].cmd = "update" => UpdateRunInv(run[p])
NothingAcked == file = NULL => acked = {}

(* A run that has the file to itself has read all that was reported.       *)
SeesAll ==
  \A p \in Processes : run[p] # NULL =>
    (run[p].cmd = "init" /\ run[p].at = "overwrite") \/ acked \subseteq run[p].seen
=============================================================================
