-------------------------- MODULE ConfigFileProofs ---------------------------
(***************************************************************************)
(* Theorems about ConfigFile for any number of runs, commands, tables and  *)
(* values.                                                                 *)
(***************************************************************************)
EXTENDS ConfigFile, TLAPS

LEMMA KeysOfTables == Keys = {"esplora", "amount"}
  BY DEF Keys, Values

LEMMA EntryParts ==
  ASSUME NEW e \in Entry
  PROVE  /\ e.network \in Networks /\ e.key \in Keys
         /\ e.key = "esplora" => e.value \in Urls \cup {Invalid}
         /\ e.key = "amount" => e.value \in Amounts \cup {Invalid}
<1>1. PICK k \in Keys : e \in [network : Networks, key : {k}, value : Values[k]]
  BY DEF Entry
<1>2. e.network \in Networks /\ e.key = k /\ e.value \in Values[k]
  BY <1>1
<1>3. Values["esplora"] = Urls \cup {Invalid} /\ Values["amount"] = Amounts \cup {Invalid}
  BY DEF Values
<1>4. QED
  BY <1>2, <1>3

LEMMA PutTable ==
  ASSUME NEW doc \in Doc, NEW e \in Entry, doc[e.network] # NULL
  PROVE  /\ Put(doc, e) \in Doc
         /\ \A n \in Networks : n # e.network => Put(doc, e)[n] = doc[n]
         /\ Put(doc, e)[e.network] # NULL
         /\ Put(doc, e)[e.network].rpc = doc[e.network].rpc
         /\ \A k \in Keys : Put(doc, e)[e.network][k] =
              IF k = e.key THEN e.value ELSE doc[e.network][k]
<1>1. e.network \in Networks /\ doc[e.network] \in Table
  BY EntryParts DEF Doc
<1>2. DEFINE t == doc[e.network]
<1>3. DEFINE u == [t EXCEPT ![e.key] = e.value]
<1>4. Put(doc, e) = [doc EXCEPT ![e.network] = u]
  BY DEF Put
<1>5. CASE e.key = "esplora"
  <2>1. u = [t EXCEPT !.esplora = e.value] /\ e.value \in Urls \cup {Invalid}
    BY <1>5, EntryParts
  <2>2. u \in Table /\ u.rpc = t.rpc /\ u.esplora = e.value /\ u.amount = t.amount
    BY <2>1, <1>1 DEF Table, Values
  <2>3. u # NULL
    BY <2>2, ConfigAssumption
  <2>4. \A k \in Keys : u[k] = IF k = e.key THEN e.value ELSE t[k]
    BY <2>2, <1>5, KeysOfTables
  <2> HIDE DEF t, u
  <2>5. QED
    BY <1>1, <1>4, <2>2, <2>3, <2>4 DEF Doc, t
<1>6. CASE e.key = "amount"
  <2>1. u = [t EXCEPT !.amount = e.value] /\ e.value \in Amounts \cup {Invalid}
    BY <1>6, EntryParts
  <2>2. u \in Table /\ u.rpc = t.rpc /\ u.amount = e.value /\ u.esplora = t.esplora
    BY <2>1, <1>1 DEF Table, Values
  <2>3. u # NULL
    BY <2>2, ConfigAssumption
  <2>4. \A k \in Keys : u[k] = IF k = e.key THEN e.value ELSE t[k]
    BY <2>2, <1>6, KeysOfTables
  <2> HIDE DEF t, u
  <2>5. QED
    BY <1>1, <1>4, <2>2, <2>3, <2>4 DEF Doc, t
<1>7. QED
  BY <1>5, <1>6, EntryParts, KeysOfTables
-----------------------------------------------------------------------------
LEMMA DefaultTable ==
  Default \in Table /\ Default # NULL /\ Valid(Default) /\ ~Default.rpc
  /\ Default.esplora = DefaultUrl
<1>1. Default \in Table /\ ~Default.rpc /\ Default.esplora = DefaultUrl /\ Default.amount = DefaultAmount
  BY ConfigAssumption DEF Default, New, Table, Values
<1>2. QED
  BY <1>1, ConfigAssumption DEF Valid

LEMMA FreshDoc ==
  Fresh \in Doc /\ Parses(Fresh) /\ \A n \in Required : Fresh[n] = Default
<1>1. Fresh \in Doc /\ \A n \in Required : Fresh[n] = Default
  BY DefaultTable DEF Fresh, Doc, Networks
<1>2. QED
  BY <1>1, DefaultTable DEF Parses, Fresh

LEMMA ResetDoc ==
  ASSUME NEW doc \in Doc, Parses(doc)
  PROVE  /\ Reset(doc) \in Doc /\ Parses(Reset(doc))
         /\ \A n \in Required : Reset(doc)[n] = Default
         /\ \A n \in Networks \ Required : Reset(doc)[n] = doc[n]
<1>1. Reset(doc) \in Doc
  BY DefaultTable DEF Reset, Doc
<1>2. \A n \in Required : Reset(doc)[n] = Default
  BY DEF Reset, Networks
<1>3. \A n \in Networks \ Required : Reset(doc)[n] = doc[n]
  BY DEF Reset
<1>4. QED
  BY <1>1, <1>2, <1>3, DefaultTable DEF Parses

LEMMA ChosenTable ==
  ASSUME NEW choice \in Choice
  PROVE  /\ Chosen(Default, choice) =
              New(IF choice.from = "menu" THEN DefaultUrl ELSE choice.url)
         /\ Chosen(Default, choice) \in Table /\ Chosen(Default, choice) # NULL
         /\ Valid(Chosen(Default, choice))
         /\ ~Chosen(Default, choice).rpc /\ Chosen(Default, choice).esplora # NULL
<1> DEFINE url == IF choice.from = "menu" THEN DefaultUrl ELSE choice.url
<1>1. url \in Urls /\ url # NULL /\ url # Invalid
  BY ConfigAssumption DEF Choice
<1>2. Chosen(Default, choice) = New(url)
  BY ConfigAssumption DEF Chosen, Default, New
<1> HIDE DEF url
<1>3. New(url) \in Table /\ ~New(url).rpc /\ New(url).esplora = url
      /\ New(url).amount = DefaultAmount
  BY <1>1, ConfigAssumption DEF New, Table, Values
<1>4. Valid(New(url)) /\ New(url) # NULL
  BY <1>1, <1>3, ConfigAssumption DEF Valid
<1>5. QED
  BY <1>1, <1>2, <1>3, <1>4 DEF url

LEMMA SetUpDoc ==
  ASSUME NEW doc \in Doc, Parses(doc), \A n \in Required : doc[n] = Default,
         NEW choices \in Choices
  PROVE  /\ SetUp(doc, choices) \in Doc /\ Parses(SetUp(doc, choices))
         /\ \A n \in Required : SetUp(doc, choices)[n] = Chosen(Default, choices[n])
         /\ \A n \in Networks \ Required : SetUp(doc, choices)[n] = doc[n]
<1>1. \A n \in Required : choices[n] \in Choice
  BY DEF Choices
<1>2. \A n \in Required : SetUp(doc, choices)[n] = Chosen(Default, choices[n])
  BY DEF SetUp, Networks
<1>3. \A n \in Networks \ Required : SetUp(doc, choices)[n] = doc[n]
  BY DEF SetUp
<1>4. \A n \in Required : Chosen(Default, choices[n]) \in Table
  BY <1>1, ChosenTable
<1>5. SetUp(doc, choices) \in Doc
  BY <1>4 DEF SetUp, Doc
<1>6. \A n \in Required : /\ SetUp(doc, choices)[n] # NULL
                          /\ Valid(SetUp(doc, choices)[n])
  BY <1>1, <1>2, ChosenTable
<1>7. QED
  BY <1>2, <1>3, <1>5, <1>6 DEF Parses

(* The other runs keep what they hold.                                     *)
Keeps(runs) ==
  /\ runs \in [Processes -> Runs]
  /\ \A p \in Processes :
       /\ runs[p] = NULL <=> run[p] = NULL
       /\ run[p] # NULL => /\ runs[p].cmd = run[p].cmd /\ runs[p].at = run[p].at
                           /\ runs[p].doc = run[p].doc /\ runs[p].seen = run[p].seen
       /\ run[p] # NULL /\ run[p].cmd = "init" => runs[p].choices = run[p].choices
       /\ run[p] # NULL /\ run[p].cmd = "update" => runs[p] = run[p]

LEMMA RunKinds ==
  ASSUME NEW r \in Runs, r # NULL
  PROVE  /\ r.cmd = "init" => r \in InitRun
         /\ r.cmd = "update" => r \in UpdateRun
         /\ r.cmd = "init" \/ r.cmd = "update"
  BY DEF Runs, InitRun, UpdateRun

LEMMA EmptiedKeeps ==
  ASSUME TypeOK, NEW b \in BOOLEAN
  PROVE  /\ Keeps(Emptied(run, b))
         /\ \A p \in Processes : run[p] # NULL /\ run[p].cmd = "init" =>
              Emptied(run, b)[p].linked = run[p].linked
<1>1. run \in [Processes -> Runs] /\ NULL \notin InitRun
  BY ConfigAssumption DEF TypeOK, Runs
<1>2. ASSUME NEW p \in Processes, run[p] # NULL, run[p].cmd = "init"
      PROVE  /\ Emptied(run, b)[p] \in InitRun
             /\ Emptied(run, b)[p].cmd = "init" /\ Emptied(run, b)[p].at = run[p].at
             /\ Emptied(run, b)[p].doc = run[p].doc /\ Emptied(run, b)[p].seen = run[p].seen
             /\ Emptied(run, b)[p].choices = run[p].choices
             /\ Emptied(run, b)[p].linked = run[p].linked
  <2>1. run[p] \in InitRun
    BY <1>1, <1>2, RunKinds
  <2>2. Emptied(run, b)[p] = [run[p] EXCEPT !.empty = b]
    BY <1>2 DEF Emptied
  <2>3. QED
    BY <1>2, <2>1, <2>2 DEF InitRun
<1>3. ASSUME NEW p \in Processes, ~(run[p] # NULL /\ run[p].cmd = "init")
      PROVE  Emptied(run, b)[p] = run[p]
  BY <1>3 DEF Emptied
<1>4. Emptied(run, b) \in [Processes -> Runs]
  <2>1. \A p \in Processes : Emptied(run, b)[p] \in Runs
    BY <1>1, <1>2, <1>3 DEF Runs
  <2>2. QED
    BY <2>1 DEF Emptied
<1>5. QED
  BY <1>1, <1>2, <1>3, <1>4 DEF Keeps

LEMMA UnlinkedKeeps ==
  ASSUME TypeOK
  PROVE  Keeps(Unlinked(run))
<1>1. run \in [Processes -> Runs] /\ NULL \notin InitRun
  BY ConfigAssumption DEF TypeOK, Runs
<1>2. ASSUME NEW p \in Processes, run[p] # NULL, run[p].cmd = "init"
      PROVE  /\ Unlinked(run)[p] \in InitRun
             /\ Unlinked(run)[p].cmd = "init" /\ Unlinked(run)[p].at = run[p].at
             /\ Unlinked(run)[p].doc = run[p].doc /\ Unlinked(run)[p].seen = run[p].seen
             /\ Unlinked(run)[p].choices = run[p].choices
  <2>1. run[p] \in InitRun
    BY <1>1, <1>2, RunKinds
  <2>2. Unlinked(run)[p] = [run[p] EXCEPT !.linked = FALSE]
    BY <1>2 DEF Unlinked
  <2>3. QED
    BY <1>2, <2>1, <2>2 DEF InitRun
<1>3. ASSUME NEW p \in Processes, ~(run[p] # NULL /\ run[p].cmd = "init")
      PROVE  Unlinked(run)[p] = run[p]
  BY <1>3 DEF Unlinked
<1>4. Unlinked(run) \in [Processes -> Runs]
  <2>1. \A p \in Processes : Unlinked(run)[p] \in Runs
    BY <1>1, <1>2, <1>3 DEF Runs
  <2>2. QED
    BY <2>1 DEF Unlinked
<1>5. QED
  BY <1>1, <1>2, <1>3, <1>4 DEF Keeps
-----------------------------------------------------------------------------
LEMMA TypeInit == Init => TypeOK
<1> SUFFICES ASSUME Init PROVE TypeOK
  OBVIOUS
<1>1. \A p \in Processes : run[p] = NULL
  BY DEF Init
<1>2. run \in [Processes -> Runs]
  BY DEF Init, Runs
<1>3. started \in 0..MaxCommands
  BY ConfigAssumption DEF Init
<1>4. file \in Doc \cup {NULL, Torn} /\ author \in [choices: Choices] \cup {NULL}
      /\ acked \subseteq Entry
  BY DEF Init
<1>5. damaged \in BOOLEAN
  BY DEF Init
<1>6. QED
  BY <1>1, <1>2, <1>3, <1>4, <1>5 DEF TypeOK

(* A step of p that leaves the runs of the others as they are.             *)
LEMMA RunTypes ==
  ASSUME TypeOK, NEW p \in Processes, NEW r \in Runs,
         r # NULL /\ r.at \in {"choose", "open", "write"} => r.doc \in Doc,
         NEW runs, Keeps(runs), run' = [runs EXCEPT ![p] = r]
  PROVE  /\ run' \in [Processes -> Runs]
         /\ \A q \in Processes : run'[q] # NULL /\ run'[q].at \in {"choose", "open", "write"} =>
              run'[q].doc \in Doc
<1>1. runs \in [Processes -> Runs]
  BY DEF Keeps
<1>2. run' \in [Processes -> Runs]
  BY <1>1
<1>3. ASSUME NEW q \in Processes, q # p,
             run'[q] # NULL, run'[q].at \in {"choose", "open", "write"}
      PROVE  run'[q].doc \in Doc
  <2>1. run'[q] = runs[q]
    BY <1>1, <1>3
  <2>2. run[q] # NULL /\ run[q].at = run'[q].at /\ run[q].doc = run'[q].doc
    BY <1>3, <2>1 DEF Keeps
  <2>3. QED
    BY <1>3, <2>2 DEF TypeOK
<1>4. run'[p] = r
  BY <1>1
<1>5. QED
  BY <1>2, <1>3, <1>4

LEMMA SameKeeps ==
  ASSUME TypeOK
  PROVE  Keeps(run)
  BY DEF TypeOK, Keeps

LEMMA EndTypes ==
  ASSUME TypeOK, NEW p \in Processes, NEW runs, Keeps(runs), run' = [runs EXCEPT ![p] = NULL]
  PROVE  /\ run' \in [Processes -> Runs]
         /\ \A q \in Processes : run'[q] # NULL /\ run'[q].at \in {"choose", "open", "write"} =>
              run'[q].doc \in Doc
  BY RunTypes DEF Runs

LEMMA StartedTypes ==
  ASSUME TypeOK, started < MaxCommands, started' = started + 1
  PROVE  started' \in 0..MaxCommands
  BY ConfigAssumption DEF TypeOK

LEMMA StartInitTypes ==
  ASSUME TypeOK, NEW p \in Processes, StartInit(p)
  PROVE  TypeOK'
<1> DEFINE r == [cmd |-> "init", at |-> IF file = NULL THEN "choose" ELSE "overwrite",
        doc |-> IF file = NULL THEN Fresh ELSE NULL, choices |-> NULL,
        seen |-> IF file = NULL THEN acked ELSE {}, linked |-> FALSE, empty |-> FALSE]
<1>1. r \in InitRun
  BY FreshDoc DEF InitRun, TypeOK
<1>2. r.at \in {"choose", "open", "write"} => r.doc \in Doc
  BY FreshDoc
<1>3. run' = [run EXCEPT ![p] = r]
  BY DEF StartInit
<1> HIDE DEF r
<1>4. /\ run' \in [Processes -> Runs]
      /\ \A q \in Processes : run'[q] # NULL /\ run'[q].at \in {"choose", "open", "write"} =>
           run'[q].doc \in Doc
  BY <1>1, <1>2, <1>3, RunTypes, SameKeeps DEF Runs
<1>5. started' \in 0..MaxCommands
  BY StartedTypes DEF StartInit, Idle
<1>6. UNCHANGED <<file, author, damaged, acked>>
  BY DEF StartInit
<1>7. QED
  BY <1>4, <1>5, <1>6 DEF TypeOK

LEMMA OverwriteTypes ==
  ASSUME TypeOK, NEW p \in Processes, Overwrite(p)
  PROVE  TypeOK'
<1>1. UNCHANGED <<file, started, author, damaged, acked>>
  BY DEF Overwrite
<1>2. CASE file = NULL \/ Parses(file)
  <2>1. run[p] \in InitRun
    BY RunKinds DEF Overwrite, At, TypeOK
  <2> DEFINE d == IF file = NULL THEN Fresh ELSE Reset(file)
  <2>2. d \in Doc
    BY <1>2, FreshDoc, ResetDoc DEF Parses
  <2> DEFINE r == [run[p] EXCEPT !.at = "choose", !.seen = acked, !.doc = d]
  <2>3. run' = [run EXCEPT ![p] = r]
    BY <1>2 DEF Overwrite, TypeOK
  <2> HIDE DEF d
  <2>4. r \in InitRun /\ r.doc \in Doc
    BY <2>1, <2>2 DEF InitRun, TypeOK
  <2> HIDE DEF r
  <2>5. QED
    BY <1>1, <2>3, <2>4, RunTypes, SameKeeps DEF Runs, TypeOK
<1>3. CASE ~(file = NULL \/ Parses(file))
  <2>1. run' = [run EXCEPT ![p] = NULL]
    BY <1>3 DEF Overwrite, End
  <2>2. QED
    BY <1>1, <2>1, EndTypes, SameKeeps DEF TypeOK
<1>4. QED
  BY <1>2, <1>3

LEMMA ChooseTypes ==
  ASSUME TypeOK, RunInv, NEW p \in Processes, NEW choices \in Choices, Choose(p, choices)
  PROVE  TypeOK'
<1>1. UNCHANGED <<file, started, author, damaged, acked>>
  BY DEF Choose
<1>2. run[p] \in InitRun /\ run[p] # NULL /\ run[p].cmd = "init" /\ run[p].at = "choose"
  BY RunKinds DEF Choose, At, TypeOK
<1>3. run[p].doc \in Doc
  BY <1>2 DEF TypeOK
<1>4. Parses(run[p].doc) /\ \A n \in Required : run[p].doc[n] = Default
  BY <1>2 DEF RunInv, InitRunInv
<1> DEFINE d == SetUp(run[p].doc, choices)
           r == [run[p] EXCEPT !.at = "open", !.choices = choices, !.doc = d]
<1>5. run' = [run EXCEPT ![p] = r]
  BY DEF Choose, TypeOK
<1>6. d \in Doc
  BY <1>3, <1>4, SetUpDoc
<1> HIDE DEF d
<1>7. r \in InitRun /\ r.doc \in Doc
  BY <1>2, <1>6 DEF InitRun
<1> HIDE DEF r
<1>8. QED
  BY <1>1, <1>5, <1>7, RunTypes, SameKeeps DEF Runs, TypeOK

LEMMA OpenTypes ==
  ASSUME TypeOK, NEW p \in Processes, Open(p)
  PROVE  TypeOK'
<1>1. UNCHANGED <<started, damaged, acked>> /\ file' = Torn /\ author' = NULL
  BY DEF Open
<1>2. run[p] \in InitRun /\ run[p] # NULL /\ run[p].cmd = "init" /\ run[p].at = "open"
  BY RunKinds DEF Open, At, TypeOK
<1>3. run[p].doc \in Doc
  BY <1>2 DEF TypeOK
<1> DEFINE s == Emptied(run, TRUE)
           r == [s[p] EXCEPT !.at = "write", !.linked = TRUE]
<1>4. Keeps(s)
  BY EmptiedKeeps
<1>5. run' = [s EXCEPT ![p] = r]
  BY DEF Open, Emptied
<1> HIDE DEF s
<1>6. s[p] \in InitRun /\ s[p].doc \in Doc
  BY <1>2, <1>3, <1>4, RunKinds DEF Keeps
<1>7. r \in InitRun /\ r.doc \in Doc
  BY <1>6 DEF InitRun
<1> HIDE DEF r
<1>8. QED
  BY <1>1, <1>4, <1>5, <1>7, RunTypes DEF Runs, TypeOK

LEMMA WriteTypes ==
  ASSUME TypeOK, RunInv, NEW p \in Processes, Write(p)
  PROVE  TypeOK'
<1>1. run[p] \in InitRun /\ run[p] # NULL /\ run[p].cmd = "init" /\ run[p].at = "write"
  BY RunKinds DEF Write, At, TypeOK
<1>2. run[p].doc \in Doc /\ run[p].choices \in Choices
  BY <1>1 DEF TypeOK, RunInv, InitRunInv
<1>3. started' = started
  BY DEF Write
<1>4. CASE run[p].linked
  <2> DEFINE s == Emptied(run, FALSE)
  <2>1. Keeps(s) /\ run' = [s EXCEPT ![p] = NULL]
    BY <1>4, EmptiedKeeps DEF Write
  <2>2. acked' \subseteq Entry
    BY <1>4 DEF Write, TypeOK
  <2>3. damaged' \in BOOLEAN
    BY <1>4 DEF Write
  <2>4. file' \in Doc \cup {NULL, Torn} /\ author' \in [choices: Choices] \cup {NULL}
    BY <1>2, <1>4 DEF Write
  <2> HIDE DEF s
  <2>5. QED
    BY <1>3, <2>1, <2>2, <2>3, <2>4, EndTypes DEF TypeOK
<1>5. CASE ~run[p].linked
  <2>1. run' = [run EXCEPT ![p] = NULL] /\ UNCHANGED <<file, author, damaged, acked>>
    BY <1>5 DEF Write, End
  <2>2. QED
    BY <1>3, <2>1, EndTypes, SameKeeps DEF TypeOK
<1>6. QED
  BY <1>4, <1>5

LEMMA StartUpdateTypes ==
  ASSUME TypeOK, NEW p \in Processes, NEW n \in Networks, StartUpdate(p, n)
  PROVE  TypeOK'
<1> DEFINE r == [cmd |-> "update", at |-> "confirm", network |-> n, base |-> file,
                 doc |-> file, answers |-> {}, seen |-> acked]
<1>1. r \in UpdateRun /\ r.at = "confirm"
  BY DEF UpdateRun, TypeOK, StartUpdate
<1>2. run' = [run EXCEPT ![p] = r]
  BY DEF StartUpdate
<1> HIDE DEF r
<1>3. started' \in 0..MaxCommands
  BY StartedTypes DEF StartUpdate, Idle
<1>4. UNCHANGED <<file, author, damaged, acked>>
  BY DEF StartUpdate
<1>5. QED
  BY <1>1, <1>2, <1>3, <1>4, RunTypes, SameKeeps DEF Runs, TypeOK

LEMMA ConfirmTypes ==
  ASSUME TypeOK, NEW p \in Processes, NEW entry \in Entry, Confirm(p, entry)
  PROVE  TypeOK'
<1>1. run[p] \in UpdateRun /\ run[p].at = "confirm"
  BY RunKinds DEF Confirm, At, TypeOK
<1>2. run[p].doc \in Doc /\ run[p].doc[entry.network] # NULL
  BY <1>1 DEF Confirm, UpdateRun
<1> DEFINE d == Put(run[p].doc, entry)
           a == {e \in run[p].answers : e.key # entry.key} \cup {entry}
           r == [run[p] EXCEPT !.doc = d, !.answers = a]
<1>3. d \in Doc /\ a \subseteq Entry
  BY <1>1, <1>2, PutTable DEF UpdateRun
<1>4. run' = [run EXCEPT ![p] = r]
  BY DEF Confirm, Set
<1> HIDE DEF d, a
<1>5. r \in UpdateRun /\ r.at = "confirm"
  BY <1>1, <1>3 DEF UpdateRun
<1> HIDE DEF r
<1>6. UNCHANGED <<file, started, author, damaged, acked>>
  BY DEF Confirm
<1>7. QED
  BY <1>4, <1>5, <1>6, RunTypes, SameKeeps DEF Runs, TypeOK

LEMMA PersistTypes ==
  ASSUME TypeOK, NEW p \in Processes, Persist(p)
  PROVE  TypeOK'
<1>1. run[p] \in UpdateRun
  BY RunKinds DEF Persist, At, TypeOK
<1>2. run[p].doc \in Doc /\ run[p].answers \subseteq Entry
  BY <1>1 DEF UpdateRun
<1>3. file' \in Doc /\ acked' \subseteq Entry
  BY <1>2 DEF Persist, Report, TypeOK
<1>4. damaged' \in BOOLEAN
  BY DEF Persist
<1>5. run' = [Unlinked(run) EXCEPT ![p] = NULL] /\ started' = started /\ author' = NULL
  BY DEF Persist
<1>6. QED
  BY <1>3, <1>4, <1>5, EndTypes, UnlinkedKeeps DEF TypeOK

LEMMA AbortTypes ==
  ASSUME TypeOK, NEW p \in Processes, Abort(p)
  PROVE  TypeOK'
<1>1. damaged' \in BOOLEAN
  BY DEF Abort
<1>2. run' = [run EXCEPT ![p] = NULL] /\ UNCHANGED <<file, started, author, acked>>
  BY DEF Abort, End
<1>3. QED
  BY <1>1, <1>2, EndTypes, SameKeeps DEF TypeOK

LEMMA UserTypes ==
  ASSUME TypeOK,
         Remove \/ \E n \in Networks, table \in HandTables : EditByHand(n, table)
  PROVE  TypeOK'
<1>1. run' = Unlinked(run) /\ author' = NULL
  BY DEF Remove, EditByHand
<1>2. damaged' \in BOOLEAN
  BY DEF Remove, EditByHand
<1>3. started' \in 0..MaxCommands
  BY StartedTypes DEF Remove, EditByHand
<1>4. file' \in Doc \cup {NULL, Torn} /\ acked' \subseteq Entry
  BY ConfigAssumption DEF Remove, EditByHand, TypeOK, Doc
<1>5. ASSUME NEW q \in Processes, run'[q] # NULL, run'[q].at \in {"choose", "open", "write"}
      PROVE  run'[q].doc \in Doc
  BY <1>1, <1>5, UnlinkedKeeps DEF Keeps, TypeOK
<1>6. run' \in [Processes -> Runs]
  BY <1>1, UnlinkedKeeps DEF Keeps
<1>7. QED
  BY <1>1, <1>2, <1>3, <1>4, <1>5, <1>6 DEF TypeOK
-----------------------------------------------------------------------------
(* What the runs hold.                                                     *)
LEMMA RunInvInit == Init => RunInv /\ NothingAcked
  BY DEF Init, RunInv, NothingAcked

LEMMA RunInvStep ==
  ASSUME TypeOK, RunInv, NEW p \in Processes, NEW r \in Runs,
         r # NULL /\ r.cmd = "init" => InitRunInv(r),
         r # NULL /\ r.cmd = "update" => UpdateRunInv(r),
         NEW runs, Keeps(runs), run' = [runs EXCEPT ![p] = r]
  PROVE  RunInv'
<1>1. run' \in [Processes -> Runs] /\ run'[p] = r
  BY DEF Keeps
<1>2. ASSUME NEW q \in Processes, q # p, run'[q] # NULL
      PROVE  /\ run'[q].cmd = "init" => InitRunInv(run'[q])
             /\ run'[q].cmd = "update" => UpdateRunInv(run'[q])
  <2>1. run'[q] = runs[q]
    BY <1>1, <1>2 DEF Keeps
  <2>2. run[q] # NULL /\ run'[q].cmd = run[q].cmd /\ run'[q].at = run[q].at
        /\ run'[q].doc = run[q].doc /\ run'[q].seen = run[q].seen
    BY <1>2, <2>1 DEF Keeps
  <2>3. ASSUME run[q].cmd = "init"
        PROVE  InitRunInv(run'[q])
    <3>1. InitRunInv(run[q])
      BY <2>2, <2>3 DEF RunInv
    <3>2. run'[q].choices = run[q].choices
      BY <2>1, <2>2, <2>3 DEF Keeps
    <3>3. QED
      BY <2>2, <3>1, <3>2 DEF InitRunInv
  <2>4. ASSUME run[q].cmd = "update"
        PROVE  UpdateRunInv(run'[q])
    BY <2>1, <2>2, <2>4 DEF Keeps, RunInv
  <2>5. QED
    BY <2>2, <2>3, <2>4
<1>3. QED
  BY <1>1, <1>2 DEF RunInv

LEMMA EndInv ==
  ASSUME TypeOK, RunInv, NEW p \in Processes, NEW runs, Keeps(runs),
         run' = [runs EXCEPT ![p] = NULL]
  PROVE  RunInv'
  BY RunInvStep DEF Runs

(* A file that parses holds what was reported.                             *)
LEMMA SeenHolds ==
  ASSUME TypeOK, ReportedStays, NothingAcked, file = NULL \/ file \in Doc
  PROVE  \A e \in acked : file # NULL /\ Holds(file, e)
  BY DEF ReportedStays, NothingAcked

LEMMA StartInitInv ==
  ASSUME TypeOK, RunInv, NothingAcked, NEW p \in Processes, StartInit(p)
  PROVE  RunInv'
<1> DEFINE r == [cmd |-> "init", at |-> IF file = NULL THEN "choose" ELSE "overwrite",
        doc |-> IF file = NULL THEN Fresh ELSE NULL, choices |-> NULL,
        seen |-> IF file = NULL THEN acked ELSE {}, linked |-> FALSE, empty |-> FALSE]
<1>1. r \in Runs
  BY FreshDoc DEF InitRun, TypeOK, Runs
<1>2. run' = [run EXCEPT ![p] = r]
  BY DEF StartInit
<1>3. r.cmd = "init" /\ r.seen = {} /\ r.at \in {"choose", "overwrite"}
      /\ (r.at = "choose" => r.doc = Fresh)
  BY DEF NothingAcked
<1> HIDE DEF r
<1>4. InitRunInv(r)
  BY <1>3, FreshDoc DEF InitRunInv
<1>5. QED
  BY <1>1, <1>2, <1>3, <1>4, RunInvStep, SameKeeps

LEMMA OverwriteInv ==
  ASSUME TypeOK, RunInv, ReportedStays, NothingAcked, NEW p \in Processes, Overwrite(p)
  PROVE  RunInv'
<1>1. CASE file = NULL \/ Parses(file)
  <2>1. run[p] \in InitRun /\ run[p].cmd = "init"
    BY RunKinds DEF Overwrite, At, TypeOK
  <2> DEFINE d == IF file = NULL THEN Fresh ELSE Reset(file)
             r == [run[p] EXCEPT !.at = "choose", !.seen = acked, !.doc = d]
  <2>2. d \in Doc /\ Parses(d) /\ \A n \in Required : d[n] = Default
    BY <1>1, FreshDoc, ResetDoc DEF Parses
  <2>3. \A e \in acked : e.network \in Required \/ Holds(d, e)
    <3>1. \A e \in acked : e.network \in Networks /\ file # NULL /\ Holds(file, e)
      BY <1>1, SeenHolds, EntryParts DEF Parses, TypeOK
    <3>2. ASSUME NEW e \in acked, e.network \notin Required
          PROVE  Holds(d, e)
      <4>1. file # NULL /\ Parses(file) /\ file \in Doc /\ Reset(file)[e.network] = file[e.network]
        BY <1>1, <3>1, <3>2, ResetDoc DEF Parses
      <4>2. QED
        BY <3>1, <4>1 DEF Holds
    <3>3. QED
      BY <3>2
  <2>4. run' = [run EXCEPT ![p] = r]
    BY <1>1 DEF Overwrite, TypeOK
  <2> HIDE DEF d
  <2>5. r \in Runs /\ r.cmd = "init" /\ r.at = "choose" /\ r.seen = acked /\ r.doc = d
    BY <2>1, <2>2 DEF InitRun, TypeOK, Runs
  <2> HIDE DEF r
  <2>6. InitRunInv(r)
    BY <2>2, <2>3, <2>5 DEF InitRunInv
  <2>7. QED
    BY <2>4, <2>5, <2>6, RunInvStep, SameKeeps
<1>2. CASE ~(file = NULL \/ Parses(file))
  BY <1>2, EndInv, SameKeeps DEF Overwrite, End
<1>3. QED
  BY <1>1, <1>2

LEMMA ChooseInv ==
  ASSUME TypeOK, RunInv, NEW p \in Processes, NEW choices \in Choices, Choose(p, choices)
  PROVE  RunInv'
<1>1. run[p] \in InitRun /\ run[p] # NULL /\ run[p].cmd = "init" /\ run[p].at = "choose"
  BY RunKinds DEF Choose, At, TypeOK
<1>2. run[p].doc \in Doc
  BY <1>1 DEF TypeOK
<1>3. InitRunInv(run[p])
  BY <1>1 DEF RunInv
<1> DEFINE d == SetUp(run[p].doc, choices)
           r == [run[p] EXCEPT !.at = "open", !.choices = choices, !.doc = d]
<1>4. /\ d \in Doc /\ Parses(d)
      /\ \A n \in Required : d[n] = Chosen(Default, choices[n])
      /\ \A n \in Networks \ Required : d[n] = run[p].doc[n]
  BY <1>1, <1>2, <1>3, SetUpDoc DEF InitRunInv
<1>5. run' = [run EXCEPT ![p] = r]
  BY DEF Choose, TypeOK
<1> HIDE DEF d
<1>6. r \in Runs /\ r.cmd = "init" /\ r.at = "open" /\ r.seen = run[p].seen /\ r.doc = d
      /\ r.choices = choices
  BY <1>1, <1>4 DEF InitRun, Runs
<1> HIDE DEF r
<1>7. \A e \in r.seen : e.network \in Required \/ Holds(d, e)
  <2>1. \A e \in r.seen : /\ e.network \in Networks
                          /\ e.network \in Required \/ Holds(run[p].doc, e)
    BY <1>1, <1>3, <1>6, EntryParts DEF InitRunInv, InitRun
  <2>2. QED
    BY <1>4, <2>1 DEF Holds
<1>8. InitRunInv(r)
  BY <1>4, <1>6, <1>7 DEF InitRunInv
<1>9. QED
  BY <1>5, <1>6, <1>8, RunInvStep, SameKeeps

LEMMA OpenInv ==
  ASSUME TypeOK, RunInv, NEW p \in Processes, Open(p)
  PROVE  RunInv'
<1>1. run[p] \in InitRun /\ run[p] # NULL /\ run[p].cmd = "init" /\ run[p].at = "open"
  BY RunKinds DEF Open, At, TypeOK
<1>2. InitRunInv(run[p])
  BY <1>1 DEF RunInv
<1> DEFINE s == Emptied(run, TRUE)
           r == [s[p] EXCEPT !.at = "write", !.linked = TRUE]
<1>3. Keeps(s)
  BY EmptiedKeeps
<1>4. run' = [s EXCEPT ![p] = r]
  BY DEF Open, Emptied
<1> HIDE DEF s
<1>5. s[p] \in InitRun /\ s[p].doc = run[p].doc /\ s[p].seen = run[p].seen
      /\ s[p].choices = run[p].choices
  BY <1>1, <1>3, RunKinds DEF Keeps
<1>6. r \in Runs /\ r.at = "write" /\ r.cmd = "init" /\ r.doc = run[p].doc
      /\ r.seen = run[p].seen /\ r.choices = run[p].choices
  BY <1>5 DEF InitRun, Runs
<1> HIDE DEF r
<1>7. InitRunInv(r)
  BY <1>1, <1>2, <1>6 DEF InitRunInv
<1>8. QED
  BY <1>3, <1>4, <1>6, <1>7, RunInvStep

LEMMA WriteInv ==
  ASSUME TypeOK, RunInv, NEW p \in Processes, Write(p)
  PROVE  RunInv'
<1>1. CASE run[p].linked
  <2>1. Keeps(Emptied(run, FALSE)) /\ run' = [Emptied(run, FALSE) EXCEPT ![p] = NULL]
    BY <1>1, EmptiedKeeps DEF Write
  <2>2. QED
    BY <2>1, EndInv
<1>2. CASE ~run[p].linked
  BY <1>2, EndInv, SameKeeps DEF Write, End
<1>3. QED
  BY <1>1, <1>2

LEMMA StartUpdateInv ==
  ASSUME TypeOK, RunInv, ReportedStays, NothingAcked,
         NEW p \in Processes, NEW n \in Networks, StartUpdate(p, n)
  PROVE  RunInv'
<1> DEFINE r == [cmd |-> "update", at |-> "confirm", network |-> n, base |-> file,
                 doc |-> file, answers |-> {}, seen |-> acked]
<1>1. r \in Runs /\ r.cmd = "update" /\ r.base = file /\ r.doc = file
      /\ r.answers = {} /\ r.seen = acked
  BY DEF UpdateRun, TypeOK, StartUpdate, Runs
<1>2. run' = [run EXCEPT ![p] = r]
  BY DEF StartUpdate
<1>3. \A e \in acked : Holds(file, e)
  BY SeenHolds DEF StartUpdate
<1> HIDE DEF r
<1>4. UpdateRunInv(r)
  BY <1>1, <1>3 DEF UpdateRunInv
<1>5. QED
  BY <1>1, <1>2, <1>4, RunInvStep, SameKeeps

LEMMA ConfirmInv ==
  ASSUME TypeOK, RunInv, NEW p \in Processes, NEW entry \in Entry, Confirm(p, entry)
  PROVE  RunInv'
<1>1. run[p] \in UpdateRun /\ run[p] # NULL /\ run[p].cmd = "update"
  BY RunKinds DEF Confirm, At, TypeOK
<1> DEFINE old == run[p].doc
           base == run[p].base
           seen == run[p].seen
           answers == run[p].answers
           d == Put(old, entry)
           a == {e \in answers : e.key # entry.key} \cup {entry}
           r == [run[p] EXCEPT !.doc = d, !.answers = a]
<1>2. UpdateRunInv(run[p])
  BY <1>1 DEF RunInv
<1>3. old \in Doc /\ base \in Doc /\ seen \subseteq Entry /\ answers \subseteq Entry
      /\ old[entry.network] # NULL /\ old[entry.network][entry.key] # NULL
  BY <1>1 DEF Confirm, UpdateRun
<1>4. /\ d \in Doc
      /\ \A n \in Networks : n # entry.network => d[n] = old[n]
      /\ d[entry.network] # NULL
      /\ d[entry.network].rpc = old[entry.network].rpc
      /\ \A k \in Keys : d[entry.network][k] =
           IF k = entry.key THEN entry.value ELSE old[entry.network][k]
  BY <1>3, PutTable
<1>5. run' = [run EXCEPT ![p] = r]
  BY DEF Confirm, Set
<1>6. entry.network \in Networks /\ entry.key \in Keys /\ entry.value # NULL
  BY EntryParts, KeysOfTables, ConfigAssumption
<1>7. d[entry.network][entry.key] = entry.value /\ Holds(d, entry)
  BY <1>4, <1>6 DEF Holds
<1>8. \A e \in Entry : /\ e.network # entry.network \/ e.key # entry.key
                       /\ Holds(old, e)
                       => Holds(d, e)
  BY <1>4, EntryParts DEF Holds
<1>9. \A e \in answers : e.key # entry.key => Holds(d, e)
  BY <1>2, <1>3, <1>8 DEF UpdateRunInv
<1>10. \A e \in a : Holds(d, e)
  BY <1>7, <1>9
<1>11. ASSUME NEW e \in seen
       PROVE  Holds(d, e) \/ Asked(a, e)
  <2>1. CASE e.network = entry.network /\ e.key = entry.key
    BY <2>1 DEF Asked
  <2>2. CASE ~(e.network = entry.network /\ e.key = entry.key) /\ Holds(old, e)
    BY <1>3, <1>8, <2>2
  <2>3. CASE ~(e.network = entry.network /\ e.key = entry.key) /\ Asked(answers, e)
    <3>1. PICK b \in answers : b.network = e.network /\ b.key = e.key
      BY <2>3 DEF Asked
    <3>2. CASE b.key # entry.key
      BY <3>1, <3>2 DEF Asked
    <3>3. CASE b.key = entry.key
      <4>1. Holds(old, b)
        BY <1>2, <3>1 DEF UpdateRunInv
      <4>2. b.network # entry.network
        BY <2>3, <3>1, <3>3
      <4>3. b.network = run[p].network /\ entry.network = run[p].network
        BY <1>2, <3>1 DEF Confirm, UpdateRunInv
      <4>4. QED
        BY <4>2, <4>3
    <3>4. QED
      BY <3>2, <3>3
  <2>4. QED
    BY <1>2, <2>1, <2>2, <2>3 DEF UpdateRunInv
<1>12. \A e \in a : e.network = run[p].network
  BY <1>2 DEF Confirm, UpdateRunInv
<1>13. ASSUME NEW n \in Networks
       PROVE  /\ d[n] = NULL <=> base[n] = NULL
              /\ d[n] # NULL =>
                   /\ d[n].rpc = base[n].rpc
                   /\ d[n].esplora = NULL <=> base[n].esplora = NULL
                   /\ \A k \in Keys : \/ d[n][k] = base[n][k]
                                      \/ \E e \in a : e.network = n /\ e.key = k /\ e.value = d[n][k]
  <2>1. CASE n # entry.network
    <3>1. d[n] = old[n]
      BY <1>4, <2>1
    <3>2. \A e \in answers : e.network # n
      BY <1>2, <2>1 DEF UpdateRunInv, Confirm
    <3> HIDE DEF a, d, old, base, answers
    <3>3. QED
      BY <1>2, <3>1, <3>2 DEF UpdateRunInv, old, base, answers
  <2>2. CASE n = entry.network
    <3>1. d[n] # NULL /\ base[n] # NULL /\ d[n].rpc = base[n].rpc
      BY <1>2, <1>3, <1>4, <2>2 DEF UpdateRunInv
    <3>2. ASSUME NEW k \in Keys
          PROVE  \/ d[n][k] = base[n][k]
                 \/ \E e \in a : e.network = n /\ e.key = k /\ e.value = d[n][k]
      <4>1. CASE k = entry.key
        BY <1>7, <2>2, <4>1
      <4>2. CASE k # entry.key
        <5>1. d[n][k] = old[n][k]
          BY <1>4, <2>2, <4>2
        <5>2. old[n][k] = base[n][k] \/ \E e \in answers : e.network = n /\ e.key = k /\ e.value = old[n][k]
          BY <1>2, <1>3, <2>2 DEF UpdateRunInv
        <5>3. QED
          BY <4>2, <5>1, <5>2
      <4>3. QED
        BY <4>1, <4>2
    <3>3. d[n].esplora = NULL <=> base[n].esplora = NULL
      <4>1. old[n].esplora = NULL <=> base[n].esplora = NULL
        BY <1>2, <1>3, <2>2 DEF UpdateRunInv
      <4>2. "esplora" \in Keys /\ d[n]["esplora"] =
              IF "esplora" = entry.key THEN entry.value ELSE old[n]["esplora"]
        BY <1>4, <2>2, KeysOfTables
      <4>3. CASE entry.key = "esplora"
        BY <1>3, <1>6, <2>2, <4>1, <4>2, <4>3
      <4>4. CASE entry.key # "esplora"
        BY <4>1, <4>2, <4>4
      <4>5. QED
        BY <4>3, <4>4
    <3>4. QED
      BY <3>1, <3>2, <3>3
  <2>3. QED
    BY <2>1, <2>2
<1>14. a \subseteq Entry
  BY <1>3
<1> HIDE DEF a, d
<1>15. r \in Runs /\ r.cmd = "update" /\ r.doc = d /\ r.answers = a /\ r.base = base
       /\ r.seen = seen /\ r.network = run[p].network
  BY <1>1, <1>4, <1>14 DEF UpdateRun, Runs
<1> HIDE DEF r, base, seen
<1>16. UpdateRunInv(r)
  BY <1>10, <1>11, <1>12, <1>13, <1>15 DEF UpdateRunInv
<1>17. QED
  BY <1>5, <1>15, <1>16, RunInvStep, SameKeeps

LEMMA RunInvNext ==
  TypeOK /\ RunInv /\ ReportedStays /\ NothingAcked /\ [Next]_vars => TypeOK' /\ RunInv'
<1> SUFFICES ASSUME TypeOK, RunInv, ReportedStays, NothingAcked, [Next]_vars
             PROVE  TypeOK' /\ RunInv'
  OBVIOUS
<1>1. ASSUME NEW p \in Processes, StartInit(p) PROVE TypeOK' /\ RunInv'
  BY <1>1, StartInitTypes, StartInitInv
<1>2. ASSUME NEW p \in Processes, Overwrite(p) PROVE TypeOK' /\ RunInv'
  BY <1>2, OverwriteTypes, OverwriteInv
<1>3. ASSUME NEW p \in Processes, NEW choices \in Choices, Choose(p, choices)
      PROVE  TypeOK' /\ RunInv'
  BY <1>3, ChooseTypes, ChooseInv
<1>4. ASSUME NEW p \in Processes, Open(p) PROVE TypeOK' /\ RunInv'
  BY <1>4, OpenTypes, OpenInv
<1>5. ASSUME NEW p \in Processes, Write(p) PROVE TypeOK' /\ RunInv'
  BY <1>5, WriteTypes, WriteInv
<1>6. ASSUME NEW p \in Processes, NEW n \in Networks, StartUpdate(p, n)
      PROVE  TypeOK' /\ RunInv'
  BY <1>6, StartUpdateTypes, StartUpdateInv
<1>7. ASSUME NEW p \in Processes, NEW entry \in Entry, Confirm(p, entry)
      PROVE  TypeOK' /\ RunInv'
  BY <1>7, ConfirmTypes, ConfirmInv
<1>8. ASSUME NEW p \in Processes, Persist(p) PROVE TypeOK' /\ RunInv'
  <2>1. run' = [Unlinked(run) EXCEPT ![p] = NULL]
    BY <1>8 DEF Persist
  <2>2. QED
    BY <1>8, <2>1, PersistTypes, EndInv, UnlinkedKeeps
<1>9. ASSUME NEW p \in Processes, Abort(p) PROVE TypeOK' /\ RunInv'
  <2>1. run' = [run EXCEPT ![p] = NULL]
    BY <1>9 DEF Abort, End
  <2>2. QED
    BY <1>9, <2>1, AbortTypes, EndInv, SameKeeps
<1>10. ASSUME Remove \/ \E n \in Networks, table \in HandTables : EditByHand(n, table)
       PROVE  TypeOK' /\ RunInv'
  <2>1. run' = Unlinked(run)
    BY <1>10 DEF Remove, EditByHand
  <2>2. Keeps(run')
    BY <2>1, UnlinkedKeeps
  <2>3. ASSUME NEW q \in Processes, run'[q] # NULL
        PROVE  /\ run'[q].cmd = "init" => InitRunInv(run'[q])
               /\ run'[q].cmd = "update" => UpdateRunInv(run'[q])
    <3>1. run[q] # NULL /\ run'[q].cmd = run[q].cmd /\ run'[q].at = run[q].at
          /\ run'[q].doc = run[q].doc /\ run'[q].seen = run[q].seen
      BY <2>2, <2>3 DEF Keeps
    <3>2. ASSUME run[q].cmd = "init" PROVE InitRunInv(run'[q])
      BY <2>2, <3>1, <3>2 DEF Keeps, RunInv, InitRunInv
    <3>3. ASSUME run[q].cmd = "update" PROVE UpdateRunInv(run'[q])
      BY <2>2, <3>1, <3>3 DEF Keeps, RunInv
    <3>4. QED
      BY <3>1, <3>2, <3>3
  <2>4. QED
    BY <1>10, <2>3, UserTypes DEF RunInv
<1>11. CASE UNCHANGED vars
  BY <1>11 DEF vars, TypeOK, RunInv
<1>12. QED
  BY <1>1, <1>2, <1>3, <1>4, <1>5, <1>6, <1>7, <1>8, <1>9, <1>10, <1>11 DEF Next
-----------------------------------------------------------------------------
LEMMA NotTorn == Torn \notin Doc /\ NULL \notin Doc /\ Torn # NULL
  BY ConfigAssumption

(* A step of p that leaves the file and the writers.                       *)
LEMMA StillWriting ==
  ASSUME TypeOK, TornByInitOnly, NEW p \in Processes, NEW r,
         ~(At(p, "init", "write") /\ run[p].linked),
         run' = [run EXCEPT ![p] = r], file' = file, damaged' = damaged
  PROVE  TornByInitOnly'
<1> SUFFICES ASSUME file' = Torn, ~damaged'
             PROVE  \E q \in Processes : At(q, "init", "write")' /\ run'[q].linked
  BY DEF TornByInitOnly
<1>1. PICK q \in Processes : At(q, "init", "write") /\ run[q].linked
  BY DEF TornByInitOnly
<1>2. q # p
  BY <1>1
<1>3. run'[q] = run[q]
  BY <1>2 DEF TypeOK
<1>4. QED
  BY <1>1, <1>3 DEF At

LEMMA TornNext ==
  TypeOK /\ TornByInitOnly /\ [Next]_vars => TornByInitOnly'
<1> SUFFICES ASSUME TypeOK, TornByInitOnly, [Next]_vars PROVE TornByInitOnly'
  OBVIOUS
<1>1. ASSUME NEW p \in Processes, StartInit(p) PROVE TornByInitOnly'
  BY <1>1, StillWriting DEF StartInit, Idle, At
<1>2. ASSUME NEW p \in Processes, Overwrite(p) PROVE TornByInitOnly'
  <2>1. file' = file /\ damaged' = damaged /\ ~At(p, "init", "write")
    BY <1>2 DEF Overwrite, At
  <2>2. CASE file = NULL \/ Parses(file)
    <3>1. run' = [run EXCEPT ![p] = run'[p]]
      BY <1>2, <2>2 DEF Overwrite, TypeOK
    <3>2. QED
      BY <2>1, <3>1, StillWriting
  <2>3. CASE ~(file = NULL \/ Parses(file))
    BY <1>2, <2>1, <2>3, StillWriting DEF Overwrite, End
  <2>4. QED
    BY <2>2, <2>3
<1>3. ASSUME NEW p \in Processes, NEW choices \in Choices, Choose(p, choices)
      PROVE  TornByInitOnly'
  <2>1. file' = file /\ damaged' = damaged /\ ~At(p, "init", "write")
    BY <1>3 DEF Choose, At
  <2>2. run' = [run EXCEPT ![p] = run'[p]]
    BY <1>3 DEF Choose, TypeOK
  <2>3. QED
    BY <2>1, <2>2, StillWriting
<1>4. ASSUME NEW p \in Processes, Open(p) PROVE TornByInitOnly'
  <2>1. run[p] # NULL /\ run[p].cmd = "init" /\ run[p] \in InitRun
    BY <1>4, RunKinds DEF Open, At, TypeOK
  <2>2. Emptied(run, TRUE)[p] = [run[p] EXCEPT !.empty = TRUE]
    BY <2>1 DEF Emptied
  <2>3. run'[p] = [Emptied(run, TRUE)[p] EXCEPT !.at = "write", !.linked = TRUE]
    BY <1>4 DEF Open, Emptied
  <2> DEFINE s == Emptied(run, TRUE)[p]
  <2>4. s \in InitRun /\ s.cmd = "init"
    BY <2>1, <2>2 DEF InitRun
  <2> HIDE DEF s
  <2>5. [s EXCEPT !.at = "write", !.linked = TRUE] \in InitRun
    BY <2>4 DEF InitRun
  <2>6. run'[p] # NULL /\ run'[p].cmd = "init" /\ run'[p].at = "write"
    BY <2>3, <2>4, <2>5, ConfigAssumption DEF InitRun, s
  <2>7. run'[p].linked
    BY <2>3, <2>4 DEF InitRun, s
  <2>8. QED
    BY <2>6, <2>7 DEF TornByInitOnly, At
<1>5. ASSUME NEW p \in Processes, Write(p) PROVE TornByInitOnly'
  <2>1. CASE run[p].linked
    <3>1. run[p].doc \in Doc
      BY <1>5 DEF Write, At, TypeOK
    <3>2. file' = run[p].doc \/ damaged'
      BY <1>5, <2>1 DEF Write
    <3>3. QED
      BY <3>1, <3>2, NotTorn DEF TornByInitOnly
  <2>2. CASE ~run[p].linked
    BY <1>5, <2>2, StillWriting DEF Write, End
  <2>3. QED
    BY <2>1, <2>2
<1>6. ASSUME NEW p \in Processes, NEW n \in Networks, StartUpdate(p, n)
      PROVE  TornByInitOnly'
  BY <1>6, StillWriting DEF StartUpdate, Idle, At
<1>7. ASSUME NEW p \in Processes, NEW entry \in Entry, Confirm(p, entry)
      PROVE  TornByInitOnly'
  <2>1. file' = file /\ damaged' = damaged /\ ~At(p, "init", "write")
    BY <1>7 DEF Confirm, At
  <2>2. run' = [run EXCEPT ![p] = run'[p]]
    BY <1>7 DEF Confirm, Set, TypeOK
  <2>3. QED
    BY <2>1, <2>2, StillWriting
<1>8. ASSUME NEW p \in Processes, Persist(p) PROVE TornByInitOnly'
  <2>1. run[p] \in UpdateRun /\ file' = run[p].doc
    BY <1>8, RunKinds DEF Persist, At, TypeOK
  <2>2. file' # Torn
    BY <2>1, NotTorn DEF UpdateRun
  <2>3. QED
    BY <2>2 DEF TornByInitOnly
<1>9. ASSUME NEW p \in Processes, Abort(p) PROVE TornByInitOnly'
  <2>1. CASE At(p, "init", "write") /\ run[p].linked
    BY <1>9, <2>1 DEF Abort, TornByInitOnly
  <2>2. CASE ~(At(p, "init", "write") /\ run[p].linked)
    <3>1. damaged' = damaged
      BY <1>9, <2>2 DEF Abort, TypeOK
    <3>2. QED
      BY <1>9, <2>2, <3>1, StillWriting DEF Abort, End
  <2>3. QED
    BY <2>1, <2>2
<1>10. ASSUME Remove \/ \E n \in Networks, table \in HandTables : EditByHand(n, table)
       PROVE  TornByInitOnly'
  <2>1. file' \in Doc \cup {NULL}
    BY <1>10, ConfigAssumption DEF Remove, EditByHand, Doc
  <2>2. QED
    BY <2>1, NotTorn DEF TornByInitOnly
<1>11. CASE UNCHANGED vars
  BY <1>11 DEF vars, TornByInitOnly, At
<1>12. QED
  BY <1>1, <1>2, <1>3, <1>4, <1>5, <1>6, <1>7, <1>8, <1>9, <1>10, <1>11 DEF Next

LEMMA FreshNext ==
  TypeOK /\ RunInv /\ InitIsFresh /\ [Next]_vars => InitIsFresh'
<1> SUFFICES ASSUME TypeOK, RunInv, InitIsFresh, [Next]_vars PROVE InitIsFresh'
  OBVIOUS
<1>1. CASE author' = NULL
  BY <1>1 DEF InitIsFresh
<1>2. CASE author' = author /\ file' = file
  BY <1>2 DEF InitIsFresh
<1>3. ASSUME NEW p \in Processes, Write(p) PROVE InitIsFresh'
  <2>1. run[p] # NULL /\ run[p].cmd = "init" /\ run[p].at = "write" /\ run[p].doc \in Doc
    BY <1>3 DEF Write, At, TypeOK
  <2> DEFINE doc == run[p].doc
             choices == run[p].choices
  <2>2. /\ Parses(doc) /\ choices \in Choices
        /\ \A n \in Required : doc[n] = Chosen(Default, choices[n])
    BY <2>1 DEF RunInv, InitRunInv
  <2>3. CASE file' = doc /\ author' = [choices |-> choices]
    <3>1. author'.choices = choices
      BY <2>3
    <3>2. ASSUME NEW n \in Required
          PROVE  /\ Accepts(doc, n)
                 /\ \E url \in Brought(n, choices[n]) : doc[n] = New(url)
      <4>1. choices[n] \in Choice
        BY <2>2 DEF Choices
      <4> HIDE DEF doc, choices
      <4>2. Accepts(doc, n)
        BY <2>2, <4>1, ChosenTable DEF Accepts
      <4>3. doc[n] = New(IF choices[n].from = "menu" THEN DefaultUrl ELSE choices[n].url)
        BY <2>2, <4>1, ChosenTable
      <4>4. (IF choices[n].from = "menu" THEN DefaultUrl ELSE choices[n].url)
              \in Brought(n, choices[n])
        BY <4>1, ConfigAssumption DEF Brought, Choice
      <4>5. QED
        BY <4>2, <4>3, <4>4
    <3>3. QED
      BY <2>3, <3>1, <3>2 DEF InitIsFresh
  <2>4. QED
    BY <1>1, <1>2, <1>3, <2>3 DEF Write
<1>4. (\E p \in Processes : Write(p)) \/ author' = NULL \/ (author' = author /\ file' = file)
  BY DEF Next, vars, StartInit, Overwrite, Choose, Open, StartUpdate, Confirm, Persist, Abort,
     EditByHand, Remove
<1>5. QED
  BY <1>1, <1>2, <1>3, <1>4

LEMMA ReportedNext ==
  TypeOK /\ RunInv /\ ReportedStays /\ NothingAcked /\ [Next]_vars
  => ReportedStays' /\ NothingAcked'
<1> SUFFICES ASSUME TypeOK, RunInv, ReportedStays, NothingAcked, [Next]_vars
             PROVE  ReportedStays' /\ NothingAcked'
  OBVIOUS
<1>1. CASE file' = file /\ acked' = acked
  BY <1>1 DEF ReportedStays, NothingAcked
<1>2. CASE file' = Torn
  BY <1>2, NotTorn DEF ReportedStays, NothingAcked
<1>3. ASSUME NEW p \in Processes, Write(p) PROVE ReportedStays' /\ NothingAcked'
  <2>1. run[p] # NULL /\ run[p].cmd = "init" /\ run[p].at = "write" /\ run[p].doc \in Doc
    BY <1>3 DEF Write, At, TypeOK
  <2>2. \A e \in run[p].seen : e.network \in Required \/ Holds(run[p].doc, e)
    BY <2>1 DEF RunInv, InitRunInv
  <2>3. CASE file' = run[p].doc /\ acked' = {e \in acked \cap run[p].seen : e.network \notin Required}
    BY <2>1, <2>2, <2>3, NotTorn DEF ReportedStays, NothingAcked
  <2>4. QED
    BY <1>1, <1>2, <1>3, <2>3 DEF Write
<1>4. ASSUME NEW p \in Processes, Persist(p) PROVE ReportedStays' /\ NothingAcked'
  <2>1. run[p] # NULL /\ run[p].cmd = "update" /\ run[p] \in UpdateRun
    BY <1>4, RunKinds DEF Persist, At, TypeOK
  <2>2. run[p].doc \in Doc /\ file' = run[p].doc
    BY <1>4, <2>1 DEF Persist, UpdateRun
  <2>3. /\ \A e \in run[p].answers : Holds(run[p].doc, e)
        /\ \A e \in run[p].seen : Holds(run[p].doc, e) \/ Asked(run[p].answers, e)
    BY <2>1 DEF RunInv, UpdateRunInv
  <2>4. acked' = {e \in acked \cap run[p].seen : ~Asked(run[p].answers, e)} \cup run[p].answers
    BY <1>4 DEF Persist, Report
  <2>5. QED
    BY <2>2, <2>3, <2>4, NotTorn DEF ReportedStays, NothingAcked
<1>5. ASSUME NEW n \in Networks, NEW table \in HandTables, EditByHand(n, table)
      PROVE  ReportedStays' /\ NothingAcked'
  <2>1. file \in Doc /\ file' = [file EXCEPT ![n] = table]
        /\ acked' = {e \in acked : e.network # n}
    BY <1>5 DEF EditByHand
  <2>2. file' \in Doc /\ \A m \in Networks : m # n => file'[m] = file[m]
    BY <2>1, ConfigAssumption DEF Doc
  <2>3. \A e \in acked' : e.network \in Networks /\ e.network # n /\ Holds(file, e)
    BY <2>1, EntryParts DEF TypeOK, ReportedStays
  <2>4. QED
    BY <2>2, <2>3, NotTorn DEF ReportedStays, NothingAcked, Holds
<1>6. CASE Remove
  BY <1>6, NotTorn DEF Remove, ReportedStays, NothingAcked
<1>7. (\E p \in Processes : Write(p) \/ Persist(p))
      \/ Remove \/ (\E n \in Networks, table \in HandTables : EditByHand(n, table))
      \/ file' = Torn \/ (file' = file /\ acked' = acked)
  BY DEF Next, vars, StartInit, Overwrite, Choose, Open, StartUpdate, Confirm, Abort
<1>8. QED
  BY <1>1, <1>2, <1>3, <1>4, <1>5, <1>6, <1>7
-----------------------------------------------------------------------------
IInv == TypeOK /\ TornByInitOnly /\ InitIsFresh /\ ReportedStays /\ RunInv /\ NothingAcked

LEMMA IInvAlways == Spec => []IInv
<1>1. Init => IInv
  <2>1. Init => TornByInitOnly
    BY NotTorn DEF Init, TornByInitOnly
  <2>2. Init => InitIsFresh /\ ReportedStays
    BY DEF Init, InitIsFresh, ReportedStays
  <2>3. QED
    BY <2>1, <2>2, TypeInit, RunInvInit DEF IInv
<1>2. IInv /\ [Next]_vars => IInv'
  BY RunInvNext, TornNext, FreshNext, ReportedNext DEF IInv
<1>3. QED
  BY <1>1, <1>2, PTL DEF Spec

(* The variables keep their types: no run goes on without tables to write. *)
THEOREM ConfigTypes == Spec => []TypeOK
<1>1. IInv => TypeOK
  BY DEF IInv
<1>2. QED
  BY <1>1, IInvAlways, PTL

(* A half written file is the work of an init, never of update-config.     *)
THEOREM ConfigNotTorn == Spec => []TornByInitOnly
<1>1. IInv => TornByInitOnly
  BY DEF IInv
<1>2. QED
  BY <1>1, IInvAlways, PTL

(* After an init the required networks are accepted, with new tables and   *)
(* the URL that was typed or one of those the menu offers.                 *)
THEOREM ConfigFresh == Spec => []InitIsFresh
<1>1. IInv => InitIsFresh
  BY DEF IInv
<1>2. QED
  BY <1>1, IInvAlways, PTL

(* A reported update is lost only to a run that read the file before it.   *)
THEOREM ConfigReported == Spec => []ReportedStays
<1>1. IInv => ReportedStays
  BY DEF IInv
<1>2. QED
  BY <1>1, IInvAlways, PTL

(* No update with valid values makes the file unacceptable for a network.  *)
THEOREM ConfigKeepsNetworks == Spec => []UpdateKeepsNetworks
<1>1. IInv => UpdateKeepsNetworks
  <2> SUFFICES ASSUME IInv, NEW p \in Processes, run[p] # NULL, run[p].cmd = "update",
                      \A e \in run[p].answers : e.value # Invalid,
                      NEW n \in Networks, Accepts(run[p].base, n)
               PROVE  Accepts(run[p].doc, n)
    BY DEF UpdateKeepsNetworks
  <2>1. run[p] \in UpdateRun
    BY RunKinds DEF IInv, TypeOK
  <2> DEFINE doc == run[p].doc
             base == run[p].base
  <2>2. doc \in Doc /\ base \in Doc
    BY <2>1 DEF UpdateRun
  <2>3. UpdateRunInv(run[p])
    BY DEF IInv, RunInv
  <2>4. \A m \in Networks : /\ doc[m] = NULL <=> base[m] = NULL
                            /\ doc[m] # NULL => /\ doc[m].rpc = base[m].rpc
                                                /\ doc[m].esplora = NULL <=> base[m].esplora = NULL
    BY <2>3 DEF UpdateRunInv
  <2>5. ASSUME NEW m \in Networks, doc[m] # NULL
        PROVE  Valid(doc[m])
    <3>1. Valid(base[m])
      BY <2>4, <2>5 DEF Accepts, Parses
    <3>2. \A k \in Keys : doc[m][k] = base[m][k] \/ \E e \in run[p].answers : e.value = doc[m][k]
      BY <2>3, <2>5 DEF UpdateRunInv
    <3>3. doc[m]["esplora"] # Invalid /\ doc[m]["amount"] # Invalid
      BY <3>1, <3>2, KeysOfTables DEF Valid
    <3>4. QED
      BY <3>3 DEF Valid
  <2>6. Parses(doc)
    BY <2>2, <2>4, <2>5 DEF Accepts, Parses, Networks
  <2>7. QED
    BY <2>4, <2>6 DEF Accepts
<1>2. QED
  BY <1>1, IInvAlways, PTL
-----------------------------------------------------------------------------
(* Runs that do not overlap.  A step of a run leaves no other.             *)
LEMMA NoOther ==
  ASSUME TypeOK, OneAtATime, OneAtATime', NEW p \in Processes, NEW r \in Runs,
         NEW runs, Keeps(runs), run' = [runs EXCEPT ![p] = r], r # NULL \/ run[p] # NULL,
         r # NULL => (r.cmd = "init" /\ r.at = "overwrite") \/ acked' \subseteq r.seen
  PROVE  SeesAll'
<1>1. run'[p] = r
  BY DEF Keeps
<1>2. ASSUME NEW q \in Processes, q # p PROVE run'[q] = NULL
  <2>1. run'[q] = NULL <=> run[q] = NULL
    BY <1>2 DEF Keeps
  <2>2. CASE r # NULL
    BY <1>1, <1>2, <2>2 DEF OneAtATime
  <2>3. CASE run[p] # NULL
    BY <1>2, <2>1, <2>3 DEF OneAtATime
  <2>4. QED
    BY <2>2, <2>3
<1>3. QED
  BY <1>1, <1>2 DEF SeesAll

LEMMA SeesAllNext ==
  TypeOK /\ RunInv /\ OneAtATime /\ OneAtATime' /\ SeesAll /\ [Next]_vars => SeesAll'
<1> SUFFICES ASSUME TypeOK, RunInv, OneAtATime, OneAtATime', SeesAll, [Next]_vars
             PROVE  SeesAll'
  OBVIOUS
<1>1. run \in [Processes -> Runs] /\ NULL \in Runs
  BY DEF TypeOK, Runs
<1>2. ASSUME NEW p \in Processes, run[p] # NULL, NEW runs, Keeps(runs),
             run' = [runs EXCEPT ![p] = NULL]
      PROVE  SeesAll'
  BY <1>1, <1>2, NoOther
<1>3. ASSUME NEW p \in Processes, StartInit(p) PROVE SeesAll'
  <2> DEFINE r == [cmd |-> "init", at |-> IF file = NULL THEN "choose" ELSE "overwrite",
        doc |-> IF file = NULL THEN Fresh ELSE NULL, choices |-> NULL,
        seen |-> IF file = NULL THEN acked ELSE {}, linked |-> FALSE, empty |-> FALSE]
  <2>1. r \in InitRun
    BY FreshDoc DEF InitRun, TypeOK
  <2>2. r \in Runs /\ r # NULL
    BY <2>1, ConfigAssumption DEF Runs
  <2>3. (r.cmd = "init" /\ r.at = "overwrite") \/ acked \subseteq r.seen
    OBVIOUS
  <2>4. run' = [run EXCEPT ![p] = r] /\ acked' = acked
    BY <1>3 DEF StartInit
  <2> HIDE DEF r
  <2>5. QED
    BY <2>2, <2>3, <2>4, NoOther, SameKeeps
<1>4. ASSUME NEW p \in Processes, Overwrite(p) PROVE SeesAll'
  <2>1. run[p] \in InitRun /\ run[p] # NULL /\ acked' = acked
    BY <1>4, RunKinds DEF Overwrite, At, TypeOK
  <2> DEFINE d == IF file = NULL THEN Fresh ELSE Reset(file)
             r == [run[p] EXCEPT !.at = "choose", !.seen = acked, !.doc = d]
  <2>2. CASE file = NULL \/ Parses(file)
    <3>1. d \in Doc
      BY <2>2, FreshDoc, ResetDoc DEF Parses
    <3>2. run' = [run EXCEPT ![p] = r]
      BY <1>4, <2>2 DEF Overwrite
    <3> HIDE DEF d
    <3>3. r \in InitRun /\ r.seen = acked
      BY <2>1, <3>1 DEF InitRun, TypeOK
    <3>4. r \in Runs /\ r # NULL
      BY <3>3, ConfigAssumption DEF Runs
    <3> HIDE DEF r
    <3>5. QED
      BY <2>1, <3>2, <3>3, <3>4, NoOther, SameKeeps
  <2>3. CASE ~(file = NULL \/ Parses(file))
    <3>1. run' = [run EXCEPT ![p] = NULL]
      BY <1>4, <2>3 DEF Overwrite, End
    <3>2. QED
      BY <1>2, <2>1, <3>1, SameKeeps
  <2>4. QED
    BY <2>2, <2>3
<1>5. ASSUME NEW p \in Processes, NEW choices \in Choices, Choose(p, choices) PROVE SeesAll'
  <2>1. /\ run[p] \in InitRun /\ run[p] # NULL /\ run[p].cmd = "init" /\ run[p].at = "choose"
        /\ acked' = acked
    BY <1>5, RunKinds DEF Choose, At, TypeOK
  <2> DEFINE d == SetUp(run[p].doc, choices)
             r == [run[p] EXCEPT !.at = "open", !.choices = choices, !.doc = d]
  <2>2. run' = [run EXCEPT ![p] = r]
    BY <1>1, <1>5 DEF Choose
  <2>3. d \in Doc
    BY <1>5, <2>1, SetUpDoc DEF TypeOK, RunInv, InitRunInv
  <2> HIDE DEF d
  <2>4. r \in InitRun /\ r.seen = run[p].seen
    BY <1>5, <2>1, <2>3 DEF InitRun
  <2> HIDE DEF r
  <2>5. r \in Runs /\ r # NULL /\ acked' \subseteq r.seen
    BY <2>1, <2>4, ConfigAssumption DEF Runs, SeesAll
  <2>6. QED
    BY <2>2, <2>5, NoOther, SameKeeps
<1>6. ASSUME NEW p \in Processes, Open(p) PROVE SeesAll'
  <2>1. /\ run[p] \in InitRun /\ run[p] # NULL /\ run[p].cmd = "init" /\ run[p].at = "open"
        /\ acked' = acked
    BY <1>6, RunKinds DEF Open, At, TypeOK
  <2> DEFINE s == Emptied(run, TRUE)
             r == [s[p] EXCEPT !.at = "write", !.linked = TRUE]
  <2>2. Keeps(s)
    BY EmptiedKeeps
  <2>3. run' = [s EXCEPT ![p] = r]
    BY <1>6 DEF Open, Emptied
  <2> HIDE DEF s
  <2>4. s[p] \in InitRun /\ s[p].seen = run[p].seen
    BY <2>1, <2>2, RunKinds DEF Keeps
  <2>5. r \in InitRun /\ r.seen = run[p].seen
    BY <2>4 DEF InitRun
  <2> HIDE DEF r
  <2>6. r \in Runs /\ r # NULL /\ acked' \subseteq r.seen
    BY <2>1, <2>5, ConfigAssumption DEF Runs, SeesAll
  <2>7. QED
    BY <2>2, <2>3, <2>6, NoOther
<1>7. ASSUME NEW p \in Processes, Write(p) PROVE SeesAll'
  <2>1. run[p] # NULL
    BY <1>7 DEF Write, At
  <2>2. CASE run[p].linked
    BY <1>2, <1>7, <2>1, <2>2, EmptiedKeeps DEF Write
  <2>3. CASE ~run[p].linked
    BY <1>2, <1>7, <2>1, <2>3, SameKeeps DEF Write, End
  <2>4. QED
    BY <2>2, <2>3
<1>8. ASSUME NEW p \in Processes, NEW n \in Networks, StartUpdate(p, n) PROVE SeesAll'
  <2> DEFINE r == [cmd |-> "update", at |-> "confirm", network |-> n, base |-> file,
                   doc |-> file, answers |-> {}, seen |-> acked]
  <2>1. r \in UpdateRun /\ r.seen = acked
    BY <1>8 DEF UpdateRun, TypeOK, StartUpdate
  <2>2. run' = [run EXCEPT ![p] = r] /\ acked' = acked
    BY <1>8 DEF StartUpdate
  <2> HIDE DEF r
  <2>3. r \in Runs /\ r # NULL
    BY <2>1, ConfigAssumption DEF Runs
  <2>4. QED
    BY <2>1, <2>2, <2>3, NoOther, SameKeeps
<1>9. ASSUME NEW p \in Processes, NEW entry \in Entry, Confirm(p, entry) PROVE SeesAll'
  <2>1. /\ run[p] \in UpdateRun /\ run[p] # NULL /\ run[p].cmd = "update" /\ acked' = acked
    BY <1>9, RunKinds DEF Confirm, At, TypeOK
  <2> DEFINE d == Put(run[p].doc, entry)
             a == {e \in run[p].answers : e.key # entry.key} \cup {entry}
             r == [run[p] EXCEPT !.doc = d, !.answers = a]
  <2>2. run' = [run EXCEPT ![p] = r]
    BY <1>1, <1>9 DEF Confirm, Set
  <2>3. d \in Doc /\ a \subseteq Entry
    BY <1>9, <2>1, PutTable DEF Confirm, UpdateRun
  <2> HIDE DEF d, a
  <2>4. r \in UpdateRun /\ r.seen = run[p].seen
    BY <2>1, <2>3 DEF UpdateRun
  <2> HIDE DEF r
  <2>5. r \in Runs /\ r # NULL /\ acked' \subseteq r.seen
    BY <2>1, <2>4, ConfigAssumption DEF Runs, SeesAll
  <2>6. QED
    BY <2>2, <2>5, NoOther, SameKeeps
<1>10. ASSUME NEW p \in Processes, Persist(p) PROVE SeesAll'
  BY <1>2, <1>10, UnlinkedKeeps DEF Persist, At
<1>11. ASSUME NEW p \in Processes, Abort(p) PROVE SeesAll'
  BY <1>2, <1>11, SameKeeps DEF Abort, End
<1>12. CASE Remove \/ \E n \in Networks, table \in HandTables : EditByHand(n, table)
  <2>1. Keeps(run') /\ acked' \subseteq acked
    BY <1>12, UnlinkedKeeps DEF Remove, EditByHand
  <2>2. QED
    BY <2>1 DEF Keeps, SeesAll
<1>13. CASE UNCHANGED vars
  BY <1>13 DEF vars, SeesAll
<1>14. QED
  BY <1>3, <1>4, <1>5, <1>6, <1>7, <1>8, <1>9, <1>10, <1>11, <1>12, <1>13 DEF Next

(* Commands that are run one after the other, however they end and         *)
(* whatever is edited by hand between them, never undo an update that was  *)
(* reported.                                                               *)
THEOREM ConfigAloneKeepsReports == Spec /\ []OneAtATime => ReportsAreKept
<1>1. Init => SeesAll
  BY DEF Init, SeesAll
<1>2. ASSUME SeesAll, NEW p \in Processes
      PROVE  /\ Persist(p) => \A e \in acked : Asked(run[p].answers, e) \/ e \in acked'
             /\ Write(p) => \A e \in acked : e.network \in Required \/ e \in acked'
  <2>1. Persist(p) => \A e \in acked : Asked(run[p].answers, e) \/ e \in acked'
    BY <1>2 DEF Persist, Report, At, SeesAll
  <2>2. Write(p) => \A e \in acked : e.network \in Required \/ e \in acked'
    BY <1>2 DEF Write, At, SeesAll
  <2>3. QED
    BY <2>1, <2>2
<1>3. SeesAll => [\A p \in Processes :
        /\ Persist(p) => \A e \in acked : Asked(run[p].answers, e) \/ e \in acked'
        /\ Write(p) => \A e \in acked : e.network \in Required \/ e \in acked']_vars
  BY <1>2
<1>4. QED
  BY <1>1, <1>3, SeesAllNext, IInvAlways, PTL DEF Spec, ReportsAreKept, IInv
=============================================================================
