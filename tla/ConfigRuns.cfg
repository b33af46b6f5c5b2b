\* Two runs at a time on one file, with edits of the file in between.
SPECIFICATION Spec
CONSTANTS
  NULL = NULL
  Torn = Torn
  Invalid = Invalid
  Processes = {p1, p2}
  Required = {bitcoin}
  Optional = {signet}
  mempool = mempool
  blockstream = blockstream
  Urls = {mempool, blockstream, own}
  Providers <- Menu
  Amounts = {a1}
  DefaultUrl = mempool
  DefaultAmount = a1
  HandTables <- SomeTables
  MaxCommands = 4
SYMMETRY ProcessSymmetry
INVARIANTS
  TypeOK
  TornByInitOnly
  InitIsFresh
  ReportedStays
  UpdateKeepsNetworks
CHECK_DEADLOCK FALSE
