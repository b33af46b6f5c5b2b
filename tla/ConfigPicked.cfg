\* One init, with a provider picked from the menu.
SPECIFICATION Spec
CONSTANTS
  NULL = NULL
  Torn = Torn
  Invalid = Invalid
  Processes = {p1}
  Required = {bitcoin}
  Optional = {signet}
  mempool = mempool
  blockstream = blockstream
  Urls = {mempool, blockstream, own}
  Providers <- Menu
  Amounts = {a1}
  DefaultUrl = mempool
  DefaultAmount = a1
  HandTables <- SomeTables
  MaxCommands = 1
INVARIANT
  PickedUrlIsSet
CHECK_DEADLOCK FALSE
